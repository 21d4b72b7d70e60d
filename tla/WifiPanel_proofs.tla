--------------------------- MODULE WifiPanel_proofs ---------------------------
(***************************************************************************)
(* What TLC checks of the WiFi screen on a small instance, for any number  *)
(* of networks, taps, lost networks and late replies: how a sender comes   *)
(* to read the reply to another command, how the row for the password      *)
(* comes to be hidden, when a saved network is asked for its password      *)
(* again, and what the list, the spinner and the label say once all is     *)
(* quiet.                                                                  *)
(***************************************************************************)
EXTENDS WifiPanel, TLAPS

-----------------------------------------------------------------------------
(* The control socket *)

Types ==
  /\ waiting \in [Threads -> Commands \cup {None}]
  /\ todo \in Seq(Commands) /\ tapped \in Networks
  /\ late \in Nat

NobodyWaits ==
  /\ \A t \in Threads : waiting[t] = None
  /\ requests = <<>> /\ replies = <<>>

(* Only t waits, and its command or the reply to it is all that is there.  *)
OnlyWaits(t) ==
  /\ waiting[t] # None /\ \A u \in Threads \ {t} : waiting[u] = None
  /\ \/ requests = <<waiting[t]>> /\ replies = <<>>
     \/ /\ requests = <<>>
        /\ \E r \in Readable : replies = <<r>> /\ r.to = waiting[t]

(* As long as commands have not overlapped and no reply was late, one      *)
(* command is under way at most.                                           *)
OneAtATime ==
  ~overlapped /\ late = 0 =>
    /\ ~misread
    /\ NobodyWaits \/ \E t \in Threads : OnlyWaits(t)

SInv == Types /\ OneAtATime

LEMMA OneElement ==
  ASSUME NEW x
  PROVE  /\ Append(<<>>, x) = <<x>> /\ Head(<<x>>) = x /\ Tail(<<x>>) = <<>>
         /\ <<x>> # <<>> /\ x \in {<<x>>[i] : i \in 1..Len(<<x>>)}
  OBVIOUS

LEMMA TwoThreads ==
  ASSUME NEW t \in Threads
  PROVE  Other(t) \in Threads /\ \A u \in Threads : u = t \/ u = Other(t)
  BY DEF Threads, Other

LEMMA Commanded ==
  ASSUME NEW n \in Networks
  PROVE  \A name \in {"SCAN", "SCAN_RESULTS", "LIST_NETWORKS", "SELECT_NETWORK",
                      "REASSOCIATE", "SAVE_CONFIG", "REMOVE_NETWORK",
                      "ADD_NETWORK", "SETUP"} :
           Cmd(name, n) \in Commands
  BY DEF Cmd, Commands

LEMMA ShortSequences ==
  ASSUME NEW S, NEW a \in S, NEW b \in S, NEW c \in S
  PROVE  /\ <<>> \in Seq(S) /\ <<a>> \in Seq(S)
         /\ <<a, b>> \in Seq(S) /\ <<a, b, c>> \in Seq(S)
  OBVIOUS

(* Steps that leave the socket alone.                                      *)
LEMMA SocketFrame ==
  ASSUME OneAtATime, UNCHANGED <<requests, replies, waiting, late, overlapped, misread>>
  PROVE  OneAtATime'
  BY DEF OneAtATime, NobodyWaits, OnlyWaits, Readable

(* A command that is sent while another is under way overlaps it.          *)
LEMMA SendsKeeps ==
  ASSUME SInv, NEW t \in Threads, NEW cmd \in Commands,
         waiting[t] = None, Sends(t, cmd)
  PROVE  OneAtATime' /\ waiting' \in [Threads -> Commands \cup {None}]
<1>1. /\ waiting' = [waiting EXCEPT ![t] = cmd] /\ cmd # None
      /\ requests' = Append(requests, cmd) /\ replies' = replies
      /\ late' = late /\ misread' = misread
      /\ ~overlapped' => ~overlapped /\ waiting[Other(t)] = None
  BY WifiAssumption DEF Sends
<1>2. waiting' \in [Threads -> Commands \cup {None}]
  BY <1>1 DEF SInv, Types
<1>3. ASSUME ~overlapped', late' = 0 PROVE ~misread' /\ OnlyWaits(t)'
  <2>1. NobodyWaits /\ ~misread
    BY <1>1, <1>3, TwoThreads DEF SInv, OneAtATime, OnlyWaits
  <2>2. requests' = <<cmd>> /\ replies' = <<>>
    BY <1>1, <2>1, OneElement DEF NobodyWaits
  <2>3. waiting'[t] = cmd /\ \A u \in Threads \ {t} : waiting'[u] = None
    BY <1>1, <2>1 DEF SInv, Types, NobodyWaits
  <2>4. QED BY <1>1, <2>1, <2>2, <2>3 DEF OnlyWaits
<1>4. QED BY <1>2, <1>3 DEF OneAtATime

(* Whoever reads while nothing overlapped reads its own reply.             *)
LEMMA ReceivesKeeps ==
  ASSUME SInv, NEW t \in Threads, NEW reply, Receives(t, reply)
  PROVE  OneAtATime' /\ waiting' \in [Threads -> Commands \cup {None}] /\ late' \in Nat
<1>1. /\ waiting' = [waiting EXCEPT ![t] = None] /\ waiting[t] # None
      /\ requests' = requests /\ overlapped' = overlapped
  BY DEF Receives
<1>2. waiting' \in [Threads -> Commands \cup {None}]
  BY <1>1 DEF SInv, Types
<1>3. CASE replies = <<>>
  <2>1. late' = late + 1
    BY <1>3 DEF Receives
  <2>2. late' \in Nat /\ late' # 0
    BY <2>1 DEF SInv, Types
  <2>3. QED BY <1>2, <2>2 DEF OneAtATime
<1>4. CASE replies # <<>>
  <2>1. /\ replies' = Tail(replies) /\ late' = late
        /\ misread' = (misread \/ Head(replies).to # waiting[t])
    BY <1>4 DEF Receives
  <2>2. ASSUME ~overlapped', late' = 0 PROVE ~misread' /\ NobodyWaits'
    <3>1. ~misread /\ OnlyWaits(t)
      BY <1>1, <2>1, <2>2 DEF SInv, OneAtATime, NobodyWaits, OnlyWaits
    <3>2. PICK r \in Readable : replies = <<r>> /\ r.to = waiting[t]
      BY <1>4, <3>1 DEF OnlyWaits
    <3>3. Head(replies) = r /\ replies' = <<>> /\ requests' = <<>>
      BY <1>1, <2>1, <3>1, <3>2, <1>4, OneElement DEF OnlyWaits
    <3>4. \A u \in Threads : waiting'[u] = None
      BY <1>1, <3>1 DEF SInv, Types, OnlyWaits
    <3>5. QED BY <2>1, <3>1, <3>2, <3>3, <3>4 DEF NobodyWaits
  <2>3. late' \in Nat
    BY <2>1 DEF SInv, Types
  <2>4. QED BY <1>2, <2>2, <2>3 DEF OneAtATime
<1>5. QED BY <1>3, <1>4

(* wpa_supplicant answers the command that is under way.                   *)
LEMMA AnswerKeeps == ASSUME SInv, Answer PROVE SInv'
<1>1. /\ UNCHANGED <<waiting, todo, tapped, late, overlapped, misread>>
      /\ requests # <<>> /\ requests' = Tail(requests)
  BY DEF Answer, Answered, Text, screen, widgets, senders
<1>2. PICK r : replies' = Append(replies, r) /\ r.to = Head(requests)
  BY DEF Answer, Answered, Text
<1>3. ASSUME ~overlapped, late = 0 PROVE ~misread /\ \E t \in Threads : OnlyWaits(t)'
  <2>1. PICK t \in Threads : OnlyWaits(t)
    BY <1>1, <1>3 DEF SInv, OneAtATime, NobodyWaits
  <2>2. requests = <<waiting[t]>> /\ replies = <<>>
    BY <1>1, <2>1 DEF OnlyWaits
  <2>3. requests' = <<>> /\ replies' = <<r>> /\ r.to = waiting[t]
    BY <1>1, <1>2, <2>2, OneElement
  <2>4. r \in Readable'
    BY <2>3, OneElement DEF Readable
  <2>5. OnlyWaits(t)'
    BY <1>1, <2>1, <2>3, <2>4 DEF OnlyWaits
  <2>6. QED BY <1>3, <2>5 DEF SInv, OneAtATime
<1>4. QED BY <1>1, <1>3 DEF SInv, Types, OneAtATime

LEMMA TapKeepsSocket ==
  ASSUME SInv,
         \/ Foreground \/ TapBack \/ TapReady \/ TapCancel
         \/ \E s \in Ssids : TapKnown(s) \/ TapUnknown(s) \/ TapRemove(s)
  PROVE  SInv'
<1>1. UNCHANGED <<requests, replies, waiting, late, overlapped, misread>>
  BY DEF Foreground, TapBack, TapReady, TapCancel, TapKnown, TapUnknown, TapRemove,
         Tap, sockets, senders
<1>2. tapped' \in Networks
  BY DEF SInv, Types, Networks, Foreground, TapBack, TapReady, TapCancel, TapKnown,
         TapUnknown, TapRemove, widgets
<1>3. todo' \in Seq(Commands)
  <2>1. \A s \in Ssids \cup {None} : s \in Networks
    BY DEF Networks
  <2>2. \A kind, cmds : cmds \in Seq(Commands) /\ Tap(kind, cmds) => todo' \in Seq(Commands)
    BY DEF Tap, screen, SInv, Types
  <2>3. CASE Foreground
    <3>1. <<Cmd("SCAN", None)>> \in Seq(Commands)
      BY <2>1, Commanded, ShortSequences
    <3>2. QED BY <2>2, <2>3, <3>1 DEF Foreground
  <2>4. CASE TapBack \/ TapCancel
    <3>1. <<>> \in Seq(Commands)
      OBVIOUS
    <3>2. QED BY <2>2, <2>4, <3>1 DEF TapBack, TapCancel
  <2>5. CASE TapReady
    <3>1. <<Cmd("ADD_NETWORK", None)>> \in Seq(Commands)
      BY <2>1, Commanded, ShortSequences
    <3>2. QED BY <2>2, <2>5, <3>1 DEF TapReady
  <2>6. ASSUME NEW s \in Ssids, TapKnown(s) \/ TapUnknown(s) \/ TapRemove(s)
        PROVE  todo' \in Seq(Commands)
    <3>1. /\ <<>> \in Seq(Commands)
          /\ <<Cmd("SELECT_NETWORK", s), Cmd("SAVE_CONFIG", None),
               Cmd("REASSOCIATE", None)>> \in Seq(Commands)
          /\ <<Cmd("REMOVE_NETWORK", s), Cmd("SAVE_CONFIG", None)>> \in Seq(Commands)
      <4>1. {Cmd("SELECT_NETWORK", s), Cmd("REMOVE_NETWORK", s), Cmd("SAVE_CONFIG", None),
             Cmd("REASSOCIATE", None)} \subseteq Commands
        BY <2>1, Commanded
      <4>2. QED BY <4>1, ShortSequences
    <3>2. QED BY <2>2, <2>6, <3>1 DEF TapKnown, TapUnknown, TapRemove
  <2>7. QED BY <2>3, <2>4, <2>5, <2>6
<1>4. QED BY <1>1, <1>2, <1>3, SocketFrame DEF SInv, Types

LEMMA ScreenSendsKeeps == ASSUME SInv, ScreenSends PROVE SInv'
<1>1. Head(todo) \in Commands /\ todo' \in Seq(Commands)
  BY DEF ScreenSends, SInv, Types
<1>2. OneAtATime' /\ waiting' \in [Threads -> Commands \cup {None}]
  BY <1>1, SendsKeeps DEF ScreenSends, Threads
<1>3. UNCHANGED <<tapped, late>>
  BY DEF ScreenSends, Sends, widgets
<1>4. QED BY <1>1, <1>2, <1>3 DEF SInv, Types

LEMMA ScreenReceivesKeeps ==
  ASSUME SInv, NEW reply, ScreenReceives(reply) PROVE SInv'
<1>1. OneAtATime' /\ waiting' \in [Threads -> Commands \cup {None}] /\ late' \in Nat
  BY ReceivesKeeps DEF ScreenReceives, Threads
<1>2. tapped' \in Networks
  BY DEF ScreenReceives, Continues, Networks, SInv, Types
<1>3. todo' \in Seq(Commands)
  <2>1. None \in Networks /\ tapped \in Networks
    BY DEF Networks, SInv, Types
  <2>2. Continues(reply) BY DEF ScreenReceives
  <2>3. \E n \in Networks :
          todo' \in {todo, <<>>, <<Cmd("SCAN", None)>>,
                     <<Cmd("SETUP", n), Cmd("SELECT_NETWORK", n), Cmd("SAVE_CONFIG", None)>>}
    BY <2>1, <2>2 DEF Continues
  <2>4. PICK n \in Networks :
          todo' \in {todo, <<>>, <<Cmd("SCAN", None)>>,
                     <<Cmd("SETUP", n), Cmd("SELECT_NETWORK", n), Cmd("SAVE_CONFIG", None)>>}
    BY <2>3
  <2>5. {Cmd("SCAN", None), Cmd("SETUP", n), Cmd("SELECT_NETWORK", n),
         Cmd("SAVE_CONFIG", None)} \subseteq Commands
    BY <2>1, Commanded
  <2>6. /\ <<>> \in Seq(Commands) /\ <<Cmd("SCAN", None)>> \in Seq(Commands)
        /\ <<Cmd("SETUP", n), Cmd("SELECT_NETWORK", n),
             Cmd("SAVE_CONFIG", None)>> \in Seq(Commands)
    BY <2>5, ShortSequences
  <2>7. QED BY <2>4, <2>6 DEF SInv, Types
<1>4. QED BY <1>1, <1>2, <1>3 DEF SInv, Types

LEMMA EventThreadKeeps ==
  ASSUME SInv, EventThread PROVE SInv'
<1>1. CASE TakeEvent \/ ShowResults \/ ShowConnected
  <2>1. UNCHANGED <<requests, replies, waiting, late, overlapped, misread, todo, tapped>>
    BY <1>1 DEF TakeEvent, ShowResults, ShowConnected, Shows, sockets, senders, screen, widgets
  <2>2. QED BY <2>1, SocketFrame DEF SInv, Types
<1>2. CASE EventSends
  <2>1. PICK cmd : cmd \in Commands /\ Sends("event", cmd)
    <3>1. None \in Networks BY DEF Networks
    <3>2. QED BY <1>2, <3>1, Commanded DEF EventSends
  <2>2. OneAtATime' /\ waiting' \in [Threads -> Commands \cup {None}]
    BY <1>2, <2>1, SendsKeeps DEF EventSends, Threads
  <2>3. UNCHANGED <<tapped, late, todo>>
    BY <1>2, <2>1 DEF EventSends, Sends, widgets, screen
  <2>4. QED BY <2>2, <2>3 DEF SInv, Types
<1>3. ASSUME NEW reply \in Readable, EventReceives(reply) PROVE SInv'
  <2>1. OneAtATime' /\ waiting' \in [Threads -> Commands \cup {None}] /\ late' \in Nat
    BY <1>3, ReceivesKeeps DEF EventReceives, Threads
  <2>2. UNCHANGED <<tapped, todo>>
    BY <1>3 DEF EventReceives, widgets, screen
  <2>3. QED BY <2>1, <2>2 DEF SInv, Types
<1>4. QED BY <1>1, <1>2, <1>3 DEF EventThread

LEMMA OthersKeepSocket ==
  ASSUME SInv, ScanDone \/ ScanFails \/ Join \/ Outage \/ Waiters \/ UNCHANGED vars
  PROVE  SInv'
<1>1. UNCHANGED <<requests, replies, waiting, late, overlapped, misread, todo, tapped>>
  BY DEF ScanDone, ScanFails, Join, Outage, Waiters, WaitChecks, WaitWrites, sockets, senders,
         screen, widgets, vars
<1>2. QED BY <1>1, SocketFrame DEF SInv, Types

(* A sender reads the reply to another command only after two commands     *)
(* were under way at once or a reply came after its timeout                *)
(* (wpa_event.cpp:104-116).                                                *)
THEOREM MisreadsNeedOverlap == Spec => []OnlyOverlapMisreads
<1>1. Init => SInv
  <2>1. SUFFICES ASSUME Init PROVE SInv OBVIOUS
  <2>2. Types BY <2>1 DEF Init, Types, Networks
  <2>3. OneAtATime BY <2>1 DEF Init, OneAtATime, NobodyWaits
  <2>4. QED BY <2>2, <2>3 DEF SInv
<1>2. SInv /\ [Next]_vars => SInv'
  <2>1. SUFFICES ASSUME SInv, [Next]_vars PROVE SInv' OBVIOUS
  <2>2. QED
    BY <2>1, AnswerKeeps, TapKeepsSocket, ScreenSendsKeeps, ScreenReceivesKeeps,
       EventThreadKeeps, OthersKeepSocket DEF Next, ScreenThread
<1>3. SInv => OnlyOverlapMisreads
  BY DEF SInv, Types, OneAtATime, OnlyOverlapMisreads
<1>4. QED BY <1>1, <1>2, <1>3, PTL DEF Spec

-----------------------------------------------------------------------------
(* The row for the password *)

(* A password is entered on a screen without a list and beside an event    *)
(* thread that stays idle, unless it was asked for amid an event.          *)
RowStays == enteringPassword /\ ~interrupted => at = "idle" /\ ~rows /\ pwRow

(* Steps of others than the user that leave rows, row and event alone.     *)
LEMMA RowFrame ==
  ASSUME RowStays, UNCHANGED <<enteringPassword, at, rows, pwRow>>,
         interrupted => interrupted'
  PROVE  RowStays'
  BY DEF RowStays

LEMMA TapKeepsRow ==
  ASSUME RowStays,
         \/ Foreground \/ TapBack \/ TapReady \/ TapCancel
         \/ \E s \in Ssids : TapKnown(s) \/ TapUnknown(s) \/ TapRemove(s)
  PROVE  RowStays'
<1>1. at' = at
  BY DEF Foreground, TapBack, TapReady, TapCancel, TapKnown, TapUnknown, TapRemove,
         Tap, eventLoop
<1>2. CASE Foreground \/ TapBack
  BY <1>1, <1>2 DEF Foreground, TapBack, RowStays
<1>3. CASE TapReady \/ TapCancel
  BY <1>3 DEF TapReady, TapCancel, RowStays
<1>4. ASSUME NEW s \in Ssids, TapKnown(s) PROVE RowStays'
  BY <1>4 DEF TapKnown, RowStays
<1>5. ASSUME NEW s \in Ssids, TapUnknown(s) PROVE RowStays'
  BY <1>1, <1>5 DEF TapUnknown, RowStays
<1>6. ASSUME NEW s \in Ssids, TapRemove(s) PROVE RowStays'
  BY <1>1, <1>6, RowFrame DEF TapRemove, widgets
<1>7. QED BY <1>2, <1>3, <1>4, <1>5, <1>6

(* An event that comes while the password is entered is dropped, so the    *)
(* event thread is not about to rebuild the list.                          *)
LEMMA EventThreadKeepsRow == ASSUME RowStays, EventThread PROVE RowStays'
<1>1. UNCHANGED <<enteringPassword, interrupted>>
  BY DEF EventThread, TakeEvent, EventSends, ShowResults, ShowConnected, Shows,
         EventReceives, widgets, marks
<1>2. CASE enteringPassword /\ ~interrupted
  <2>1. at = "idle"
    BY <1>2 DEF RowStays
  <2>2. TakeEvent
    BY <2>1 DEF EventThread, EventSends, ShowResults, ShowConnected, Shows, EventReceives
  <2>3. UNCHANGED <<at, rows, pwRow>>
    BY <1>2, <2>2 DEF TakeEvent, widgets
  <2>4. QED BY <1>1, <2>3, RowFrame
<1>3. QED BY <1>1, <1>2 DEF RowStays

LEMMA ScreenThreadKeepsRow == ASSUME RowStays, ScreenThread PROVE RowStays'
<1>1. CASE ScreenSends
  BY <1>1, RowFrame DEF ScreenSends, widgets, eventLoop, marks
<1>2. ASSUME NEW reply \in Readable, ScreenReceives(reply) PROVE RowStays'
  <2>1. UNCHANGED <<enteringPassword, at, pwRow>>
    BY <1>2 DEF ScreenReceives, eventLoop
  <2>2. Continues(reply)
    BY <1>2 DEF ScreenReceives
  <2>3. rows' = rows \/ rows' = FALSE
    BY <2>2 DEF Continues
  <2>4. interrupted => interrupted'
    BY <2>2, Zenon DEF Continues
  <2>5. QED BY <2>1, <2>3, <2>4 DEF RowStays
<1>3. QED BY <1>1, <1>2 DEF ScreenThread

LEMMA RowStep == ASSUME RowStays, [Next]_vars PROVE RowStays'
<1>1. CASE Answer
  BY <1>1, RowFrame DEF Answer, eventLoop, widgets
<1>2. CASE ScanDone \/ ScanFails \/ Join \/ Outage
  BY <1>2, RowFrame DEF ScanDone, ScanFails, Join, Outage, eventLoop, widgets, marks
<1>3. CASE Waiters
  BY <1>3, RowFrame DEF Waiters, WaitChecks, WaitWrites, eventLoop, widgets, marks
<1>4. CASE UNCHANGED vars
  BY <1>4, RowFrame DEF vars
<1>5. QED
  BY <1>1, <1>2, <1>3, <1>4, TapKeepsRow, EventThreadKeepsRow, ScreenThreadKeepsRow DEF Next

(* The row to type the password in stays while one is entered, unless it   *)
(* was asked for amid the handling of an event (wifi_panel.cpp:361, 417).  *)
THEOREM RowIsHiddenByLateEvents == Spec => []OnlyLateEventHidesPassword
<1>1. Init => RowStays
  BY DEF Init, RowStays
<1>2. RowStays /\ [Next]_vars => RowStays'
  BY RowStep
<1>3. RowStays => OnlyLateEventHidesPassword
  BY DEF RowStays, OnlyLateEventHidesPassword
<1>4. QED BY <1>1, <1>2, <1>3, PTL DEF Spec

-----------------------------------------------------------------------------
(* The list and the label: what is on the socket *)

(* Every sender gets the reply to its own command, and in time.            *)
Trusted == ~misread /\ late = 0

(* What is on the socket, from the front.                                  *)
Flying    == Len(replies) + Len(requests)
Flight(i) == IF i <= Len(replies) THEN replies[i].to ELSE requests[i - Len(replies)]

(* A command under way is awaited, one that was given up is late.          *)
Waiting(t) == waiting[t] # None
Awaited    == (IF Waiting("lvgl") THEN 1 ELSE 0) + (IF Waiting("event") THEN 1 ELSE 0)
Balance    == Flying = late + Awaited

(* Each command under way is one sender's, the other one is the other's.   *)
Paired == Trusted =>
  \A i \in 1..Flying : \E t \in Threads :
    /\ Waiting(t) /\ Flight(i) = waiting[t]
    /\ \A j \in 1..Flying : j # i => Waiting(Other(t)) /\ Flight(j) = waiting[Other(t)]

Queues == requests \in Seq(Commands) /\ replies \in Seq(Replies)

LEMMA FlightSends ==
  ASSUME Queues, NEW cmd \in Commands,
         requests' = Append(requests, cmd), replies' = replies
  PROVE  /\ Flying \in Nat /\ Flying' = Flying + 1 /\ Queues'
         /\ \A i \in 1..Flying : Flight(i)' = Flight(i)
         /\ \A i \in Nat : i = Flying + 1 => Flight(i)' = cmd
  BY DEF Queues, Flying, Flight

LEMMA FlightAnswer ==
  ASSUME Queues, requests # <<>>, NEW r \in Replies, r.to = Head(requests),
         requests' = Tail(requests), replies' = Append(replies, r)
  PROVE  /\ Flying \in Nat /\ Flying' = Flying /\ Queues'
         /\ \A i \in 1..Flying : Flight(i)' = Flight(i)
         /\ Len(replies) + 1 \in 1..Flying /\ Flight(Len(replies) + 1) = Head(requests)
<1>1. /\ Flying \in Nat /\ Flying' = Flying /\ Queues'
      /\ Len(replies) \in Nat /\ Len(replies') = Len(replies) + 1
      /\ Len(requests) \in Nat /\ Len(requests) >= 1 /\ Len(requests') = Len(requests) - 1
      /\ \A i \in 1..Len(replies) : replies'[i] = replies[i]
      /\ replies'[Len(replies) + 1] = r /\ Head(requests) = requests[1]
      /\ \A i \in 1..(Len(requests) - 1) : requests'[i] = requests[i + 1]
  BY DEF Queues, Flying
<1>2. ASSUME NEW i \in 1..Flying PROVE Flight(i)' = Flight(i)
  <2>1. CASE i <= Len(replies) BY <2>1, <1>1 DEF Flight, Flying
  <2>2. CASE i = Len(replies) + 1
    <3>1. Flight(i) = requests[1] BY <2>2, <1>1 DEF Flight
    <3>2. Flight(i)' = r.to BY <2>2, <1>1 DEF Flight
    <3> QED BY <3>1, <3>2, <1>1
  <2>3. CASE i > Len(replies) + 1
    <3>1. Flight(i) = requests[i - Len(replies)] BY <2>3, <1>1 DEF Flight, Flying
    <3>2. Flight(i)' = requests'[i - (Len(replies) + 1)] BY <2>3, <1>1 DEF Flight, Flying
    <3>3. i - (Len(replies) + 1) \in 1..(Len(requests) - 1)
          /\ (i - (Len(replies) + 1)) + 1 = i - Len(replies)
      BY <2>3, <1>1 DEF Flying
    <3> QED BY <3>1, <3>2, <3>3, <1>1
  <2> QED BY <1>1, <2>1, <2>2, <2>3 DEF Flying
<1>3. Len(replies) + 1 \in 1..Flying /\ Flight(Len(replies) + 1) = Head(requests)
  BY <1>1 DEF Flight, Flying
<1> QED BY <1>1, <1>2, <1>3

LEMMA FlightReceives ==
  ASSUME Queues, replies # <<>>, replies' = Tail(replies), requests' = requests
  PROVE  /\ Flying \in Nat /\ Flying >= 1 /\ Flying' = Flying - 1 /\ Queues'
         /\ Flight(1) = Head(replies).to
         /\ \A i \in 1..(Flying - 1) : Flight(i)' = Flight(i + 1)
<1>1. /\ Flying \in Nat /\ Flying >= 1 /\ Flying' = Flying - 1 /\ Queues'
      /\ Len(replies) \in Nat /\ Len(replies) >= 1 /\ Len(replies') = Len(replies) - 1
      /\ Len(requests) \in Nat /\ Head(replies) = replies[1]
      /\ \A i \in 1..(Len(replies) - 1) : replies'[i] = replies[i + 1]
  BY DEF Queues, Flying
<1>2. ASSUME NEW i \in 1..(Flying - 1) PROVE Flight(i)' = Flight(i + 1)
  <2>1. CASE i <= Len(replies) - 1 BY <2>1, <1>1 DEF Flight, Flying
  <2>2. CASE i > Len(replies) - 1
    <3>1. Flight(i)' = requests[i - (Len(replies) - 1)] BY <2>2, <1>1 DEF Flight, Flying
    <3>2. Flight(i + 1) = requests[(i + 1) - Len(replies)] BY <2>2, <1>1 DEF Flight, Flying
    <3>3. i - (Len(replies) - 1) = (i + 1) - Len(replies) BY <1>1
    <3> QED BY <3>1, <3>2, <3>3
  <2> QED BY <1>1, <2>1, <2>2
<1>3. Flight(1) = Head(replies).to BY <1>1 DEF Flight
<1> QED BY <1>1, <1>2, <1>3

LEMMA Others ==
  /\ Threads = {"lvgl", "event"}
  /\ Other("lvgl") = "event" /\ Other("event") = "lvgl"
<1>1. Other("lvgl") \in Threads \ {"lvgl"} BY DEF Threads, Other
<1>2. Other("event") \in Threads \ {"event"} BY DEF Threads, Other
<1> QED BY <1>1, <1>2 DEF Threads

LEMMA PairedSends ==
  ASSUME Queues, Types, Balance, Paired, NEW t \in Threads, NEW cmd \in Commands,
         waiting[t] = None, Sends(t, cmd)
  PROVE  Queues' /\ Balance' /\ Paired'
<1>1. /\ waiting' = [waiting EXCEPT ![t] = cmd] /\ cmd # None
      /\ requests' = Append(requests, cmd) /\ replies' = replies
      /\ late' = late /\ misread' = misread
  BY WifiAssumption DEF Sends
<1>2. /\ Flying \in Nat /\ Flying' = Flying + 1 /\ Queues'
      /\ \A i \in 1..Flying : Flight(i)' = Flight(i)
      /\ \A i \in Nat : i = Flying + 1 => Flight(i)' = cmd
  BY <1>1, FlightSends
<1>3. /\ t = "lvgl" \/ t = "event"
      /\ waiting'[t] = cmd /\ waiting'[Other(t)] = waiting[Other(t)]
      /\ Waiting(t)' /\ Waiting(Other(t))' = Waiting(Other(t)) /\ ~Waiting(t)
      /\ Other(Other(t)) = t /\ Other(t) \in Threads
  BY <1>1, Others DEF Types, Waiting
<1>4. Balance'
  BY <1>1, <1>2, <1>3, Others DEF Balance, Awaited, Types
<1>5. ASSUME Trusted', NEW i \in 1..Flying' PROVE
        \E u \in Threads :
          /\ Waiting(u)' /\ Flight(i)' = waiting'[u]
          /\ \A j \in 1..Flying' : j # i => Waiting(Other(u))' /\ Flight(j)' = waiting'[Other(u)]
  <2>1. Trusted BY <1>1, <1>5 DEF Trusted
  <2>2. ASSUME NEW k \in 1..Flying
        PROVE  /\ Waiting(Other(t)) /\ Flight(k)' = waiting'[Other(t)]
               /\ \A j \in 1..Flying : j = k
    <3>1. PICK u \in Threads :
            /\ Waiting(u) /\ Flight(k) = waiting[u]
            /\ \A j \in 1..Flying : j # k => Waiting(Other(u)) /\ Flight(j) = waiting[Other(u)]
      BY <2>1 DEF Paired
    <3>2. u = Other(t) BY <3>1, <1>3, Others
    <3> QED BY <3>1, <3>2, <1>2, <1>3
  <2>3. CASE i = Flying + 1
    <3>1. \A j \in 1..Flying' : j # i => j \in 1..Flying BY <2>3, <1>2
    <3> QED BY <2>2, <2>3, <3>1, <1>2, <1>3
  <2>4. CASE i \in 1..Flying
    <3>1. \A j \in 1..Flying' : j # i => j = Flying + 1 /\ j \in Nat BY <2>2, <2>4, <1>2
    <3>2. Waiting(Other(t))' /\ Flight(i)' = waiting'[Other(t)] BY <2>2, <2>4, <1>3
    <3> QED BY <3>1, <3>2, <1>2, <1>3
  <2> QED BY <2>3, <2>4, <1>2
<1> QED BY <1>2, <1>4, <1>5 DEF Paired

LEMMA PairedReceives ==
  ASSUME Queues, Types, Balance, Paired, NEW t \in Threads, NEW reply, Receives(t, reply)
  PROVE  Queues' /\ Balance' /\ Paired'
<1>1. /\ waiting' = [waiting EXCEPT ![t] = None] /\ Waiting(t) /\ requests' = requests
  BY DEF Receives, Waiting
<1>2. /\ t = "lvgl" \/ t = "event"
      /\ waiting'[Other(t)] = waiting[Other(t)] /\ ~Waiting(t)'
      /\ Waiting(Other(t))' = Waiting(Other(t))
      /\ Other(Other(t)) = t /\ Other(t) \in Threads
  BY <1>1, Others DEF Types, Waiting
<1>3. CASE replies = <<>>
  <2>1. late' = late + 1 /\ replies' = replies BY <1>3 DEF Receives
  <2>2. Queues' BY <1>1, <2>1 DEF Queues
  <2>3. Flying' = Flying /\ Flying \in Nat BY <1>1, <2>1 DEF Queues, Flying
  <2>4. Balance' BY <1>1, <1>2, <2>1, <2>3, Others DEF Balance, Awaited, Types
  <2>5. ~Trusted' BY <2>1 DEF Trusted, Types
  <2> QED BY <2>2, <2>4, <2>5 DEF Paired
<1>4. CASE replies # <<>>
  <2>1. /\ replies' = Tail(replies) /\ late' = late
        /\ misread' = (misread \/ Head(replies).to # waiting[t])
    BY <1>4 DEF Receives
  <2>2. /\ Flying \in Nat /\ Flying >= 1 /\ Flying' = Flying - 1 /\ Queues'
        /\ Flight(1) = Head(replies).to
        /\ \A i \in 1..(Flying - 1) : Flight(i)' = Flight(i + 1)
    BY <1>1, <1>4, <2>1, FlightReceives
  <2>3. Balance' BY <1>1, <1>2, <2>1, <2>2, Others DEF Balance, Awaited, Types
  <2>4. ASSUME Trusted', NEW i \in 1..Flying' PROVE
          \E u \in Threads :
            /\ Waiting(u)' /\ Flight(i)' = waiting'[u]
            /\ \A j \in 1..Flying' : j # i => Waiting(Other(u))' /\ Flight(j)' = waiting'[Other(u)]
    <3>1. Trusted /\ Flight(1) = waiting[t] BY <2>1, <2>2, <2>4 DEF Trusted
    <3>2. Flying' <= 1 /\ i = 1 BY <3>1, <2>1, <2>2, <2>4 DEF Balance, Awaited, Trusted
    <3>3. 1 \in 1..Flying /\ 2 \in 1..Flying BY <3>2, <2>2
    <3>4. PICK u \in Threads :
            /\ Waiting(u) /\ Flight(1) = waiting[u]
            /\ \A j \in 1..Flying : j # 1 => Waiting(Other(u)) /\ Flight(j) = waiting[Other(u)]
      BY <3>1, <3>3 DEF Paired
    <3>5. Waiting(Other(u)) /\ Flight(2) = waiting[Other(u)] BY <3>3, <3>4
    <3>6. Waiting(Other(t)) /\ Flight(2) = waiting[Other(t)]
      BY <1>2, <3>1, <3>4, <3>5, Others
    <3>7. Flight(i)' = waiting'[Other(t)] BY <1>2, <2>2, <3>2, <3>6
    <3>8. \A j \in 1..Flying' : j = i BY <2>2, <3>2
    <3>9. Waiting(Other(t))' BY <1>2, <3>6
    <3> QED BY <1>2, <3>7, <3>8, <3>9
  <2> QED BY <2>2, <2>3, <2>4 DEF Paired
<1> QED BY <1>3, <1>4

(* An answer moves a command from one queue to the other.                  *)
LEMMA PairedAnswer ==
  ASSUME Queues, Balance, Paired, requests # <<>>, NEW r \in Replies, r.to = Head(requests),
         requests' = Tail(requests), replies' = Append(replies, r),
         UNCHANGED <<waiting, late, misread>>
  PROVE  Queues' /\ Balance' /\ Paired'
<1>1. /\ Flying' = Flying /\ Queues' /\ Flying \in Nat
      /\ \A i \in 1..Flying : Flight(i)' = Flight(i)
  BY FlightAnswer
<1>2. Balance' BY <1>1 DEF Balance, Awaited, Waiting
<1>3. Paired'
  <2> SUFFICES ASSUME Trusted', NEW i \in 1..Flying' PROVE
        \E u \in Threads :
          /\ Waiting(u)' /\ Flight(i)' = waiting'[u]
          /\ \A j \in 1..Flying' : j # i => Waiting(Other(u))' /\ Flight(j)' = waiting'[Other(u)]
    BY DEF Paired
  <2>1. PICK u \in Threads :
          /\ Waiting(u) /\ Flight(i) = waiting[u]
          /\ \A j \in 1..Flying : j # i => Waiting(Other(u)) /\ Flight(j) = waiting[Other(u)]
    BY <1>1 DEF Paired, Trusted
  <2> QED BY <1>1, <2>1 DEF Waiting
<1> QED BY <1>1, <1>2, <1>3

LEMMA WireFrame ==
  ASSUME Queues, Balance, Paired, UNCHANGED <<requests, replies, waiting, late, misread>>
  PROVE  Queues' /\ Balance' /\ Paired'
<1>1. Queues' BY DEF Queues
<1>2. Flying' = Flying /\ \A i : Flight(i)' = Flight(i)
  BY DEF Flying, Flight
<1>3. Balance' BY <1>2 DEF Balance, Awaited, Waiting
<1>4. Paired' BY <1>2 DEF Paired, Trusted, Waiting
<1> QED BY <1>1, <1>3, <1>4

(* The commands each thread sends, and where it is when it waits.          *)
ListCmd == Cmd("LIST_NETWORKS", None)
ScanCmd == Cmd("SCAN", None)
SaveCmd == Cmd("SAVE_CONFIG", None)

EventAt ==
  /\ events \in Seq({"results", "connected"}) /\ event \in {"results", "connected"}
  /\ at \in {"idle", "results", "list", "listing", "show", "rescan"}
  /\ Waiting("event") =>
       \/ at = "results" /\ waiting["event"] = Cmd("SCAN_RESULTS", None)
       \/ at = "listing" /\ waiting["event"] = ListCmd
       \/ at = "rescan" /\ waiting["event"] = ScanCmd
  /\ at = "listing" => Waiting("event") /\ listNetworks = {}
  /\ at = "rescan" <=> lvLock = "event"

Stages(s) == {<<<<Cmd("REMOVE_NETWORK", s), SaveCmd>>, None>>,
              <<<<SaveCmd>>, Cmd("REMOVE_NETWORK", s)>>, <<<<SaveCmd>>, None>>,
              <<<<>>, SaveCmd>>, <<<<ScanCmd>>, None>>, <<<<>>, ScanCmd>>}

Plain(cmd) == cmd.name \notin {"LIST_NETWORKS", "REMOVE_NETWORK", "SCAN"}

ScreenAt ==
  /\ script # None <=> lvLock = "lvgl"
  /\ script = None => todo = <<>> /\ ~Waiting("lvgl")
  /\ script = "open" =>
       <<todo, waiting["lvgl"]>> \in {<<<<ScanCmd>>, None>>, <<<<>>, ScanCmd>>}
  /\ script = "remove" => \E s \in Ssids : <<todo, waiting["lvgl"]>> \in Stages(s)
  /\ script \in {"select", "join"} =>
       /\ \A i \in DOMAIN todo : Plain(todo[i])
       /\ Waiting("lvgl") => Plain(waiting["lvgl"])
  /\ script \in {None, "open", "remove", "select", "join"}

(* wpa_supplicant joins what it knows.                                     *)
Supplicant == known \subseteq Ssids /\ {current, selected} \subseteq known \cup {None}

Base == SInv /\ Queues /\ Balance /\ Paired /\ Supplicant /\ EventAt /\ ScreenAt

LEMMA AnswerIsTyped ==
  ASSUME Base, Answer
  PROVE  /\ requests # <<>> /\ requests' = Tail(requests)
         /\ UNCHANGED <<waiting, late, misread>> /\ Supplicant'
         /\ Head(requests) \in Commands
         /\ \E r \in Replies : r.to = Head(requests) /\ replies' = Append(replies, r)
<1>1. requests # <<>> /\ Head(requests) \in Commands BY DEF Answer, Base, Queues
<1>2. requests' = Tail(requests) BY DEF Answer, Answered, Text
<1>3. UNCHANGED <<waiting, late, misread>> BY DEF Answer, senders
<1>4. /\ None \in Networks /\ current \in Networks /\ {} \in SUBSET Ssids
      /\ known \in SUBSET Ssids
  BY DEF Base, Supplicant, Networks
<1>5. \E ok, nets, cur : Answered(Head(requests), ok, nets, cur) /\ ok \in BOOLEAN
        /\ nets \in SUBSET Ssids /\ cur \in Networks
  BY <1>4 DEF Answer, Text
<1>6. PICK ok, nets, cur : Answered(Head(requests), ok, nets, cur) /\ ok \in BOOLEAN
        /\ nets \in SUBSET Ssids /\ cur \in Networks
  BY <1>5
<1>7. [to |-> Head(requests), ok |-> ok, nets |-> nets, cur |-> cur] \in Replies
  BY <1>1, <1>6 DEF Replies
<1>8. \E r \in Replies : r.to = Head(requests) /\ replies' = Append(replies, r)
  BY <1>6, <1>7 DEF Answered
<1>9. Supplicant'
  <2>1. Head(requests).net \in Ssids \cup {None} BY <1>1 DEF Commands, Networks
  <2> QED BY <2>1 DEF Answer, supplicant, Base, Supplicant
<1> QED BY <1>1, <1>2, <1>3, <1>8, <1>9

LEMMA AnswerKeepsBase == ASSUME Base, Answer PROVE Base'
<1>1. Queues' /\ Balance' /\ Paired'
  BY AnswerIsTyped, PairedAnswer DEF Base
<1>2. SInv' BY AnswerKeeps DEF Base
<1>3. UNCHANGED <<events, event, at, listNetworks, waiting, lvLock, script, todo>>
  BY DEF Answer, screen, eventLoop, lists
<1>4. EventAt' /\ ScreenAt' BY <1>3 DEF Base, EventAt, ScreenAt, Waiting, Stages
<1> QED BY <1>1, <1>2, <1>4, AnswerIsTyped DEF Base

LEMMA SupplicantKeepsBase == ASSUME Base, ScanDone \/ ScanFails \/ Join \/ Outage PROVE Base'
<1>1. SInv' BY OthersKeepSocket DEF Base
<1>2. UNCHANGED <<requests, replies, waiting, late, misread>>
  BY DEF ScanDone, ScanFails, Join, Outage, sockets, senders
<1>3. Queues' /\ Balance' /\ Paired' BY <1>2, WireFrame DEF Base
<1>4. UNCHANGED <<event, at, listNetworks, waiting, lvLock, script, todo>>
  BY DEF ScanDone, ScanFails, Join, Outage, screen, eventLoop, lists
<1>5. events' \in Seq({"results", "connected"})
  BY DEF ScanDone, ScanFails, Join, Outage, Base, EventAt
<1>6. EventAt' /\ ScreenAt' BY <1>4, <1>5 DEF Base, EventAt, ScreenAt, Waiting, Stages
<1>7. Supplicant' BY DEF ScanDone, ScanFails, Join, Outage, Base, Supplicant
<1> QED BY <1>1, <1>3, <1>6, <1>7 DEF Base

LEMMA WaitersKeepBase == ASSUME Base, Waiters \/ UNCHANGED vars PROVE Base'
<1>1. SInv' BY OthersKeepSocket DEF Base
<1>2. UNCHANGED <<requests, replies, waiting, late, misread>>
  BY DEF Waiters, WaitChecks, WaitWrites, sockets, senders, vars
<1>3. Queues' /\ Balance' /\ Paired' BY <1>2, WireFrame DEF Base
<1>4. UNCHANGED <<events, event, at, listNetworks, waiting, lvLock, script, todo,
                  known, current, selected>>
  BY DEF Waiters, WaitChecks, WaitWrites, screen, eventLoop, lists, supplicant, vars
<1>5. EventAt' /\ ScreenAt' /\ Supplicant'
  BY <1>4 DEF Base, EventAt, ScreenAt, Waiting, Stages, Supplicant
<1> QED BY <1>1, <1>3, <1>5 DEF Base

SomeTap == \/ Foreground \/ TapBack \/ TapReady \/ TapCancel
           \/ \E s \in Ssids : TapKnown(s) \/ TapUnknown(s) \/ TapRemove(s)

LEMMA WhatATapIs ==
  ASSUME SomeTap
  PROVE  /\ lvLock = None
         /\ UNCHANGED <<known, selected, current, scanning, requests, replies, events,
                        waiting, at, event, found, late, misread, listNetworks, curNetwork,
                        skipped, outrun, unlisted, scanFailed>>
         /\ \/ UNCHANGED <<lvLock, script, todo>>
            \/ /\ lvLock' = "lvgl"
               /\ \/ Foreground /\ script' = "open" /\ todo' = <<ScanCmd>>
                  \/ TapReady /\ script' = "join" /\ todo' = <<Cmd("ADD_NETWORK", None)>>
                  \/ \E s \in Ssids :
                       \/ /\ TapKnown(s) /\ script' = "select"
                          /\ todo' = <<Cmd("SELECT_NETWORK", s), SaveCmd, Cmd("REASSOCIATE", None)>>
                       \/ /\ TapRemove(s) /\ script' = "remove"
                          /\ todo' = <<Cmd("REMOVE_NETWORK", s), SaveCmd>>
<1>1. \A kind, cmds : Tap(kind, cmds) =>
        /\ lvLock = None
        /\ UNCHANGED <<known, selected, current, scanning, requests, replies, events,
                       waiting, at, event, found, late, misread, skipped, outrun, unlisted,
                       scanFailed>>
        /\ IF cmds = <<>> THEN UNCHANGED <<lvLock, script, todo>>
                          ELSE lvLock' = "lvgl" /\ script' = kind /\ todo' = cmds
  BY Zenon DEF Tap, supplicant, sockets, eventLoop, senders, screen
<1>2. \A a, b, c : <<a>> # <<>> /\ <<a, b>> # <<>> /\ <<a, b, c>> # <<>>
  OBVIOUS
<1>3. CASE Foreground
  <2>1. Tap("open", <<ScanCmd>>) /\ UNCHANGED <<listNetworks, curNetwork>>
    BY <1>3 DEF Foreground, ScanCmd, lists
  <2> QED BY <1>1, <1>2, <1>3, <2>1
<1>4. CASE TapReady
  <2>1. Tap("join", <<Cmd("ADD_NETWORK", None)>>) /\ UNCHANGED <<listNetworks, curNetwork>>
    BY <1>4 DEF TapReady, lists
  <2> QED BY <1>1, <1>2, <1>4, <2>1
<1>5. CASE TapBack
  <2>1. Tap("back", <<>>) /\ UNCHANGED <<listNetworks, curNetwork>>
    BY <1>5 DEF TapBack, lists
  <2> QED BY <1>1, <2>1
<1>6. CASE TapCancel
  <2>1. Tap("cancel", <<>>) /\ UNCHANGED <<listNetworks, curNetwork>>
    BY <1>6 DEF TapCancel, lists
  <2> QED BY <1>1, <2>1
<1>7. ASSUME NEW s \in Ssids, TapUnknown(s)
      PROVE  Tap("ask", <<>>) /\ UNCHANGED <<listNetworks, curNetwork>>
  BY <1>7 DEF TapUnknown, lists
<1>8. ASSUME NEW s \in Ssids, TapKnown(s)
      PROVE  /\ Tap("select", <<Cmd("SELECT_NETWORK", s), SaveCmd, Cmd("REASSOCIATE", None)>>)
             /\ UNCHANGED <<listNetworks, curNetwork>>
  BY <1>8 DEF TapKnown, SaveCmd, lists
<1>9. ASSUME NEW s \in Ssids, TapRemove(s)
      PROVE  /\ Tap("remove", <<Cmd("REMOVE_NETWORK", s), SaveCmd>>)
             /\ UNCHANGED <<listNetworks, curNetwork>>
  BY <1>9 DEF TapRemove, SaveCmd, lists
<1>10. CASE \E s \in Ssids : TapKnown(s) \/ TapUnknown(s) \/ TapRemove(s)
  <2>1. PICK s \in Ssids : TapKnown(s) \/ TapUnknown(s) \/ TapRemove(s)
    BY <1>10
  <2>2. CASE TapUnknown(s) BY <1>1, <1>7, <2>2
  <2>3. CASE TapKnown(s)
    <3>1. /\ Tap("select", <<Cmd("SELECT_NETWORK", s), SaveCmd, Cmd("REASSOCIATE", None)>>)
          /\ UNCHANGED <<listNetworks, curNetwork>>
      BY <1>8, <2>3
    <3>2. /\ lvLock' = "lvgl" /\ script' = "select"
          /\ todo' = <<Cmd("SELECT_NETWORK", s), SaveCmd, Cmd("REASSOCIATE", None)>>
      BY <1>1, <1>2, <3>1
    <3> QED BY <1>1, <2>3, <3>1, <3>2, Zenon
  <2>4. CASE TapRemove(s)
    <3>1. /\ Tap("remove", <<Cmd("REMOVE_NETWORK", s), SaveCmd>>)
          /\ UNCHANGED <<listNetworks, curNetwork>>
      BY <1>9, <2>4
    <3>2. /\ lvLock' = "lvgl" /\ script' = "remove"
          /\ todo' = <<Cmd("REMOVE_NETWORK", s), SaveCmd>>
      BY <1>1, <1>2, <3>1
    <3> QED BY <1>1, <2>4, <3>1, <3>2, Zenon
  <2> QED BY <2>1, <2>2, <2>3, <2>4
<1> QED BY <1>3, <1>4, <1>5, <1>6, <1>10 DEF SomeTap

LEMMA TapKeepsBase == ASSUME Base, SomeTap PROVE Base'
<1>1. SInv' BY TapKeepsSocket DEF Base, SomeTap
<1>2. /\ lvLock = None
      /\ UNCHANGED <<known, selected, current, requests, replies, events, waiting, at,
                     event, late, misread, listNetworks>>
  BY WhatATapIs
<1>3. Queues' /\ Balance' /\ Paired' BY <1>2, WireFrame DEF Base
<1>4. lvLock' \in {lvLock, "lvgl"} /\ lvLock # "event" BY <1>2, WhatATapIs, WifiAssumption DEF Threads
<1>5. EventAt' /\ Supplicant' BY <1>2, <1>4 DEF Base, EventAt, Supplicant, Waiting
<1>6. script = None /\ waiting["lvgl"] = None /\ ~Waiting("lvgl")'
  BY <1>2, WifiAssumption DEF Base, ScreenAt, Waiting, Threads
<1>7. None \notin {"open", "join", "select", "remove"} 
  BY WifiAssumption
<1>8. ScreenAt'
  <2>1. CASE UNCHANGED <<lvLock, script, todo>>
    BY <1>2, <2>1 DEF Base, ScreenAt, Waiting, Stages
  <2>2. CASE lvLock' = "lvgl" /\ script' = "open" /\ todo' = <<ScanCmd>>
    BY <1>2, <1>6, <1>7, <2>2 DEF ScreenAt
  <2>3. CASE lvLock' = "lvgl" /\ script' = "join" /\ todo' = <<Cmd("ADD_NETWORK", None)>>
    BY <1>6, <1>7, <2>3 DEF ScreenAt, Plain, Cmd
  <2>4. CASE lvLock' = "lvgl" /\ script' = "select" /\ \E s \in Ssids :
               todo' = <<Cmd("SELECT_NETWORK", s), SaveCmd, Cmd("REASSOCIATE", None)>>
    BY <1>6, <1>7, <2>4 DEF ScreenAt, Plain, Cmd, SaveCmd
  <2>5. CASE lvLock' = "lvgl" /\ script' = "remove" /\ \E s \in Ssids :
               todo' = <<Cmd("REMOVE_NETWORK", s), SaveCmd>>
    BY <1>2, <1>6, <1>7, <2>5 DEF ScreenAt, Stages
  <2> QED BY <2>1, <2>2, <2>3, <2>4, <2>5, WhatATapIs
<1> QED BY <1>1, <1>3, <1>5, <1>8 DEF Base

LEMMA CommandsAreThere ==
  /\ ListCmd \in Commands /\ ScanCmd \in Commands /\ SaveCmd \in Commands
  /\ ListCmd # ScanCmd /\ ListCmd # SaveCmd /\ ScanCmd # SaveCmd
  /\ \A s \in Ssids : /\ Cmd("REMOVE_NETWORK", s) \in Commands
                      /\ Cmd("REMOVE_NETWORK", s) \notin {ListCmd, ScanCmd, SaveCmd}
  /\ None \notin Commands
<1>1. None \in Networks /\ Ssids \subseteq Networks BY DEF Networks
<1>2. ListCmd \in Commands /\ ScanCmd \in Commands /\ SaveCmd \in Commands
  BY <1>1 DEF ListCmd, ScanCmd, SaveCmd, Cmd, Commands
<1>3. \A s \in Ssids : Cmd("REMOVE_NETWORK", s) \in Commands
  BY <1>1 DEF Cmd, Commands
<1>4. \A n, m, x, y : Cmd(n, x) = Cmd(m, y) => n = m
  BY DEF Cmd
<1>5. /\ ListCmd # ScanCmd /\ ListCmd # SaveCmd /\ ScanCmd # SaveCmd
      /\ \A s \in Ssids : Cmd("REMOVE_NETWORK", s) \notin {ListCmd, ScanCmd, SaveCmd}
  BY <1>4 DEF ListCmd, ScanCmd, SaveCmd
<1> QED BY <1>2, <1>3, <1>5, WifiAssumption

LEMMA TwoElements ==
  ASSUME NEW x, NEW y
  PROVE  Head(<<x, y>>) = x /\ Tail(<<x, y>>) = <<y>>
  OBVIOUS

LEMMA ScreenSendsKeepsBase == ASSUME Base, ScreenSends PROVE Base'
<1>1. SInv' BY ScreenSendsKeeps DEF Base
<1>2. /\ todo # <<>> /\ waiting["lvgl"] = None /\ Sends("lvgl", Head(todo))
      /\ todo' = Tail(todo) /\ todo \in Seq(Commands)
      /\ UNCHANGED <<known, selected, current, events, lvLock, script, at, event, listNetworks>>
  BY DEF ScreenSends, supplicant, eventLoop, lists, Base, SInv, Types
<1>3. Head(todo) \in Commands BY <1>2
<1>4. Queues' /\ Balance' /\ Paired'
  BY <1>2, <1>3, PairedSends, Others DEF Base, SInv
<1>5. /\ waiting'["lvgl"] = Head(todo) /\ waiting'["event"] = waiting["event"]
      /\ ~Waiting("lvgl") /\ Waiting("lvgl")' /\ Waiting("event")' = Waiting("event")
  BY <1>2, <1>3, Others, WifiAssumption DEF Sends, Base, SInv, Types, Waiting
<1>6. EventAt' /\ Supplicant' BY <1>2, <1>5 DEF Base, EventAt, Supplicant
<1>7. ScreenAt'
  <2>1. script # None BY <1>2 DEF Base, ScreenAt
  <2>2. CASE script = "open"
    <3>1. todo = <<ScanCmd>>
      BY <1>2, <2>2, CommandsAreThere DEF Base, ScreenAt
    <3>2. Head(todo) = ScanCmd /\ Tail(todo) = <<>> BY <3>1
    <3> QED BY <1>2, <1>5, <2>1, <2>2, <3>2 DEF Base, ScreenAt
  <2>3. CASE script = "remove"
    <3>1. PICK s \in Ssids : <<todo, waiting["lvgl"]>> \in Stages(s)
      BY <2>3 DEF Base, ScreenAt
    <3>2. \/ todo = <<Cmd("REMOVE_NETWORK", s), SaveCmd>>
          \/ todo = <<SaveCmd>>
          \/ todo = <<ScanCmd>>
      BY <1>2, <3>1 DEF Stages
    <3>3. \/ Head(todo) = Cmd("REMOVE_NETWORK", s) /\ Tail(todo) = <<SaveCmd>>
          \/ Head(todo) = SaveCmd /\ Tail(todo) = <<>>
          \/ Head(todo) = ScanCmd /\ Tail(todo) = <<>>
      <4>1. /\ Head(<<SaveCmd>>) = SaveCmd /\ Tail(<<SaveCmd>>) = <<>>
            /\ Head(<<ScanCmd>>) = ScanCmd /\ Tail(<<ScanCmd>>) = <<>>
        BY OneElement
      <4>2. /\ Head(<<Cmd("REMOVE_NETWORK", s), SaveCmd>>) = Cmd("REMOVE_NETWORK", s)
            /\ Tail(<<Cmd("REMOVE_NETWORK", s), SaveCmd>>) = <<SaveCmd>>
        BY TwoElements
      <4> QED BY <3>2, <4>1, <4>2, Zenon
    <3>4. (<<todo, waiting["lvgl"]>> \in Stages(s))'
      BY <1>2, <1>5, <3>3 DEF Stages
    <3> QED BY <1>2, <2>1, <2>3, <3>4 DEF Base, ScreenAt
  <2>4. CASE script \in {"select", "join"}
    <3>1. \A i \in DOMAIN todo : Plain(todo[i])
      BY <2>4 DEF Base, ScreenAt
    <3>2. /\ 1 \in DOMAIN todo /\ Head(todo) = todo[1]
          /\ \A i \in DOMAIN Tail(todo) : i + 1 \in DOMAIN todo /\ Tail(todo)[i] = todo[i + 1]
      BY <1>2
    <3>3. Plain(Head(todo)) /\ \A i \in DOMAIN Tail(todo) : Plain(Tail(todo)[i])
      BY <3>1, <3>2
    <3>4. (\A i \in DOMAIN todo : Plain(todo[i]))' /\ Plain(waiting["lvgl"])'
      BY <1>2, <1>5, <3>3 DEF Plain
    <3> QED BY <1>2, <2>1, <2>4, <3>4 DEF Base, ScreenAt
  <2> QED BY <2>1, <2>2, <2>3, <2>4 DEF Base, ScreenAt
<1> QED BY <1>1, <1>4, <1>6, <1>7 DEF Base

(* How far a tap gets with a reply.                                        *)
LEMMA ScreenReceivesGoesOn ==
  ASSUME Base, NEW reply, ScreenReceives(reply)
  PROVE  /\ lvLock = "lvgl" /\ Waiting("lvgl") /\ waiting' = [waiting EXCEPT !["lvgl"] = None]
         /\ IF todo' = <<>> THEN lvLock' = None /\ script' = None
                            ELSE UNCHANGED <<lvLock, script>>
         /\ \/ script = "open" /\ todo = <<>> /\ waiting["lvgl"] = ScanCmd /\ todo' = <<>>
            \/ /\ script = "remove"
               /\ \/ /\ \E s \in Ssids : waiting["lvgl"] = Cmd("REMOVE_NETWORK", s)
                     /\ todo = <<SaveCmd>> /\ todo' = <<SaveCmd>>
                  \/ todo = <<>> /\ waiting["lvgl"] = SaveCmd /\ todo' = <<ScanCmd>>
                  \/ todo = <<>> /\ waiting["lvgl"] = ScanCmd /\ todo' = <<>>
            \/ script \in {"select", "join"} /\ \A i \in DOMAIN todo' : Plain(todo'[i])
<1>1. /\ Receives("lvgl", reply) /\ Continues(reply)
      /\ IF todo' = <<>> THEN lvLock' = None /\ script' = None
                         ELSE UNCHANGED <<lvLock, script>>
  BY DEF ScreenReceives
<1>2. Waiting("lvgl") /\ waiting' = [waiting EXCEPT !["lvgl"] = None]
  BY <1>1 DEF Receives, Waiting
<1>3. script # None /\ lvLock = "lvgl" BY <1>2 DEF Base, ScreenAt
<1>4. CASE script = "open"
  <2>1. todo = <<>> /\ waiting["lvgl"] = ScanCmd BY <1>2, <1>4 DEF Base, ScreenAt, Waiting
  <2>2. todo' = <<>> BY <1>1, <1>4 DEF Continues
  <2> QED BY <1>1, <1>2, <1>3, <1>4, <2>1, <2>2
<1>5. CASE script = "remove"
  <2>1. PICK s \in Ssids : <<todo, waiting["lvgl"]>> \in Stages(s)
    BY <1>5 DEF Base, ScreenAt
  <2>2. \/ waiting["lvgl"] = Cmd("REMOVE_NETWORK", s) /\ todo = <<SaveCmd>>
        \/ waiting["lvgl"] = SaveCmd /\ todo = <<>>
        \/ waiting["lvgl"] = ScanCmd /\ todo = <<>>
    BY <1>2, <2>1 DEF Stages, Waiting
  <2>3. waiting["lvgl"].name = "SAVE_CONFIG" => todo' = <<ScanCmd>>
    BY <1>1, <1>5 DEF Continues, ScanCmd
  <2>4. waiting["lvgl"].name # "SAVE_CONFIG" => todo' = todo
    BY <1>1, <1>5 DEF Continues
  <2>5. /\ Cmd("REMOVE_NETWORK", s).name # "SAVE_CONFIG" /\ ScanCmd.name # "SAVE_CONFIG"
        /\ SaveCmd.name = "SAVE_CONFIG"
    BY DEF Cmd, ScanCmd, SaveCmd
  <2>6. CASE waiting["lvgl"] = Cmd("REMOVE_NETWORK", s) /\ todo = <<SaveCmd>>
    BY <1>1, <1>2, <1>3, <1>5, <2>4, <2>5, <2>6
  <2>7. CASE waiting["lvgl"] = SaveCmd /\ todo = <<>>
    BY <1>1, <1>2, <1>3, <1>5, <2>3, <2>5, <2>7
  <2>8. CASE waiting["lvgl"] = ScanCmd /\ todo = <<>>
    BY <1>1, <1>2, <1>3, <1>5, <2>4, <2>5, <2>8
  <2> QED BY <2>2, <2>6, <2>7, <2>8
<1>6. CASE script \in {"select", "join"}
  <2>1. \A i \in DOMAIN todo : Plain(todo[i]) BY <1>6 DEF Base, ScreenAt
  <2>2. \/ todo' = todo \/ todo' = <<>>
        \/ \E id : todo' = <<Cmd("SETUP", id), Cmd("SELECT_NETWORK", id), SaveCmd>>
    BY <1>1, <1>6 DEF Continues, SaveCmd
  <2>3. \A id : \A i \in DOMAIN <<Cmd("SETUP", id), Cmd("SELECT_NETWORK", id), SaveCmd>> :
          Plain(<<Cmd("SETUP", id), Cmd("SELECT_NETWORK", id), SaveCmd>>[i])
    BY DEF Plain, Cmd, SaveCmd
  <2>4. \A i \in DOMAIN todo' : Plain(todo'[i])
    BY <2>1, <2>2, <2>3
  <2> QED BY <1>1, <1>2, <1>3, <1>6, <2>4
<1> QED BY <1>3, <1>4, <1>5, <1>6 DEF Base, ScreenAt

LEMMA ScreenReceivesKeepsBase ==
  ASSUME Base, NEW reply, ScreenReceives(reply) PROVE Base'
<1>1. SInv' BY ScreenReceivesKeeps DEF Base
<1>2. /\ Receives("lvgl", reply)
      /\ UNCHANGED <<known, selected, current, events, at, event, listNetworks>>
  BY DEF ScreenReceives, supplicant, eventLoop
<1>3. Queues' /\ Balance' /\ Paired'
  BY <1>2, PairedReceives, Others DEF Base, SInv
<1>4. /\ waiting'["lvgl"] = None /\ waiting'["event"] = waiting["event"]
      /\ ~Waiting("lvgl")' /\ Waiting("event")' = Waiting("event")
  BY ScreenReceivesGoesOn, Others DEF Base, SInv, Types, Waiting
<1>5. lvLock = "lvgl" /\ lvLock' \in {None, "lvgl"} /\ None # "event"
  BY ScreenReceivesGoesOn, WifiAssumption, Others
<1>6. EventAt' /\ Supplicant' BY <1>2, <1>4, <1>5 DEF Base, EventAt, Supplicant
<1>7. None \notin {"open", "join", "select", "remove", "lvgl"}
  BY WifiAssumption, Others
<1>8. ScreenAt'
  <2>1. CASE todo' = <<>>
    <3>1. lvLock' = None /\ script' = None BY <2>1, ScreenReceivesGoesOn
    <3> QED BY <1>4, <1>7, <2>1, <3>1 DEF ScreenAt
  <2>2. CASE todo' # <<>>
    <3>1. UNCHANGED <<lvLock, script>> /\ script # None /\ lvLock' = "lvgl"
      BY <2>2, <1>5, ScreenReceivesGoesOn DEF Base, ScreenAt
    <3>2. CASE script = "remove"
      <4>1. todo' = <<SaveCmd>> \/ todo' = <<ScanCmd>>
        BY <2>2, <3>2, ScreenReceivesGoesOn
      <4>2. PICK s \in Ssids : <<todo, waiting["lvgl"]>> \in Stages(s)
        BY <3>2 DEF Base, ScreenAt
      <4>3. (<<todo, waiting["lvgl"]>> \in Stages(s))'
        BY <1>4, <4>1 DEF Stages
      <4> QED BY <3>1, <3>2, <4>3 DEF ScreenAt
    <3>3. CASE script \in {"select", "join"}
      <4>1. \A i \in DOMAIN todo' : Plain(todo'[i])
        BY <3>3, ScreenReceivesGoesOn
      <4> QED BY <1>4, <3>1, <3>3, <4>1 DEF ScreenAt, Plain
    <3> QED BY <2>2, <3>2, <3>3, ScreenReceivesGoesOn
  <2> QED BY <2>1, <2>2
<1> QED BY <1>1, <1>3, <1>6, <1>8 DEF Base

LEMMA EventSendsKeepsBase == ASSUME Base, EventSends PROVE Base'
<1>1. SInv' BY EventThreadKeeps DEF Base, EventThread
<1>2. /\ waiting["event"] = None
      /\ UNCHANGED <<known, selected, current, events, lvLock, script, todo, event>>
  BY DEF EventSends, supplicant, screen
<1>3. PICK cmd \in Commands :
        /\ Sends("event", cmd)
        /\ \/ at = "results" /\ at' = at /\ listNetworks' = listNetworks
              /\ cmd = Cmd("SCAN_RESULTS", None)
           \/ at = "list" /\ at' = "listing" /\ listNetworks' = {} /\ cmd = ListCmd
           \/ at = "rescan" /\ at' = at /\ listNetworks' = listNetworks /\ cmd = ScanCmd
  <2>1. Cmd("SCAN_RESULTS", None) \in Commands BY DEF Cmd, Commands, Networks
  <2> QED BY <2>1, CommandsAreThere DEF EventSends, ListCmd, ScanCmd
<1>4. Queues' /\ Balance' /\ Paired'
  BY <1>2, <1>3, PairedSends, Others DEF Base, SInv
<1>5. waiting'["event"] = cmd /\ waiting'["lvgl"] = waiting["lvgl"]
      /\ Waiting("event")' /\ Waiting("lvgl")' = Waiting("lvgl")
  BY <1>3, Others, WifiAssumption DEF Sends, Base, SInv, Types, Waiting
<1>6. EventAt' BY <1>2, <1>3, <1>5 DEF Base, EventAt
<1>7. Supplicant' BY <1>2 DEF Base, Supplicant
<1>8. ScreenAt' BY <1>2, <1>5 DEF Base, ScreenAt, Stages
<1> QED BY <1>1, <1>4, <1>6, <1>7, <1>8 DEF Base

LEMMA EventReceivesKeepsBase ==
  ASSUME Base, NEW reply \in Readable, EventReceives(reply) PROVE Base'
<1>1. SInv' BY EventThreadKeeps DEF Base, EventThread
<1>2. /\ Receives("event", reply)
      /\ UNCHANGED <<known, selected, current, events, script, todo, event>>
      /\ \/ at = "results" /\ at' = "list" /\ UNCHANGED <<lvLock, listNetworks>>
         \/ at = "listing" /\ at' \in {"show", "idle"} /\ UNCHANGED lvLock
         \/ at = "rescan" /\ at' = "idle" /\ lvLock' = None /\ UNCHANGED listNetworks
  BY DEF EventReceives, supplicant, screen, lists
<1>3. Queues' /\ Balance' /\ Paired'
  BY <1>2, PairedReceives, Others DEF Base, SInv
<1>4. ~Waiting("event")' /\ waiting'["lvgl"] = waiting["lvgl"]
      /\ Waiting("lvgl")' = Waiting("lvgl")
  BY <1>2, Others DEF Receives, Base, SInv, Types, Waiting
<1>5. None \notin {"lvgl", "event"} BY WifiAssumption, Others
<1>6. EventAt' BY <1>2, <1>4, <1>5 DEF Base, EventAt
<1>7. Supplicant' BY <1>2 DEF Base, Supplicant
<1>8. ScreenAt'
  <2>1. lvLock' = lvLock \/ (lvLock = "event" /\ lvLock' = None)
    BY <1>2 DEF Base, EventAt
  <2>2. script' # None <=> lvLock' = "lvgl"
    BY <1>2, <1>5, <2>1 DEF Base, ScreenAt
  <2> QED BY <1>2, <1>4, <2>2 DEF Base, ScreenAt, Stages
<1> QED BY <1>1, <1>3, <1>6, <1>7, <1>8 DEF Base

LEMMA ShowKeepsBase == ASSUME Base, TakeEvent \/ ShowResults \/ ShowConnected PROVE Base'
<1>1. SInv' BY EventThreadKeeps DEF Base, EventThread
<1>2. /\ UNCHANGED <<known, selected, current, requests, replies, waiting, late, misread,
                     script, todo, listNetworks>>
  BY DEF TakeEvent, ShowResults, ShowConnected, Shows, supplicant, sockets, senders,
         screen, lists
<1>3. Queues' /\ Balance' /\ Paired' BY <1>2, WireFrame DEF Base
<1>4. Supplicant' BY <1>2 DEF Base, Supplicant
<1>5. None \notin {"lvgl", "event"} BY WifiAssumption, Others
<1>6. CASE TakeEvent
  <2>1. /\ at = "idle" /\ events # <<>> /\ events' = Tail(events) /\ lvLock' = lvLock
        /\ \/ event' = event /\ at' = at
           \/ event' = Head(events) /\ at' \in {"results", "list"}
    BY <1>6 DEF TakeEvent
  <2>2. EventAt' BY <1>2, <2>1 DEF Base, EventAt, Waiting
  <2>3. ScreenAt' BY <1>2, <2>1 DEF Base, ScreenAt, Stages, Waiting
  <2> QED BY <1>1, <1>3, <1>4, <2>2, <2>3 DEF Base
<1>7. CASE ShowResults \/ ShowConnected
  <2>1. /\ at = "show" /\ lvLock = None /\ UNCHANGED <<events, event>>
        /\ \/ at' = "idle" /\ lvLock' = lvLock
           \/ at' = "rescan" /\ lvLock' = "event"
    BY <1>7 DEF ShowResults, ShowConnected, Shows
  <2>2. EventAt' BY <1>2, <1>5, <2>1 DEF Base, EventAt, Waiting
  <2>3. ScreenAt' BY <1>2, <1>5, <2>1 DEF Base, ScreenAt, Stages, Waiting
  <2> QED BY <1>1, <1>3, <1>4, <2>2, <2>3 DEF Base
<1> QED BY <1>6, <1>7

LEMMA BaseStep == ASSUME Base, [Next]_vars PROVE Base'
<1>1. CASE ScreenThread
  BY <1>1, ScreenSendsKeepsBase, ScreenReceivesKeepsBase DEF ScreenThread
<1>2. CASE EventThread
  BY <1>2, EventSendsKeepsBase, EventReceivesKeepsBase, ShowKeepsBase DEF EventThread
<1>3. CASE SomeTap BY <1>3, TapKeepsBase
<1>4. CASE Answer \/ ScanDone \/ ScanFails \/ Join \/ Outage
  BY <1>4, AnswerKeepsBase, SupplicantKeepsBase
<1>5. CASE Waiters \/ UNCHANGED vars BY <1>5, WaitersKeepBase
<1> QED BY <1>1, <1>2, <1>3, <1>4, <1>5 DEF Next, SomeTap

LEMMA BaseInit == ASSUME Init PROVE Base
<1>1. SInv
  <2>2. Types BY DEF Init, Types, Networks
  <2>3. OneAtATime BY DEF Init, OneAtATime, NobodyWaits
  <2> QED BY <2>2, <2>3 DEF SInv
<1>2. /\ requests = <<>> /\ replies = <<>> /\ events = <<>> /\ late = 0
      /\ \A t \in Threads : ~Waiting(t)
  BY DEF Init, Waiting
<1>3. Queues BY <1>2 DEF Queues
<1>4. Flying = 0 BY <1>2 DEF Flying
<1>5. Balance /\ Paired BY <1>2, <1>4, Others DEF Balance, Awaited, Paired
<1>6. Supplicant BY DEF Init, Supplicant
<1>7. EventAt BY <1>2, WifiAssumption, Others DEF Init, EventAt
<1>8. ScreenAt BY <1>2, WifiAssumption, Others DEF Init, ScreenAt
<1> QED BY <1>1, <1>3, <1>5, <1>6, <1>7, <1>8 DEF Base

-----------------------------------------------------------------------------
(* The list of saved networks *)

(* The screen never asks for the list.                                     *)
LEMMA ScreenNeverLists == ASSUME Base PROVE waiting["lvgl"] # ListCmd
<1>1. ListCmd # None /\ ~Plain(ListCmd)
  BY CommandsAreThere DEF Plain, ListCmd, Cmd
<1>2. SUFFICES ASSUME waiting["lvgl"] = ListCmd PROVE FALSE OBVIOUS
<1>3. Waiting("lvgl") BY <1>1, <1>2 DEF Waiting
<1>4. ASSUME NEW s \in Ssids, <<todo, waiting["lvgl"]>> \in Stages(s) PROVE FALSE
  <2>1. waiting["lvgl"] \in {None, Cmd("REMOVE_NETWORK", s), SaveCmd, ScanCmd}
    BY <1>4 DEF Stages
  <2> QED BY <1>1, <1>2, <2>1, CommandsAreThere
<1>5. script # "open" BY <1>1, <1>2, CommandsAreThere DEF Base, ScreenAt
<1>6. script # "remove" BY <1>4 DEF Base, ScreenAt
<1>7. script \notin {"select", "join"} BY <1>1, <1>2, <1>3 DEF Base, ScreenAt
<1> QED BY <1>3, <1>5, <1>6, <1>7 DEF Base, ScreenAt

LEMMA EventLists == ASSUME Base, waiting["event"] = ListCmd PROVE at = "listing"
<1>1. ListCmd # Cmd("SCAN_RESULTS", None) BY DEF ListCmd, Cmd
<1> QED BY <1>1, CommandsAreThere DEF Base, EventAt, Waiting

(* There is one request for the list at most, or one reply with it.        *)
LEMMA OneListing ==
  ASSUME Base, Trusted, NEW i \in 1..Flying, Flight(i) = ListCmd
  PROVE  at = "listing" /\ \A j \in 1..Flying : Flight(j) = ListCmd => j = i
<1>1. PICK t \in Threads :
        /\ Waiting(t) /\ Flight(i) = waiting[t]
        /\ \A j \in 1..Flying : j # i => Waiting(Other(t)) /\ Flight(j) = waiting[Other(t)]
  BY DEF Base, Paired
<1>2. t = "event" BY <1>1, ScreenNeverLists, Others
<1>3. at = "listing" BY <1>1, <1>2, EventLists
<1>4. \A j \in 1..Flying : j # i => Flight(j) # ListCmd
  BY <1>1, <1>2, ScreenNeverLists, Others
<1> QED BY <1>3, <1>4

IsList(i) == replies[i].to = ListCmd

(* What the list that was read, or is on its way, holds.                   *)
Displayed == rows \/ enteringPassword \/ at = "show"
ListRead == Trusted =>
  /\ \A i \in DOMAIN replies : IsList(i) => unlisted \/ known \subseteq replies[i].nets
  /\ at # "listing" /\ Displayed => unlisted \/ known \subseteq listNetworks

LEMMA ListReadFrame ==
  ASSUME ListRead, known' \subseteq known \/ unlisted', unlisted => unlisted',
         misread => misread', late' = late, listNetworks' = listNetworks,
         \A i \in DOMAIN replies' : \E j \in DOMAIN replies : replies'[i] = replies[j],
         at' # "listing" /\ Displayed' => at # "listing" /\ Displayed
  PROVE  ListRead'
<1> SUFFICES ASSUME Trusted'
             PROVE  /\ \A i \in DOMAIN replies' : IsList(i)' => unlisted' \/ known' \subseteq replies'[i].nets
                    /\ at' # "listing" /\ Displayed' => unlisted' \/ known' \subseteq listNetworks'
  BY DEF ListRead
<1>1. Trusted BY DEF Trusted
<1>2. ASSUME NEW i \in DOMAIN replies', replies'[i].to = ListCmd
      PROVE  unlisted' \/ known' \subseteq replies'[i].nets
  <2>1. PICK j \in DOMAIN replies : replies'[i] = replies[j] OBVIOUS
  <2>2. IsList(j) BY <1>2, <2>1 DEF IsList
  <2> QED BY <1>1, <2>1, <2>2 DEF ListRead
<1>3. ASSUME at' # "listing", Displayed' PROVE unlisted' \/ known' \subseteq listNetworks'
  BY <1>1, <1>3 DEF ListRead
<1> QED BY <1>2, <1>3 DEF IsList, ListCmd, Cmd

LEMMA AnswerKeepsListRead == ASSUME Base, ListRead, Answer PROVE ListRead'
<1>1. UNCHANGED <<misread, late, at, listNetworks, rows, enteringPassword>>
  BY DEF Answer, senders, eventLoop, lists, widgets
<1>2. PICK r \in Replies : r.to = Head(requests) /\ replies' = Append(replies, r)
  BY AnswerIsTyped
<1>3. /\ requests # <<>> /\ requests' = Tail(requests) /\ Queues
      /\ Head(requests) \in Commands
  BY AnswerIsTyped DEF Base
<1>4. /\ Len(replies) + 1 \in 1..Flying /\ Flight(Len(replies) + 1) = Head(requests)
      /\ Flying \in Nat /\ Len(replies) \in Nat /\ DOMAIN replies = 1..Len(replies)
      /\ DOMAIN replies' = 1..(Len(replies) + 1) /\ replies'[Len(replies) + 1] = r
      /\ \A i \in 1..Len(replies) : replies'[i] = replies[i]
      /\ \A i \in 1..Len(replies) : i \in 1..Flying /\ Flight(i) = replies[i].to
  <2>1. Len(replies) + 1 \in 1..Flying /\ Flight(Len(replies) + 1) = Head(requests)
        /\ Flying \in Nat
    BY <1>2, <1>3, FlightAnswer
  <2> QED BY <1>2, <1>3, <2>1 DEF Queues, Flight
<1>5. Displayed' = Displayed BY <1>1 DEF Displayed
<1>6. CASE Head(requests).name = "LIST_NETWORKS"
  <2>1. known' = known /\ Answered(Head(requests), TRUE, known, current)
    BY <1>6 DEF Answer, supplicant
  <2>2. r.nets = known
    BY <1>2, <1>4, <2>1 DEF Answered, Base, Queues
  <2>3. Head(requests) = ListCmd \/ Head(requests) # ListCmd OBVIOUS
  <2>4. SUFFICES ASSUME Trusted' PROVE
               /\ \A i \in DOMAIN replies' : IsList(i)' => known' \subseteq replies'[i].nets
               /\ at' = "listing"
    BY DEF ListRead
  <2>5. Trusted BY <1>1, <2>4 DEF Trusted
  <2>6. Head(requests) = ListCmd
    <3>1. PICK t \in Threads : Flight(Len(replies) + 1) = waiting[t] /\ Waiting(t)
      BY <1>4, <2>5 DEF Base, Paired
    <3>2. t = "event"
      <4>1. CASE t = "lvgl"
        <5>1. /\ waiting["lvgl"] = Head(requests) /\ Waiting("lvgl") BY <1>4, <3>1, <4>1
        <5>2. ~Plain(waiting["lvgl"]) BY <1>6, <5>1 DEF Plain
        <5>3. script # None BY <5>1 DEF Base, ScreenAt
        <5>4. script # "open" BY <1>6, <5>1 DEF Base, ScreenAt, ScanCmd, Cmd, Waiting
        <5>5. script # "remove"
          <6>1. ASSUME NEW s \in Ssids, <<todo, waiting["lvgl"]>> \in Stages(s) PROVE FALSE
            <7>1. waiting["lvgl"] \in {Cmd("REMOVE_NETWORK", s), SaveCmd, ScanCmd}
              BY <5>1, <6>1 DEF Stages, Waiting
            <7> QED BY <1>6, <5>1, <7>1 DEF SaveCmd, ScanCmd, Cmd
          <6> QED BY <6>1 DEF Base, ScreenAt
        <5> QED BY <5>1, <5>2, <5>3, <5>4, <5>5 DEF Base, ScreenAt
      <4> QED BY <4>1, Others
    <3> QED BY <1>4, <1>6, <3>1, <3>2 DEF Base, EventAt, ScanCmd, Cmd
  <2>7. at = "listing" /\ \A j \in 1..Flying : Flight(j) = ListCmd => j = Len(replies) + 1
    BY <1>4, <2>5, <2>6, OneListing
  <2>8. \A i \in 1..Len(replies) : ~(replies'[i].to = ListCmd)
    BY <1>4, <2>7
  <2> QED BY <1>1, <1>4, <2>1, <2>2, <2>7, <2>8 DEF IsList, ListCmd, Cmd
<1>7. CASE Head(requests).name # "LIST_NETWORKS"
  <2>1. /\ known' \subseteq known \/ unlisted'
        /\ unlisted => unlisted'
    <3>1. CASE Head(requests).name = "SETUP"
      <4>1. /\ known' = known \cup ({Head(requests).net} \ {None})
            /\ unlisted' = (unlisted \/ Head(requests).net \notin known \cup {None})
        BY <3>1 DEF Answer
      <4> QED BY <4>1
    <3>2. CASE Head(requests).name # "SETUP"
      <4>1. known' = known \/ known' = known \ {Head(requests).net}
        BY <1>7, <3>2 DEF Answer, supplicant
      <4>2. unlisted' = unlisted
        BY <1>7, <3>2, Zenon DEF Answer
      <4> QED BY <4>1, <4>2
    <3> QED BY <3>1, <3>2
  <2>2. ~(r.to = ListCmd) BY <1>2, <1>7 DEF ListCmd, Cmd
  <2>3. SUFFICES ASSUME Trusted' PROVE
               /\ \A i \in DOMAIN replies' : IsList(i)' => unlisted' \/ known' \subseteq replies'[i].nets
               /\ at' # "listing" /\ Displayed' => unlisted' \/ known' \subseteq listNetworks'
    BY DEF ListRead
  <2>4. Trusted BY <1>1, <2>3 DEF Trusted
  <2>5. ASSUME NEW i \in DOMAIN replies', replies'[i].to = ListCmd
        PROVE  unlisted' \/ known' \subseteq replies'[i].nets
    <3>1. i \in 1..Len(replies) /\ replies'[i] = replies[i] BY <1>4, <2>2, <2>5
    <3> QED BY <1>4, <2>1, <2>4, <2>5, <3>1 DEF ListRead, IsList
  <2>6. at' # "listing" /\ Displayed' => unlisted' \/ known' \subseteq listNetworks'
    BY <1>1, <1>5, <2>1, <2>4 DEF ListRead
  <2> QED BY <2>5, <2>6 DEF IsList, ListCmd, Cmd
<1> QED BY <1>6, <1>7

(* A sender that is not to be told the wrong thing reads its own reply.    *)
LEMMA OwnReply ==
  ASSUME Base, NEW t \in Threads, NEW reply, Receives(t, reply), Trusted'
  PROVE  /\ Trusted /\ late' = late /\ (misread => misread')
         /\ 1 \in DOMAIN replies /\ reply = replies[1] /\ reply.to = waiting[t]
         /\ DOMAIN replies = 1..Len(replies) /\ Len(replies) \in Nat
         /\ \A i \in DOMAIN replies' : i + 1 \in DOMAIN replies /\ replies'[i] = replies[i + 1]
<1>1. late' # late + 1
  BY DEF Trusted, Base, SInv, Types
<1>2. /\ replies # <<>> /\ reply = Head(replies) /\ replies' = Tail(replies)
      /\ misread' = (misread \/ reply.to # waiting[t]) /\ late' = late
  BY <1>1 DEF Receives
<1>3. replies \in Seq(Replies) BY DEF Base, Queues
<1>4. /\ 1 \in DOMAIN replies /\ Head(replies) = replies[1]
      /\ DOMAIN replies = 1..Len(replies) /\ Len(replies) \in Nat
      /\ \A i \in DOMAIN Tail(replies) : i + 1 \in DOMAIN replies /\ Tail(replies)[i] = replies[i + 1]
  BY <1>2, <1>3
<1>5. Trusted /\ reply.to = waiting[t] /\ (misread => misread')
  BY <1>2 DEF Trusted
<1> QED BY <1>2, <1>4, <1>5

LEMMA EventReceivesKeepsListRead ==
  ASSUME Base, ListRead, NEW reply, EventReceives(reply) PROVE ListRead'
<1> SUFFICES ASSUME Trusted' PROVE ListRead' BY DEF ListRead
<1>1. /\ Receives("event", reply)
      /\ UNCHANGED <<known, unlisted, rows, enteringPassword>>
  BY DEF EventReceives, supplicant, widgets, marks
<1>2. /\ Trusted /\ late' = late /\ (misread => misread')
      /\ 1 \in DOMAIN replies /\ reply = replies[1] /\ reply.to = waiting["event"]
      /\ \A i \in DOMAIN replies' : i + 1 \in DOMAIN replies /\ replies'[i] = replies[i + 1]
  BY <1>1, OwnReply, Others
<1>3. CASE at = "listing"
  <2>1. waiting["event"] = ListCmd /\ listNetworks = {}
    BY <1>3 DEF Base, EventAt
  <2>2. unlisted \/ known \subseteq reply.nets
    BY <1>2, <2>1 DEF ListRead, IsList
  <2>3. listNetworks' = reply.nets
    BY <1>3, <2>1 DEF EventReceives
  <2>4. \A i \in DOMAIN replies' : IsList(i)' => unlisted' \/ known' \subseteq replies'[i].nets
    BY <1>1, <1>2 DEF ListRead, IsList, ListCmd, Cmd
  <2> QED BY <1>1, <2>2, <2>3, <2>4 DEF ListRead
<1>4. CASE at # "listing"
  <2>1. UNCHANGED listNetworks /\ at' \in {"list", "idle"}
    BY <1>4 DEF EventReceives, lists
  <2> QED BY <1>1, <1>2, <1>4, <2>1, ListReadFrame DEF Displayed
<1> QED BY <1>3, <1>4

LEMMA EventSendsKeepsListRead == ASSUME ListRead, EventSends PROVE ListRead'
<1>1. UNCHANGED <<known, unlisted, rows, enteringPassword, replies, late, misread>>
  BY DEF EventSends, Sends, supplicant, widgets, marks
<1>2. \/ UNCHANGED <<at, listNetworks>>
      \/ at' = "listing"
  BY DEF EventSends
<1> QED BY <1>1, <1>2 DEF ListRead, Trusted, Displayed, IsList, ListCmd, Cmd

LEMMA ScreenReceivesKeepsListRead ==
  ASSUME Base, ListRead, NEW reply, ScreenReceives(reply) PROVE ListRead'
<1> SUFFICES ASSUME Trusted' PROVE ListRead' BY DEF ListRead
<1>1. /\ Receives("lvgl", reply)
      /\ UNCHANGED <<known, unlisted, at, enteringPassword, listNetworks>>
  BY DEF ScreenReceives, supplicant, eventLoop
<1>2. rows' \in {rows, FALSE}
  BY DEF ScreenReceives, Continues
<1>3. /\ late' = late /\ (misread => misread')
      /\ \A i \in DOMAIN replies' : i + 1 \in DOMAIN replies /\ replies'[i] = replies[i + 1]
  BY <1>1, OwnReply, Others
<1>4. \A i \in DOMAIN replies' : \E j \in DOMAIN replies : replies'[i] = replies[j]
  BY <1>3
<1>5. Displayed' => Displayed BY <1>1, <1>2 DEF Displayed
<1> QED BY <1>1, <1>3, <1>4, <1>5, ListReadFrame

LEMMA OthersKeepListRead ==
  ASSUME ListRead, \/ SomeTap \/ ScanDone \/ ScanFails \/ Join \/ Outage \/ Waiters \/ ScreenSends
                   \/ TakeEvent \/ ShowResults \/ ShowConnected \/ UNCHANGED vars
  PROVE  ListRead'
<1>1. CASE SomeTap
  <2>1. UNCHANGED <<known, unlisted, replies, late, misread, at, listNetworks>>
    BY <1>1, WhatATapIs
  <2>2. rows' \/ enteringPassword' => rows \/ enteringPassword
    BY <1>1 DEF SomeTap, Foreground, TapBack, TapReady, TapCancel, TapKnown, TapUnknown,
                TapRemove, widgets
  <2> QED BY <2>1, <2>2, ListReadFrame DEF Displayed
<1>2. CASE ShowResults \/ ShowConnected
  <2>1. UNCHANGED <<known, unlisted, replies, late, misread, listNetworks>> /\ at = "show"
    BY <1>2 DEF ShowResults, ShowConnected, Shows, supplicant, sockets, senders, marks, lists
  <2> QED BY <2>1, ListReadFrame DEF Displayed
<1>3. CASE TakeEvent
  <2>1. /\ UNCHANGED <<known, unlisted, replies, late, misread, listNetworks, rows, enteringPassword>>
        /\ at = "idle" /\ at' \in {"idle", "results", "list"}
    BY <1>3 DEF TakeEvent, supplicant, sockets, senders, lists, widgets
  <2> QED BY <2>1, ListReadFrame DEF Displayed
<1>4. CASE ScanDone \/ ScanFails \/ Join \/ Outage \/ Waiters \/ ScreenSends \/ UNCHANGED vars
  <2>1. UNCHANGED <<known, unlisted, replies, late, misread, at, listNetworks, rows, enteringPassword>>
    BY <1>4 DEF ScanDone, ScanFails, Join, Outage, Waiters, WaitChecks, WaitWrites, ScreenSends, Sends,
                supplicant, sockets, senders, eventLoop, lists, widgets, marks, vars
  <2> QED BY <2>1, ListReadFrame DEF Displayed
<1> QED BY <1>1, <1>2, <1>3, <1>4

LEMMA ListReadStep == ASSUME Base, ListRead, [Next]_vars PROVE ListRead'
  BY AnswerKeepsListRead, EventReceivesKeepsListRead, EventSendsKeepsListRead,
     ScreenReceivesKeepsListRead, OthersKeepListRead
  DEF Next, ScreenThread, EventThread, SomeTap

(* A password is asked for by a tap on a row only.                         *)
LEMMA AskedByTap ==
  ASSUME [Next]_vars, label' # label, label'.says = "enter"
  PROVE  \E s \in Ssids : TapUnknown(s)
<1>1. ASSUME NEW what, NEW net, Says(what, net) PROVE what = "enter"
  BY <1>1 DEF Says
<1>2. ~Answer /\ ~ScanDone /\ ~ScanFails /\ ~Join /\ ~Outage /\ ~UNCHANGED vars
  BY DEF Answer, ScanDone, ScanFails, Join, Outage, widgets, vars
<1>3. ~Foreground /\ ~TapBack /\ ~TapReady /\ ~TapCancel
  BY <1>1 DEF Foreground, TapBack, TapReady, TapCancel
<1>4. \A s \in Ssids : ~TapKnown(s) /\ ~TapRemove(s)
  BY <1>1 DEF TapKnown, TapRemove, widgets
<1>5. ~ScreenThread
  <2>1. ~ScreenSends BY DEF ScreenSends, widgets
  <2>2. ASSUME NEW reply, ScreenReceives(reply) PROVE FALSE
    <3>1. Continues(reply) BY <2>2 DEF ScreenReceives
    <3> QED BY <1>1, <3>1 DEF Continues
  <2> QED BY <2>1, <2>2 DEF ScreenThread
<1>6. ~EventThread
  <2>1. ~TakeEvent /\ ~EventSends BY DEF TakeEvent, EventSends, widgets
  <2>2. \A reply : ~EventReceives(reply) BY DEF EventReceives, widgets
  <2>3. ~ShowConnected BY <1>1 DEF ShowConnected
  <2>4. ~ShowResults
    <3>1. SUFFICES ASSUME ShowResults PROVE FALSE OBVIOUS
    <3>2. UNCHANGED label \/ Says("connected", curNetwork) \/ Says("select", None)
      BY <3>1 DEF ShowResults
    <3> QED BY <1>1, <3>2
  <2> QED BY <2>1, <2>2, <2>3, <2>4 DEF EventThread
<1>7. ~Waiters
  BY <1>1 DEF Waiters, WaitChecks, WaitWrites, widgets
<1> QED BY <1>2, <1>3, <1>4, <1>5, <1>6, <1>7 DEF Next

(* The password of a saved network is asked for only if it is tapped while *)
(* list_networks is being filled or is behind, or after a reply was read   *)
(* as another's or came after its timeout (wifi_panel.cpp:302, 571-573):   *)
(* joining it again would add it twice.                                    *)
THEOREM OnlyAStaleListAsksAgain == Spec => OnlyListingAsksAgain
<1>1. Init => Base /\ ListRead
  <2>1. SUFFICES ASSUME Init PROVE Base /\ ListRead OBVIOUS
  <2>2. replies = <<>> /\ ~rows /\ ~enteringPassword /\ at = "idle"
    BY <2>1 DEF Init
  <2>3. ListRead BY <2>2 DEF ListRead, Displayed
  <2> QED BY <2>1, <2>3, BaseInit
<1>2. Base /\ ListRead /\ [Next]_vars => (Base /\ ListRead)'
  BY BaseStep, ListReadStep
<1>3. Base /\ ListRead /\ [Next]_vars =>
        [label' # label /\ label'.says = "enter" /\ label'.net \in known =>
           at = "listing" \/ unlisted \/ misread \/ late > 0]_vars
  <2>1. SUFFICES ASSUME Base, ListRead, [Next]_vars, label' # label, label'.says = "enter",
                        label'.net \in known, at # "listing", ~misread, ~(late > 0)
                 PROVE  unlisted
    OBVIOUS
  <2>2. PICK s \in Ssids : TapUnknown(s)
    BY <2>1, AskedByTap
  <2>3. rows /\ s \notin listNetworks /\ label'.net = s
    BY <2>2 DEF TapUnknown, Says
  <2>4. Trusted BY <2>1 DEF Trusted, Base, SInv, Types
  <2> QED BY <2>1, <2>3, <2>4 DEF ListRead, Displayed
<1> QED BY <1>1, <1>2, <1>3, PTL DEF Spec, OnlyListingAsksAgain

-----------------------------------------------------------------------------
(* The screen when all is quiet *)

ScanSent == \E i \in DOMAIN requests : requests[i].name = "SCAN"

(* What keeps the spinner on ends with a list, or is a scan that failed.   *)
SpinnerEnds == spinner /\ ~skipped /\ ~scanFailed =>
  \/ todo = <<ScanCmd>> \/ ScanSent \/ scanning
  \/ \E i \in DOMAIN events : events[i] = "results"
  \/ at \in {"results", "list", "listing", "show"} /\ event = "results"

LEMMA AppendKeeps ==
  ASSUME NEW S, NEW s \in Seq(S), NEW e \in S
  PROVE  /\ Append(s, e) # <<>>
         /\ \A i \in DOMAIN s : i \in DOMAIN Append(s, e) /\ Append(s, e)[i] = s[i]
         /\ \E i \in DOMAIN Append(s, e) : Append(s, e)[i] = e
<1>1. Len(s) + 1 \in DOMAIN Append(s, e) /\ Append(s, e)[Len(s) + 1] = e
  OBVIOUS
<1>2. \A i \in DOMAIN s : i \in DOMAIN Append(s, e) /\ Append(s, e)[i] = s[i]
  OBVIOUS
<1> QED BY <1>1, <1>2

LEMMA TailKeeps ==
  ASSUME NEW S, NEW s \in Seq(S), s # <<>>
  PROVE  \A i \in DOMAIN s : s[i] = Head(s) \/ (i - 1 \in DOMAIN Tail(s) /\ Tail(s)[i - 1] = s[i])
<1> SUFFICES ASSUME NEW i \in DOMAIN s, i # 1
             PROVE  i - 1 \in DOMAIN Tail(s) /\ Tail(s)[i - 1] = s[i]
  OBVIOUS
<1> QED OBVIOUS

LEMMA ScanGoesOn ==
  ASSUME Base, Answer
  PROVE  /\ ScanSent => ScanSent' \/ scanning'
         /\ scanning => scanning'
<1>1. requests # <<>> /\ requests' = Tail(requests) /\ requests \in Seq(Commands)
  BY AnswerIsTyped DEF Base, Queues
<1>2. scanning' = scanning \/ scanning' = TRUE
  BY DEF Answer, supplicant
<1>3. Head(requests).name = "SCAN" => scanning' = TRUE
  BY DEF Answer, supplicant
<1>4. ASSUME ScanSent, Head(requests).name # "SCAN" PROVE ScanSent'
  <2>1. PICK i \in DOMAIN requests : requests[i].name = "SCAN"
    BY <1>4 DEF ScanSent
  <2>2. i - 1 \in DOMAIN requests' /\ requests'[i - 1] = requests[i]
    BY <1>1, <1>4, <2>1, TailKeeps
  <2> QED BY <2>1, <2>2 DEF ScanSent
<1> QED BY <1>2, <1>3, <1>4

LEMMA SendsKeepsScan ==
  ASSUME Base, NEW t \in Threads, NEW cmd \in Commands, Sends(t, cmd)
  PROVE  (ScanSent => ScanSent') /\ (cmd.name = "SCAN" => ScanSent')
<1>1. requests' = Append(requests, cmd) /\ requests \in Seq(Commands)
  BY DEF Sends, Base, Queues
<1>2. /\ \A i \in DOMAIN requests : i \in DOMAIN requests' /\ requests'[i] = requests[i]
      /\ \E i \in DOMAIN requests' : requests'[i] = cmd
  BY <1>1, AppendKeeps
<1>3. ASSUME ScanSent PROVE ScanSent'
  BY <1>2, <1>3 DEF ScanSent
<1>4. ASSUME cmd.name = "SCAN" PROVE ScanSent'
  BY <1>2, <1>4 DEF ScanSent
<1> QED BY <1>3, <1>4

LEMMA SpinnerFrame ==
  ASSUME SpinnerEnds, spinner' = spinner, skipped' = skipped, scanFailed' = scanFailed,
         todo' = todo,
         ScanSent => ScanSent' \/ scanning', scanning => scanning',
         events' = events, at' = at, event' = event
  PROVE  SpinnerEnds'
  BY DEF SpinnerEnds, ScanCmd, Cmd

LEMMA SupplicantEndsSpinner ==
  ASSUME Base, SpinnerEnds, Answer \/ ScanDone \/ ScanFails \/ Join \/ Outage PROVE SpinnerEnds'
<1>1. CASE Answer
  <2>1. UNCHANGED <<spinner, skipped, scanFailed, todo, events, at, event>>
    BY <1>1 DEF Answer, widgets, screen, eventLoop
  <2> QED BY <1>1, <2>1, ScanGoesOn, SpinnerFrame
<1>2. CASE Outage
  <2>1. /\ UNCHANGED <<spinner, skipped, scanFailed, todo, events, at, event, requests>>
        /\ scanning' = TRUE
    BY <1>2 DEF Outage, widgets, screen, eventLoop, sockets, marks
  <2> QED BY <2>1, SpinnerFrame
<1>3. CASE ScanDone \/ Join
  <2>1. /\ UNCHANGED <<spinner, skipped, todo, at, event, requests>>
        /\ ScanDone \/ UNCHANGED <<scanning, scanFailed>>
        /\ \E e \in {"results", "connected"} : events' = Append(events, e)
        /\ ScanDone => events' = Append(events, "results")
        /\ events \in Seq({"results", "connected"})
    BY <1>3 DEF ScanDone, Join, widgets, screen, eventLoop, sockets, marks, Base, EventAt
  <2>2. \A i \in DOMAIN events : i \in DOMAIN events' /\ events'[i] = events[i]
    BY <2>1, AppendKeeps
  <2>3. ScanDone => \E i \in DOMAIN events' : events'[i] = "results"
    BY <2>1, AppendKeeps
  <2>4. ScanSent => ScanSent' BY <2>1 DEF ScanSent
  <2> QED BY <2>1, <2>2, <2>3, <2>4 DEF SpinnerEnds, ScanCmd, Cmd
<1>4. CASE ScanFails BY <1>4 DEF ScanFails, SpinnerEnds
<1> QED BY <1>1, <1>2, <1>3, <1>4

LEMMA TapEndsSpinner == ASSUME Base, SpinnerEnds, SomeTap PROVE SpinnerEnds'
<1>1. /\ lvLock = None
      /\ UNCHANGED <<scanning, requests, events, at, event, skipped, scanFailed>>
  BY WhatATapIs
<1>2. CASE Foreground
  <2>1. \A x : <<x>> # <<>> OBVIOUS
  <2>2. todo' = <<ScanCmd>> BY <1>2, <2>1 DEF Foreground, Tap, ScanCmd
  <2> QED BY <2>2 DEF SpinnerEnds, ScanCmd, Cmd
<1>3. CASE ~Foreground
  <2>1. spinner' = spinner
    BY <1>3 DEF SomeTap, TapBack, TapReady, TapCancel, TapKnown, TapUnknown, TapRemove, widgets
  <2>2. todo # <<ScanCmd>>
    <3>1. script = None BY <1>1, WifiAssumption, Others DEF Base, ScreenAt
    <3>2. todo = <<>> BY <3>1 DEF Base, ScreenAt
    <3> QED BY <3>2, OneElement
  <2>3. ScanSent => ScanSent' BY <1>1 DEF ScanSent
  <2> QED BY <1>1, <2>1, <2>2, <2>3 DEF SpinnerEnds
<1> QED BY <1>2, <1>3

LEMMA ScreenEndsSpinner == ASSUME Base, SpinnerEnds, ScreenThread PROVE SpinnerEnds'
<1>1. CASE ScreenSends
  <2>1. /\ todo # <<>> /\ Sends("lvgl", Head(todo)) /\ todo \in Seq(Commands)
        /\ UNCHANGED <<spinner, skipped, scanFailed, scanning, events, at, event>>
    BY <1>1 DEF ScreenSends, supplicant, eventLoop, widgets, marks, Base, SInv, Types
  <2>2. Head(todo) \in Commands BY <2>1
  <2>3. (ScanSent => ScanSent') /\ (todo = <<ScanCmd>> => ScanSent')
    BY <2>1, <2>2, SendsKeepsScan, Others, OneElement DEF ScanCmd, Cmd
  <2> QED BY <2>1, <2>3 DEF SpinnerEnds
<1>2. ASSUME NEW reply, ScreenReceives(reply) PROVE SpinnerEnds'
  <2>1. UNCHANGED <<skipped, scanFailed, scanning, events, at, event, requests>>
    BY <1>2 DEF ScreenReceives, Receives, supplicant, eventLoop
  <2>2. todo # <<ScanCmd>>
    <3>1. SUFFICES ASSUME todo = <<ScanCmd>> PROVE FALSE OBVIOUS
    <3>2. script # "open" /\ script # "remove"
      BY <1>2, <3>1, ScreenReceivesGoesOn, CommandsAreThere
    <3>3. ~Plain(todo[1]) /\ 1 \in DOMAIN todo BY <3>1 DEF Plain, ScanCmd, Cmd
    <3>4. script # None BY <1>2, ScreenReceivesGoesOn DEF Base, ScreenAt
    <3> QED BY <3>2, <3>3, <3>4 DEF Base, ScreenAt
  <2>3. spinner' = spinner \/ spinner' = FALSE \/ todo' = <<ScanCmd>>
    BY <1>2 DEF ScreenReceives, Continues, ScanCmd
  <2>4. ScanSent => ScanSent' BY <2>1 DEF ScanSent
  <2> QED BY <2>1, <2>2, <2>3, <2>4 DEF SpinnerEnds, ScanCmd, Cmd
<1> QED BY <1>1, <1>2 DEF ScreenThread

LEMMA EventEndsSpinner ==
  ASSUME Base, SpinnerEnds, EventThread \/ Waiters \/ UNCHANGED vars PROVE SpinnerEnds'
<1>1. UNCHANGED <<todo, scanning>>
  BY DEF EventThread, TakeEvent, EventSends, ShowResults, ShowConnected, Shows, EventReceives,
         Waiters, WaitChecks, WaitWrites, screen, supplicant, vars
<1>2. CASE TakeEvent
  <2>1. /\ at = "idle" /\ events # <<>> /\ events' = Tail(events)
        /\ events \in Seq({"results", "connected"})
        /\ UNCHANGED <<spinner, requests, scanFailed>>
        /\ \/ skipped' = TRUE
           \/ skipped' = skipped /\ event' = Head(events)
              /\ at' = IF Head(events) = "results" THEN "results" ELSE "list"
    BY <1>2 DEF TakeEvent, widgets, sockets, Base, EventAt
  <2>2. ASSUME NEW i \in DOMAIN events, events[i] = "results"
        PROVE  Head(events) = "results" \/ \E j \in DOMAIN events' : events'[j] = "results"
    <3>1. events[i] = Head(events) \/ (i - 1 \in DOMAIN events' /\ events'[i - 1] = events[i])
      BY <2>1, TailKeeps
    <3> QED BY <2>2, <3>1
  <2>3. ScanSent => ScanSent' BY <2>1 DEF ScanSent
  <2> QED BY <1>1, <2>1, <2>2, <2>3 DEF SpinnerEnds, ScanCmd, Cmd
<1>3. CASE EventSends
  <2>1. PICK cmd : cmd \in Commands /\ Sends("event", cmd)
    <3>1. None \in Networks BY DEF Networks
    <3> QED BY <1>3, <3>1, Commanded DEF EventSends
  <2>2. ScanSent => ScanSent' BY <2>1, SendsKeepsScan, Others
  <2>3. /\ UNCHANGED <<spinner, skipped, scanFailed, events, event>>
        /\ at' = at \/ at' = "listing"
    BY <1>3 DEF EventSends, widgets, marks
  <2> QED BY <1>1, <2>2, <2>3 DEF SpinnerEnds, ScanCmd, Cmd
<1>4. CASE ShowResults \/ ShowConnected
  BY <1>4 DEF ShowResults, ShowConnected, Shows, SpinnerEnds
<1>5. ASSUME NEW reply, EventReceives(reply) PROVE SpinnerEnds'
  <2>1. /\ UNCHANGED <<spinner, skipped, scanFailed, events, event, requests>>
        /\ \/ at = "results" /\ at' = "list"
           \/ at = "listing" /\ (event = "results" => at' = "show")
           \/ at = "rescan" /\ at' = "idle"
    BY <1>5 DEF EventReceives, Receives, widgets, marks
  <2>2. ScanSent => ScanSent' BY <2>1 DEF ScanSent
  <2> QED BY <1>1, <2>1, <2>2 DEF SpinnerEnds, ScanCmd, Cmd
<1>6. CASE Waiters \/ UNCHANGED vars
  <2>1. UNCHANGED <<spinner, skipped, scanFailed, events, at, event, requests>>
    BY <1>6 DEF Waiters, WaitChecks, WaitWrites, widgets, marks, eventLoop, sockets, vars
  <2>2. ScanSent => ScanSent' BY <2>1 DEF ScanSent
  <2> QED BY <1>1, <2>1, <2>2, SpinnerFrame
<1> QED BY <1>2, <1>3, <1>4, <1>5, <1>6 DEF EventThread

LEMMA SpinnerStep == ASSUME Base, SpinnerEnds, [Next]_vars PROVE SpinnerEnds'
  BY SupplicantEndsSpinner, TapEndsSpinner, ScreenEndsSpinner, EventEndsSpinner
  DEF Next, SomeTap

(* A list that is yet to be read.                                          *)
Removing == script = "remove" /\ ~(todo = <<>> /\ waiting["lvgl"] = ScanCmd)
Coming   == Removing \/ ScanSent \/ scanning \/ events # <<>> \/ at \in {"results", "list"}

(* The last one read, and one on its way, is right, or another is coming.  *)
ListRight == Trusted /\ ~skipped /\ ~scanFailed =>
  /\ \A i \in DOMAIN replies : IsList(i) =>
       \/ Coming
       \/ /\ replies[i].nets \subseteq known
          /\ current # None => replies[i].cur = current /\ current \in replies[i].nets
  /\ at # "listing" =>
       \/ Coming
       \/ /\ listNetworks \subseteq known
          /\ current # None /\ Displayed => curNetwork = current /\ current \in listNetworks

LEMMA ListRightFrame ==
  ASSUME ListRight, misread => misread', late' = late, skipped => skipped',
         scanFailed => scanFailed', known \subseteq known', current' \in {current, None},
         listNetworks' = listNetworks, curNetwork' = curNetwork,
         \A i \in DOMAIN replies' : \E j \in DOMAIN replies : replies'[i] = replies[j],
         at' # "listing" => at # "listing", Displayed' => Displayed, Coming => Coming'
  PROVE  ListRight'
<1> SUFFICES ASSUME Trusted', ~skipped', ~scanFailed', ~Coming'
             PROVE  /\ \A i \in DOMAIN replies' : IsList(i)' =>
                        /\ replies'[i].nets \subseteq known'
                        /\ current' # None => replies'[i].cur = current' /\ current' \in replies'[i].nets
                    /\ at' # "listing" =>
                        /\ listNetworks' \subseteq known'
                        /\ current' # None /\ Displayed' =>
                             curNetwork' = current' /\ current' \in listNetworks'
  BY DEF ListRight
<1>1. Trusted /\ ~skipped /\ ~scanFailed /\ ~Coming BY DEF Trusted
<1>2. ASSUME NEW i \in DOMAIN replies', replies'[i].to = ListCmd
      PROVE  /\ replies'[i].nets \subseteq known'
             /\ current' # None => replies'[i].cur = current' /\ current' \in replies'[i].nets
  <2>1. PICK j \in DOMAIN replies : replies'[i] = replies[j] OBVIOUS
  <2>2. IsList(j) BY <1>2, <2>1 DEF IsList
  <2>3. /\ replies[j].nets \subseteq known
        /\ current # None => replies[j].cur = current /\ current \in replies[j].nets
    BY <1>1, <2>2 DEF ListRight
  <2> QED BY <2>1, <2>3
<1>3. ASSUME at' # "listing"
      PROVE  /\ listNetworks' \subseteq known'
             /\ current' # None /\ Displayed' => curNetwork' = current' /\ current' \in listNetworks'
  BY <1>1, <1>3 DEF ListRight
<1> QED BY <1>2, <1>3 DEF IsList, ListCmd, Cmd

LEMMA ComingIsRight == ASSUME Coming' PROVE ListRight'
  BY DEF ListRight

(* A network that is removed is removed by a tap that asks for a scan.     *)
LEMMA RemovedByTap ==
  ASSUME Base, Trusted, Answer, Head(requests).name = "REMOVE_NETWORK"
  PROVE  Removing'
<1>1. /\ requests # <<>> /\ Queues
      /\ UNCHANGED <<script, todo, waiting>>
  BY AnswerIsTyped DEF Answer, screen, Base
<1>2. PICK r \in Replies : r.to = Head(requests) /\ replies' = Append(replies, r)
  BY AnswerIsTyped
<1>3. Len(replies) + 1 \in 1..Flying /\ Flight(Len(replies) + 1) = Head(requests)
  BY <1>1, <1>2, AnswerIsTyped, FlightAnswer
<1>4. PICK t \in Threads : Waiting(t) /\ waiting[t] = Head(requests)
  BY <1>3 DEF Base, Paired
<1>5. waiting[t].name = "REMOVE_NETWORK" BY <1>4
<1>6. t = "lvgl"
  <2>1. t # "event"
    BY <1>4, <1>5 DEF Base, EventAt, ListCmd, ScanCmd, Cmd
  <2> QED BY <2>1, Others
<1>7. script = "remove"
  <2>1. script # "open" BY <1>4, <1>5, <1>6 DEF Base, ScreenAt, ScanCmd, Cmd, Waiting
  <2>2. script \notin {"select", "join"} BY <1>4, <1>5, <1>6 DEF Base, ScreenAt, Plain
  <2> QED BY <1>4, <1>6, <2>1, <2>2 DEF Base, ScreenAt
<1>8. waiting["lvgl"] # ScanCmd BY <1>5, <1>6 DEF ScanCmd, Cmd
<1> QED BY <1>1, <1>7, <1>8 DEF Removing, ScanCmd, Cmd

LEMMA AnswerKeepsRight == ASSUME Base, ListRight, Answer PROVE ListRight'
<1> SUFFICES ASSUME Trusted', ~skipped', ~scanFailed', ~Coming' PROVE ListRight'
  BY DEF ListRight
<1>1. UNCHANGED <<misread, late, skipped, scanFailed, at, listNetworks, curNetwork, rows,
                  enteringPassword, script, todo, waiting, events>>
  BY DEF Answer, senders, eventLoop, lists, widgets, screen
<1>2. Trusted BY <1>1 DEF Trusted
<1>3. Coming => Coming' BY <1>1, ScanGoesOn DEF Coming, Removing, ScanCmd, Cmd
<1>4. Head(requests).name # "REMOVE_NETWORK" BY <1>2, RemovedByTap DEF Coming
<1>5. known \subseteq known' /\ current' \in {current, None}
  <2>1. Head(requests).name = "SETUP" => known \subseteq known' /\ current' = current
    BY DEF Answer
  <2>2. Head(requests).name # "SETUP" => known' = known /\ current' \in {current, None}
    BY <1>4 DEF Answer, supplicant
  <2> QED BY <2>1, <2>2
<1>6. PICK r \in Replies : r.to = Head(requests) /\ replies' = Append(replies, r)
  BY AnswerIsTyped
<1>7. /\ DOMAIN replies' = 1..(Len(replies) + 1) /\ replies'[Len(replies) + 1] = r
      /\ DOMAIN replies = 1..Len(replies) /\ Len(replies) \in Nat
      /\ \A i \in 1..Len(replies) : replies'[i] = replies[i]
  BY <1>6 DEF Base, Queues
<1>8. ~skipped /\ ~scanFailed /\ ~Coming BY <1>1, <1>3
<1>9. ASSUME NEW i \in DOMAIN replies', replies'[i].to = ListCmd
      PROVE  /\ replies'[i].nets \subseteq known'
             /\ current' # None => replies'[i].cur = current' /\ current' \in replies'[i].nets
  <2>1. CASE i = Len(replies) + 1
    <3>1. Head(requests).name = "LIST_NETWORKS" BY <1>6, <1>7, <1>9, <2>1 DEF ListCmd, Cmd
    <3>2. Answered(Head(requests), TRUE, known, current) /\ UNCHANGED <<known, current>>
      BY <3>1 DEF Answer, supplicant
    <3>3. replies'[i].nets = known /\ replies'[i].cur = current
      BY <1>7, <2>1, <3>2 DEF Answered, Base, Queues
    <3> QED BY <3>2, <3>3 DEF Base, Supplicant
  <2>2. CASE i \in 1..Len(replies)
    <3>1. i \in DOMAIN replies /\ replies'[i] = replies[i] BY <1>7, <2>2
    <3>2. IsList(i) BY <1>9, <3>1 DEF IsList
    <3>3. /\ replies[i].nets \subseteq known
          /\ current # None => replies[i].cur = current /\ current \in replies[i].nets
      BY <1>2, <1>8, <3>1, <3>2 DEF ListRight
    <3> QED BY <1>5, <3>1, <3>3
  <2> QED BY <1>7, <2>1, <2>2
<1>10. at' # "listing" =>
         /\ listNetworks' \subseteq known'
         /\ current' # None /\ Displayed' => curNetwork' = current' /\ current' \in listNetworks'
  BY <1>1, <1>2, <1>5, <1>8 DEF ListRight, Displayed
<1> QED BY <1>9, <1>10 DEF ListRight, IsList, ListCmd, Cmd

LEMMA TapKeepsRight == ASSUME Base, ListRight, SomeTap PROVE ListRight'
<1>1. /\ lvLock = None
      /\ UNCHANGED <<known, current, scanning, requests, replies, events, at, late, misread,
                     listNetworks, curNetwork, skipped, scanFailed>>
  BY WhatATapIs
<1>2. ~Removing
  BY <1>1, WifiAssumption, Others DEF Base, ScreenAt, Removing
<1>3. Coming => Coming' BY <1>1, <1>2 DEF Coming, ScanSent
<1>4. rows' \/ enteringPassword' => rows \/ enteringPassword
  BY DEF SomeTap, Foreground, TapBack, TapReady, TapCancel, TapKnown, TapUnknown,
         TapRemove, widgets
<1>5. Displayed' => Displayed BY <1>1, <1>4 DEF Displayed
<1> QED BY <1>1, <1>3, <1>5, ListRightFrame

LEMMA ScreenKeepsRight == ASSUME Base, ListRight, ScreenThread PROVE ListRight'
<1> SUFFICES ASSUME Trusted', ~skipped', ~scanFailed', ~Coming' PROVE ListRight'
  BY DEF ListRight
<1>1. UNCHANGED <<known, current, scanning, events, at, listNetworks, skipped, scanFailed,
                  enteringPassword>>
  BY DEF ScreenThread, ScreenSends, ScreenReceives, supplicant, eventLoop, lists, widgets, marks
<1>2. CASE ScreenSends
  <2>1. /\ todo # <<>> /\ waiting["lvgl"] = None /\ Sends("lvgl", Head(todo))
        /\ todo \in Seq(Commands) /\ UNCHANGED <<script, curNetwork, rows>>
        /\ todo' = Tail(todo)
    BY <1>2 DEF ScreenSends, widgets, lists, Base, SInv, Types
  <2>2. Head(todo) \in Commands BY <2>1
  <2>3. ScanSent => ScanSent' BY <2>1, <2>2, SendsKeepsScan, Others
  <2>4. waiting'["lvgl"] = Head(todo)
    BY <2>1, Others DEF Sends, Base, SInv, Types
  <2>5. Removing => Removing' \/ ScanSent'
    <3>1. Head(todo) = ScanCmd => ScanSent'
      BY <2>1, <2>2, SendsKeepsScan, Others DEF ScanCmd, Cmd
    <3>2. Head(todo) # ScanCmd /\ script = "remove" => Removing'
      BY <2>1, <2>4 DEF Removing, ScanCmd, Cmd
    <3> QED BY <3>1, <3>2 DEF Removing
  <2>6. Coming => Coming' BY <1>1, <2>3, <2>5 DEF Coming
  <2>7. UNCHANGED <<replies, late, misread>> BY <2>1 DEF Sends
  <2>8. Displayed' = Displayed BY <1>1, <2>1 DEF Displayed
  <2> QED BY <1>1, <2>1, <2>6, <2>7, <2>8, ListRightFrame
<1>3. ASSUME NEW reply, ScreenReceives(reply) PROVE ListRight'
  <2>1. Receives("lvgl", reply) /\ UNCHANGED requests
    BY <1>3 DEF ScreenReceives, Receives
  <2>2. /\ late' = late /\ (misread => misread')
        /\ \A i \in DOMAIN replies' : i + 1 \in DOMAIN replies /\ replies'[i] = replies[i + 1]
    BY <2>1, OwnReply, Others
  <2>3. \A i \in DOMAIN replies' : \E j \in DOMAIN replies : replies'[i] = replies[j]
    BY <2>2
  <2>4. Removing => Removing'
    <3>1. SUFFICES ASSUME Removing PROVE Removing' OBVIOUS
    <3>2. script = "remove" /\ todo' \in {<<SaveCmd>>, <<ScanCmd>>}
      BY <1>3, <3>1, ScreenReceivesGoesOn DEF Removing
    <3>3. \A x : <<x>> # <<>> OBVIOUS
    <3>4. todo' # <<>> BY <3>2, <3>3
    <3>5. script' = script BY <1>3, <3>4, ScreenReceivesGoesOn
    <3> QED BY <3>2, <3>4, <3>5 DEF Removing, ScanCmd, Cmd
  <2>5. Coming => Coming' BY <1>1, <2>1, <2>4 DEF Coming, ScanSent
  <2>6. rows' \in {rows, FALSE}
    BY <1>3 DEF ScreenReceives, Continues
  <2>7. Displayed' => Displayed BY <1>1, <2>6 DEF Displayed
  <2>8. curNetwork' = curNetwork \/ Coming'
    <3>1. SUFFICES ASSUME curNetwork' # curNetwork PROVE Coming' OBVIOUS
    <3>2. script = "remove" /\ waiting["lvgl"].name = "SAVE_CONFIG"
      BY <1>3, <3>1 DEF ScreenReceives, Continues
    <3>3. Removing BY <3>2 DEF Removing, ScanCmd, Cmd
    <3> QED BY <2>4, <3>3 DEF Coming
  <2> QED BY <1>1, <2>2, <2>3, <2>5, <2>7, <2>8, ListRightFrame
<1> QED BY <1>2, <1>3 DEF ScreenThread

LEMMA EventSendsKeepsRight == ASSUME Base, ListRight, EventSends PROVE ListRight'
<1> SUFFICES ASSUME Trusted', ~skipped', ~scanFailed', ~Coming' PROVE ListRight'
  BY DEF ListRight
<1>1. /\ waiting["event"] = None
      /\ UNCHANGED <<known, current, scanning, events, curNetwork, skipped, scanFailed, rows,
                     enteringPassword, script, todo>>
  BY DEF EventSends, supplicant, lists, widgets, marks, screen
<1>2. PICK cmd : cmd \in Commands /\ Sends("event", cmd)
  <2>1. None \in Networks BY DEF Networks
  <2> QED BY <2>1, Commanded DEF EventSends
<1>3. UNCHANGED <<replies, late, misread>> /\ waiting'["lvgl"] = waiting["lvgl"]
  BY <1>2, Others DEF Sends, Base, SInv, Types
<1>4. ScanSent => ScanSent' BY <1>2, SendsKeepsScan, Others
<1>5. CASE at # "list"
  <2>1. UNCHANGED <<at, listNetworks>> BY <1>5 DEF EventSends
  <2>2. Coming => Coming'
    BY <1>1, <1>3, <1>4, <2>1 DEF Coming, Removing, ScanCmd, Cmd
  <2>3. Displayed' = Displayed BY <1>1, <2>1 DEF Displayed
  <2> QED BY <1>1, <1>3, <2>1, <2>2, <2>3, ListRightFrame
<1>6. CASE at = "list"
  <2>1. at' = "listing" BY <1>6 DEF EventSends
  <2>2. ASSUME NEW i \in DOMAIN replies, replies[i].to = ListCmd PROVE FALSE
    <3>1. i \in 1..Flying /\ Flight(i) = ListCmd
      BY <2>2 DEF Flying, Flight, Base, Queues
    <3>2. Trusted BY <1>3 DEF Trusted
    <3> QED BY <1>6, <3>1, <3>2, OneListing
  <2> QED BY <1>3, <2>1, <2>2 DEF ListRight, IsList, ListCmd, Cmd
<1> QED BY <1>5, <1>6

LEMMA EventReceivesKeepsRight ==
  ASSUME Base, ListRight, NEW reply, EventReceives(reply) PROVE ListRight'
<1> SUFFICES ASSUME Trusted', ~skipped', ~scanFailed', ~Coming' PROVE ListRight'
  BY DEF ListRight
<1>1. /\ Receives("event", reply)
      /\ UNCHANGED <<known, current, scanning, events, requests, skipped, scanFailed, rows,
                     enteringPassword, script, todo>>
  BY DEF EventReceives, Receives, supplicant, widgets, marks, screen
<1>2. /\ Trusted /\ late' = late /\ (misread => misread')
      /\ 1 \in DOMAIN replies /\ reply = replies[1] /\ reply.to = waiting["event"]
      /\ \A i \in DOMAIN replies' : i + 1 \in DOMAIN replies /\ replies'[i] = replies[i + 1]
  BY <1>1, OwnReply, Others
<1>3. waiting'["lvgl"] = waiting["lvgl"]
  BY <1>1, Others DEF Receives, Base, SInv, Types
<1>4. Coming => at \in {"results", "list"}
  BY <1>1, <1>3 DEF Coming, Removing, ScanSent, ScanCmd, Cmd
<1>5. CASE at = "listing"
  <2>1. waiting["event"] = ListCmd /\ listNetworks = {}
    BY <1>5 DEF Base, EventAt
  <2>2. IsList(1) /\ ~Coming BY <1>2, <1>4, <1>5, <2>1 DEF IsList
  <2>3. /\ reply.nets \subseteq known
        /\ current # None => reply.cur = current /\ current \in reply.nets
    BY <1>1, <1>2, <2>2 DEF ListRight
  <2>4. /\ listNetworks' = reply.nets
        /\ reply.cur # None => curNetwork' = reply.cur
    BY <1>5, <2>1 DEF EventReceives
  <2>5. ASSUME NEW i \in DOMAIN replies', replies'[i].to = ListCmd
        PROVE  /\ replies'[i].nets \subseteq known'
               /\ current' # None => replies'[i].cur = current' /\ current' \in replies'[i].nets
    <3>1. i + 1 \in DOMAIN replies /\ IsList(i + 1) /\ replies'[i] = replies[i + 1]
      BY <1>2, <2>5 DEF IsList
    <3> QED BY <1>1, <1>2, <2>2, <3>1 DEF ListRight
  <2> QED BY <1>1, <2>3, <2>4, <2>5 DEF ListRight, IsList, ListCmd, Cmd
<1>6. CASE at = "rescan"
  <2>1. UNCHANGED <<listNetworks, curNetwork>> /\ at' = "idle"
    BY <1>6 DEF EventReceives, lists
  <2>2. \A i \in DOMAIN replies' : \E j \in DOMAIN replies : replies'[i] = replies[j]
    BY <1>2
  <2> QED BY <1>1, <1>2, <1>4, <1>6, <2>1, <2>2, ListRightFrame DEF Displayed
<1>7. CASE at = "results"
  <2>1. at' = "list" BY <1>7 DEF EventReceives
  <2> QED BY <2>1 DEF Coming
<1> QED BY <1>5, <1>6, <1>7 DEF EventReceives

LEMMA OthersKeepRight ==
  ASSUME ListRight, \/ ScanDone \/ ScanFails \/ Join \/ Outage \/ Waiters \/ TakeEvent
                    \/ ShowResults \/ ShowConnected \/ UNCHANGED vars,
         Base
  PROVE  ListRight'
<1>1. CASE ScanDone \/ Join
  <2>1. PICK e \in {"results", "connected"} : events' = Append(events, e)
    BY <1>1 DEF ScanDone, Join
  <2>2. events' # <<>> BY <2>1, AppendKeeps DEF Base, EventAt
  <2> QED BY <2>2, ComingIsRight DEF Coming
<1>2. CASE Outage
  BY <1>2, ComingIsRight DEF Outage, Coming
<1>6. CASE ScanFails BY <1>6 DEF ScanFails, ListRight
<1>3. CASE TakeEvent
  <2>1. skipped' = TRUE \/ at' \in {"results", "list"}
    BY <1>3 DEF TakeEvent
  <2> QED BY <2>1 DEF ListRight, Coming
<1>4. CASE ShowResults \/ ShowConnected
  <2>1. /\ at = "show" /\ at' # "listing"
        /\ UNCHANGED <<known, current, scanning, requests, replies, events, late, misread,
                       listNetworks, curNetwork, skipped, scanFailed, script, todo,
                       waiting>>
    BY <1>4 DEF ShowResults, ShowConnected, Shows, supplicant, sockets, senders, marks,
                lists, screen
  <2>2. Displayed BY <2>1 DEF Displayed
  <2>3. Coming => Coming'
    BY <2>1 DEF Coming, Removing, ScanSent, ScanCmd, Cmd
  <2> QED BY <2>1, <2>2, <2>3, ListRightFrame
<1>5. CASE Waiters \/ UNCHANGED vars
  <2>1. UNCHANGED <<known, current, scanning, requests, replies, events, late, misread, at,
                    listNetworks, curNetwork, skipped, scanFailed, script, todo, waiting, rows,
                    enteringPassword>>
    BY <1>5 DEF Waiters, WaitChecks, WaitWrites, supplicant, sockets, senders, marks,
                lists, screen, eventLoop, widgets, vars
  <2>2. Displayed' = Displayed BY <2>1 DEF Displayed
  <2>3. Coming => Coming'
    BY <2>1 DEF Coming, Removing, ScanSent, ScanCmd, Cmd
  <2> QED BY <2>1, <2>2, <2>3, ListRightFrame
<1> QED BY <1>1, <1>2, <1>3, <1>4, <1>5, <1>6

LEMMA ListRightStep == ASSUME Base, ListRight, [Next]_vars PROVE ListRight'
  BY AnswerKeepsRight, TapKeepsRight, ScreenKeepsRight, EventSendsKeepsRight,
     EventReceivesKeepsRight, OthersKeepRight
  DEF Next, EventThread, SomeTap

(* How far joining a new network has got: it is set up, then selected.     *)
Setup(n)  == Cmd("SETUP", n)
Select(n) == Cmd("SELECT_NETWORK", n)
AddCmd    == Cmd("ADD_NETWORK", None)
JoinStages(n) == {<<<<AddCmd>>, None>>, <<<<>>, AddCmd>>,
                  <<<<Setup(n), Select(n), SaveCmd>>, None>>,
                  <<<<Select(n), SaveCmd>>, Setup(n)>>, <<<<Select(n), SaveCmd>>, None>>,
                  <<<<SaveCmd>>, Select(n)>>, <<<<SaveCmd>>, None>>, <<<<>>, SaveCmd>>}
SetsUp(cmd) == cmd.name = "SETUP"
JoinAt ==
  /\ script = "join" => \E n \in Networks : <<todo, waiting["lvgl"]>> \in JoinStages(n)
  /\ script = "select" => /\ \A i \in DOMAIN todo : ~SetsUp(todo[i])
                          /\ Waiting("lvgl") => ~SetsUp(waiting["lvgl"])

LEMMA JoinFrame ==
  ASSUME JoinAt, UNCHANGED <<script, todo>>, waiting'["lvgl"] = waiting["lvgl"]
  PROVE  JoinAt'
<1>1. \A n : JoinStages(n)' = JoinStages(n) OBVIOUS
<1>2. script = "join" => (\E n \in Networks : <<todo, waiting["lvgl"]>> \in JoinStages(n))'
  BY <1>1 DEF JoinAt
<1> QED BY <1>2 DEF JoinAt, SetsUp, Waiting

LEMMA JoinCommands ==
  ASSUME NEW n \in Networks
  PROVE  /\ Setup(n) # None /\ Select(n) # None /\ SaveCmd # None /\ AddCmd # None
         /\ Setup(n).name = "SETUP" /\ Select(n).name = "SELECT_NETWORK"
         /\ SaveCmd.name = "SAVE_CONFIG" /\ AddCmd.name = "ADD_NETWORK"
<1>1. None \in Networks BY DEF Networks
<1>2. Setup(n) \in Commands /\ Select(n) \in Commands /\ AddCmd \in Commands
  BY <1>1 DEF Setup, Select, AddCmd, Cmd, Commands
<1>3. None \notin Commands BY CommandsAreThere
<1> QED BY <1>2, <1>3, CommandsAreThere DEF Setup, Select, AddCmd, SaveCmd, Cmd

LEMMA ThreeElements ==
  ASSUME NEW x, NEW y, NEW z
  PROVE  Head(<<x, y, z>>) = x /\ Tail(<<x, y, z>>) = <<y, z>>
  OBVIOUS

LEMMA ScreenSendsKeepsJoin == ASSUME Base, JoinAt, ScreenSends PROVE JoinAt'
<1>1. /\ todo # <<>> /\ waiting["lvgl"] = None /\ Sends("lvgl", Head(todo))
      /\ todo' = Tail(todo) /\ todo \in Seq(Commands) /\ script' = script
  BY DEF ScreenSends, Base, SInv, Types
<1>2. Head(todo) \in Commands BY <1>1
<1>3. waiting'["lvgl"] = Head(todo)
  BY <1>1, <1>2, Others DEF Sends, Base, SInv, Types
<1>4. ASSUME script = "join"
      PROVE  (\E n \in Networks : <<todo, waiting["lvgl"]>> \in JoinStages(n))'
  <2>1. PICK n \in Networks : <<todo, waiting["lvgl"]>> \in JoinStages(n)
    BY <1>4 DEF JoinAt
  <2>2. \/ todo = <<AddCmd>> \/ todo = <<Setup(n), Select(n), SaveCmd>>
        \/ todo = <<Select(n), SaveCmd>> \/ todo = <<SaveCmd>>
    BY <1>1, <2>1, JoinCommands DEF JoinStages
  <2>3. \/ Head(todo) = AddCmd /\ Tail(todo) = <<>>
        \/ Head(todo) = Setup(n) /\ Tail(todo) = <<Select(n), SaveCmd>>
        \/ Head(todo) = Select(n) /\ Tail(todo) = <<SaveCmd>>
        \/ Head(todo) = SaveCmd /\ Tail(todo) = <<>>
    <3>1. /\ Head(<<AddCmd>>) = AddCmd /\ Tail(<<AddCmd>>) = <<>>
          /\ Head(<<SaveCmd>>) = SaveCmd /\ Tail(<<SaveCmd>>) = <<>>
      BY OneElement
    <3>2. /\ Head(<<Select(n), SaveCmd>>) = Select(n)
          /\ Tail(<<Select(n), SaveCmd>>) = <<SaveCmd>>
      BY TwoElements
    <3>3. /\ Head(<<Setup(n), Select(n), SaveCmd>>) = Setup(n)
          /\ Tail(<<Setup(n), Select(n), SaveCmd>>) = <<Select(n), SaveCmd>>
      BY ThreeElements
    <3> QED BY <2>2, <3>1, <3>2, <3>3, Zenon
  <2>4. <<todo', waiting'["lvgl"]>> \in JoinStages(n)
    BY <1>1, <1>3, <2>3 DEF JoinStages
  <2> QED BY <2>4 DEF JoinStages, Setup, Select, AddCmd, SaveCmd, Cmd
<1>5. ASSUME script = "select"
      PROVE  (\A i \in DOMAIN todo : ~SetsUp(todo[i]))' /\ ~SetsUp(waiting["lvgl"])'
  <2>1. /\ 1 \in DOMAIN todo /\ Head(todo) = todo[1]
        /\ \A i \in DOMAIN Tail(todo) : i + 1 \in DOMAIN todo /\ Tail(todo)[i] = todo[i + 1]
    BY <1>1
  <2> QED BY <1>1, <1>3, <1>5, <2>1 DEF JoinAt, SetsUp
<1> QED BY <1>1, <1>4, <1>5 DEF JoinAt

(* What is awaited decides what is still to be sent.                       *)
LEMMA JoinGoesOn ==
  ASSUME Base, JoinAt, NEW reply, ScreenReceives(reply), script \in {"join", "select"}
  PROVE  /\ todo' # todo => waiting["lvgl"].name = "ADD_NETWORK" /\ script = "join"
         /\ todo' # todo => \/ todo' = <<>>
                            \/ \E n \in Networks : todo' = <<Setup(n), Select(n), SaveCmd>>
<1>1. Continues(reply) BY DEF ScreenReceives
<1>2. tapped \in Networks /\ None \in Networks BY DEF Base, SInv, Types, Networks
<1>3. CASE script = "join" /\ waiting["lvgl"].name = "ADD_NETWORK"
  BY <1>1, <1>2, <1>3 DEF Continues, Setup, Select, SaveCmd
<1>4. CASE ~(script = "join" /\ waiting["lvgl"].name = "ADD_NETWORK")
  BY <1>1, <1>4 DEF Continues
<1> QED BY <1>3, <1>4

LEMMA ScreenReceivesKeepsJoin ==
  ASSUME Base, JoinAt, NEW reply, ScreenReceives(reply) PROVE JoinAt'
<1>1. /\ Waiting("lvgl") /\ waiting'["lvgl"] = None /\ None \notin {"join", "select"}
      /\ IF todo' = <<>> THEN script' = None ELSE script' = script
  BY ScreenReceivesGoesOn, Others, WifiAssumption DEF Base, SInv, Types
<1>2. SUFFICES ASSUME todo' # <<>>, script' = script, script \in {"join", "select"}
               PROVE  JoinAt'
  BY <1>1 DEF JoinAt
<1>3. CASE script = "join"
  <2>1. PICK n \in Networks : <<todo, waiting["lvgl"]>> \in JoinStages(n)
    BY <1>3 DEF JoinAt
  <2>2. \/ \E m \in Networks : todo' = <<Setup(m), Select(m), SaveCmd>>
        \/ todo' = <<Select(n), SaveCmd>> \/ todo' = <<SaveCmd>>
    <3>1. CASE todo' # todo BY <1>2, <3>1, JoinGoesOn
    <3>2. CASE todo' = todo
      BY <1>1, <1>2, <2>1, <3>2 DEF JoinStages, Waiting
    <3> QED BY <3>1, <3>2
  <2>3. \E m \in Networks : <<todo', waiting'["lvgl"]>> \in JoinStages(m)
    BY <1>1, <2>2 DEF JoinStages
  <2>4. (\E m \in Networks : <<todo, waiting["lvgl"]>> \in JoinStages(m))'
    BY <2>3 DEF JoinStages, Setup, Select, AddCmd, SaveCmd, Cmd
  <2> QED BY <1>2, <1>3, <2>4 DEF JoinAt
<1>4. CASE script = "select"
  <2>1. todo' = todo BY <1>4, JoinGoesOn
  <2> QED BY <1>1, <1>2, <1>4, <2>1 DEF JoinAt, SetsUp, Waiting
<1> QED BY <1>2, <1>3, <1>4

LEMMA TapKeepsJoin == ASSUME Base, JoinAt, SomeTap PROVE JoinAt'
<1>1. lvLock = None /\ waiting' = waiting BY WhatATapIs
<1>2. waiting["lvgl"] = None /\ None \in Networks
  BY <1>1, WifiAssumption, Others DEF Base, ScreenAt, Waiting, Networks
<1>3. CASE UNCHANGED <<script, todo>> BY <1>1, <1>3, JoinFrame
<1>4. CASE script' = "join" /\ todo' = <<Cmd("ADD_NETWORK", None)>>
  <2>1. <<todo', waiting'["lvgl"]>> \in JoinStages(None)
    BY <1>1, <1>2, <1>4 DEF JoinStages, AddCmd
  <2> QED BY <1>2, <1>4, <2>1 DEF JoinAt, JoinStages, Setup, Select, AddCmd, SaveCmd, Cmd
<1>5. ASSUME NEW s \in Ssids, script' = "select",
             todo' = <<Cmd("SELECT_NETWORK", s), SaveCmd, Cmd("REASSOCIATE", None)>>
      PROVE  JoinAt'
  <2>1. \A i \in DOMAIN todo' : ~SetsUp(todo'[i])
    BY <1>5 DEF SetsUp, SaveCmd, Cmd
  <2> QED BY <1>1, <1>2, <1>5, <2>1 DEF JoinAt, SetsUp, Waiting
<1>6. CASE script' \in {"open", "remove"} BY <1>6 DEF JoinAt
<1> QED BY <1>3, <1>4, <1>5, <1>6, WhatATapIs

LEMMA JoinStep == ASSUME Base, JoinAt, [Next]_vars PROVE JoinAt'
<1>1. CASE ScreenThread
  BY <1>1, ScreenSendsKeepsJoin, ScreenReceivesKeepsJoin DEF ScreenThread
<1>2. CASE SomeTap BY <1>2, TapKeepsJoin
<1>3. CASE EventThread
  <2>1. UNCHANGED <<script, todo>>
    BY <1>3 DEF EventThread, TakeEvent, EventSends, EventReceives, ShowResults, ShowConnected,
                Shows, screen
  <2>2. waiting'["lvgl"] = waiting["lvgl"]
    <3>1. ASSUME NEW cmd, Sends("event", cmd) PROVE waiting'["lvgl"] = waiting["lvgl"]
      BY <3>1, Others DEF Sends, Base, SInv, Types
    <3>2. ASSUME NEW reply, Receives("event", reply) PROVE waiting'["lvgl"] = waiting["lvgl"]
      BY <3>2, Others DEF Receives, Base, SInv, Types
    <3>3. CASE TakeEvent \/ ShowResults \/ ShowConnected
      BY <3>3 DEF TakeEvent, ShowResults, ShowConnected, Shows
    <3>4. CASE EventSends BY <3>1, <3>4 DEF EventSends
    <3>5. ASSUME NEW reply, EventReceives(reply) PROVE waiting'["lvgl"] = waiting["lvgl"]
      BY <3>2, <3>5 DEF EventReceives
    <3> QED BY <1>3, <3>3, <3>4, <3>5 DEF EventThread
  <2> QED BY <2>1, <2>2, JoinFrame
<1>4. CASE Answer \/ ScanDone \/ ScanFails \/ Join \/ Outage \/ Waiters \/ UNCHANGED vars
  <2>1. UNCHANGED <<script, todo, waiting>>
    BY <1>4 DEF Answer, ScanDone, ScanFails, Join, Outage, Waiters, WaitChecks, WaitWrites,
                screen, vars
  <2> QED BY <2>1, JoinFrame
<1> QED BY <1>1, <1>2, <1>3, <1>4 DEF Next, SomeTap

(* A network that was set up and is not in the list yet will be joined,    *)
(* and the list is read when it is.                                        *)
ListSent  == \E i \in DOMAIN requests : requests[i].name = "LIST_NETWORKS"
ToSelect  == \E n \in known : /\ current # n
                              /\ \/ script = "join" /\ todo = <<Select(n), SaveCmd>>
                                 \/ \E i \in DOMAIN requests : requests[i] = Select(n)
ToJoin    == current = None /\ selected # None
NewIsSeen == Trusted /\ ~skipped /\ ~scanFailed /\ unlisted =>
               Coming \/ ListSent \/ ToSelect \/ ToJoin

LEMMA SetupIsAwaited ==
  ASSUME Base, JoinAt, Trusted, Answer, Head(requests).name = "SETUP"
  PROVE  script = "join" /\ todo = <<Select(Head(requests).net), SaveCmd>>
<1>1. /\ requests # <<>> /\ Queues /\ Head(requests) \in Commands
  BY AnswerIsTyped DEF Base
<1>2. PICK r \in Replies : r.to = Head(requests) /\ replies' = Append(replies, r)
  BY AnswerIsTyped
<1>3. Len(replies) + 1 \in 1..Flying /\ Flight(Len(replies) + 1) = Head(requests)
  BY <1>1, <1>2, AnswerIsTyped, FlightAnswer
<1>4. PICK t \in Threads : Waiting(t) /\ waiting[t] = Head(requests)
  BY <1>3 DEF Base, Paired
<1>5. t = "lvgl"
  <2>1. t # "event"
    BY <1>4 DEF Base, EventAt, ListCmd, ScanCmd, Cmd
  <2> QED BY <2>1, Others
<1>6. waiting["lvgl"].name = "SETUP" /\ Waiting("lvgl") BY <1>4, <1>5
<1>7. script = "join"
  <2>1. script # "open" BY <1>6 DEF Base, ScreenAt, ScanCmd, Cmd, Waiting
  <2>2. script # "remove"
    <3>1. ASSUME NEW s \in Ssids, <<todo, waiting["lvgl"]>> \in Stages(s) PROVE FALSE
      <4>1. waiting["lvgl"] \in {Cmd("REMOVE_NETWORK", s), SaveCmd, ScanCmd}
        BY <1>6, <3>1 DEF Stages, Waiting
      <4> QED BY <1>6, <4>1 DEF SaveCmd, ScanCmd, Cmd
    <3> QED BY <3>1 DEF Base, ScreenAt
  <2>3. script # "select" BY <1>6 DEF JoinAt, SetsUp
  <2> QED BY <1>6, <2>1, <2>2, <2>3 DEF Base, ScreenAt
<1>8. PICK n \in Networks : <<todo, waiting["lvgl"]>> \in JoinStages(n)
  BY <1>7 DEF JoinAt
<1>9. todo = <<Select(n), SaveCmd>> /\ waiting["lvgl"] = Setup(n)
  <2>1. waiting["lvgl"] \notin {None, AddCmd, Select(n), SaveCmd}
    BY <1>6, JoinCommands DEF Waiting
  <2> QED BY <1>8, <2>1 DEF JoinStages
<1>10. Head(requests).net = n BY <1>4, <1>5, <1>9 DEF Setup, Cmd
<1> QED BY <1>7, <1>9, <1>10

LEMMA AnswerKeepsNew == ASSUME Base, JoinAt, NewIsSeen, Answer PROVE NewIsSeen'
<1> SUFFICES ASSUME Trusted', ~skipped', ~scanFailed', unlisted'
             PROVE  Coming' \/ ListSent' \/ ToSelect' \/ ToJoin'
  BY DEF NewIsSeen
<1>1. UNCHANGED <<misread, late, skipped, scanFailed, at, script, todo, waiting, events>>
  BY DEF Answer, senders, eventLoop, screen
<1>2. Trusted BY <1>1 DEF Trusted
<1>3. Coming => Coming' BY <1>1, ScanGoesOn DEF Coming, Removing, ScanCmd, Cmd
<1>4. /\ requests # <<>> /\ requests' = Tail(requests) /\ requests \in Seq(Commands)
      /\ Head(requests) \in Commands
  BY AnswerIsTyped DEF Base, Queues
<1>5. None \notin known /\ known \subseteq Ssids /\ current \in known \cup {None}
  BY WifiAssumption DEF Base, Supplicant
<1>6. CASE Head(requests).name = "REMOVE_NETWORK"
  BY <1>2, <1>6, RemovedByTap DEF Coming
<1>7. Head(requests).name # "LIST_NETWORKS" BY DEF Answer
<1>8. ASSUME Head(requests).name # "REMOVE_NETWORK", unlisted
      PROVE  Coming' \/ ListSent' \/ ToSelect' \/ ToJoin'
  <2>1. known \subseteq known' /\ current' \in {current, None}
    <3>1. CASE Head(requests).name = "SETUP" BY <3>1 DEF Answer
    <3>2. CASE Head(requests).name # "SETUP" BY <1>8, <3>2 DEF Answer, supplicant
    <3> QED BY <3>1, <3>2
  <2>2. CASE Coming BY <1>3, <2>2
  <2>3. ASSUME NEW cmd, cmd # Head(requests), \E i \in DOMAIN requests : requests[i] = cmd
        PROVE  \E i \in DOMAIN requests' : requests'[i] = cmd
    <3>1. PICK i \in DOMAIN requests : requests[i] = cmd BY <2>3
    <3>2. i - 1 \in DOMAIN requests' /\ requests'[i - 1] = requests[i]
      BY <1>4, <2>3, <3>1, TailKeeps
    <3> QED BY <3>1, <3>2
  <2>4. CASE ListSent
    <3>1. PICK i \in DOMAIN requests : requests[i].name = "LIST_NETWORKS"
      BY <2>4 DEF ListSent
    <3> QED BY <1>7, <2>3, <3>1 DEF ListSent
  <2>5. CASE ToSelect
    <3>1. PICK n \in known : /\ current # n
                             /\ \/ script = "join" /\ todo = <<Select(n), SaveCmd>>
                                \/ \E i \in DOMAIN requests : requests[i] = Select(n)
      BY <2>5 DEF ToSelect
    <3>2. n \in known' /\ current' # n BY <1>5, <2>1, <3>1
    <3>3. CASE Head(requests) = Select(n)
      <4>1. Head(requests).name = "SELECT_NETWORK" /\ Head(requests).net = n
        BY <3>3 DEF Select, Cmd
      <4>2. selected' = n /\ current' = None BY <3>1, <4>1 DEF Answer
      <4> QED BY <1>5, <4>2 DEF ToJoin
    <3>4. CASE Head(requests) # Select(n)
      <4>1. \/ script' = "join" /\ todo' = <<Select(n), SaveCmd>>
            \/ \E i \in DOMAIN requests' : requests'[i] = Select(n)
        BY <1>1, <2>3, <3>1, <3>4
      <4> QED BY <3>2, <4>1 DEF ToSelect, Select, SaveCmd, Cmd
    <3> QED BY <3>3, <3>4
  <2>6. CASE ToJoin
    <3>1. current' = None BY <2>1, <2>6 DEF ToJoin
    <3>2. selected' = selected \/ selected' \in known
      <4>1. CASE Head(requests).name = "SELECT_NETWORK" BY <4>1 DEF Answer
      <4>2. CASE Head(requests).name # "SELECT_NETWORK" BY <1>8, <4>2 DEF Answer, supplicant
      <4> QED BY <4>1, <4>2
    <3> QED BY <1>5, <2>6, <3>1, <3>2 DEF ToJoin
  <2> QED BY <1>1, <1>2, <1>8, <2>2, <2>4, <2>5, <2>6 DEF NewIsSeen
<1>9. ASSUME Head(requests).name # "REMOVE_NETWORK", ~unlisted
      PROVE  ToSelect'
  <2>1. Head(requests).name = "SETUP"
    BY <1>7, <1>9, Zenon DEF Answer
  <2>2. /\ known' = known \cup ({Head(requests).net} \ {None}) /\ current' = current
        /\ Head(requests).net \notin known \cup {None}
    <3>1. unlisted' = (unlisted \/ Head(requests).net \notin known \cup {None})
      BY <2>1 DEF Answer
    <3> QED BY <1>9, <2>1, <3>1 DEF Answer
  <2>3. Head(requests).net \in known' /\ current' # Head(requests).net
    BY <1>5, <2>2
  <2>4. script' = "join" /\ todo' = <<Select(Head(requests).net), SaveCmd>>
    BY <1>1, <1>2, <2>1, SetupIsAwaited
  <2> DEFINE n == Head(requests).net
  <2>5. n \in known' /\ current' # n /\ script' = "join" /\ todo' = <<Select(n), SaveCmd>>
    BY <2>3, <2>4
  <2> HIDE DEF n
  <2> QED BY <2>5 DEF ToSelect, Select, SaveCmd, Cmd
<1> QED BY <1>6, <1>8, <1>9

LEMMA NewFrame ==
  ASSUME NewIsSeen, misread => misread', late' = late, skipped => skipped',
         scanFailed => scanFailed', unlisted' => unlisted, Coming => Coming',
         UNCHANGED <<known, current, selected>>,
         \A i \in DOMAIN requests : \E j \in DOMAIN requests' : requests'[j] = requests[i],
         \A n \in known : script = "join" /\ todo = <<Select(n), SaveCmd>> =>
           \/ script' = "join" /\ todo' = <<Select(n), SaveCmd>>
           \/ \E i \in DOMAIN requests' : requests'[i] = Select(n)
  PROVE  NewIsSeen'
<1>1. SUFFICES ASSUME Trusted', ~skipped', ~scanFailed', unlisted'
               PROVE  Coming' \/ ListSent' \/ ToSelect' \/ ToJoin'
  BY DEF NewIsSeen
<1>2. Coming \/ ListSent \/ ToSelect \/ ToJoin BY <1>1 DEF NewIsSeen, Trusted
<1>3. ListSent => ListSent' BY DEF ListSent
<1>4. ASSUME ToSelect PROVE ToSelect'
  <2>1. PICK n \in known : /\ current # n
                           /\ \/ script = "join" /\ todo = <<Select(n), SaveCmd>>
                              \/ \E i \in DOMAIN requests : requests[i] = Select(n)
    BY <1>4 DEF ToSelect
  <2>2. \/ script' = "join" /\ todo' = <<Select(n), SaveCmd>>
        \/ \E i \in DOMAIN requests' : requests'[i] = Select(n)
    BY <2>1
  <2>3. n \in known' /\ current' # n BY <2>1
  <2> QED BY <2>2, <2>3 DEF ToSelect, Select, SaveCmd, Cmd
<1>5. ToJoin => ToJoin' BY DEF ToJoin
<1> QED BY <1>2, <1>3, <1>4, <1>5

LEMMA ScreenKeepsNew ==
  ASSUME Base, JoinAt, NewIsSeen, SomeTap \/ ScreenThread PROVE NewIsSeen'
<1> SUFFICES ASSUME Trusted' PROVE NewIsSeen' BY DEF NewIsSeen
<1>1. CASE SomeTap
  <2>1. /\ lvLock = None
        /\ UNCHANGED <<known, selected, current, scanning, requests, events, waiting, at, late,
                       misread, skipped, scanFailed, unlisted>>
    BY <1>1, WhatATapIs
  <2>2. script # "join" /\ ~Removing
    BY <2>1, WifiAssumption, Others DEF Base, ScreenAt, Removing
  <2>3. Coming => Coming' BY <2>1, <2>2 DEF Coming, ScanSent
  <2> QED BY <2>1, <2>2, <2>3, NewFrame
<1>2. CASE ScreenSends
  <2>1. /\ todo # <<>> /\ waiting["lvgl"] = None /\ Sends("lvgl", Head(todo))
        /\ todo \in Seq(Commands) /\ todo' = Tail(todo)
        /\ UNCHANGED <<script, known, selected, current, scanning, events, at, skipped,
                       scanFailed, unlisted>>
    BY <1>2 DEF ScreenSends, supplicant, eventLoop, marks, Base, SInv, Types
  <2>2. Head(todo) \in Commands BY <2>1
  <2>3. /\ \A i \in DOMAIN requests : i \in DOMAIN requests' /\ requests'[i] = requests[i]
        /\ \E i \in DOMAIN requests' : requests'[i] = Head(todo)
    <3>1. requests' = Append(requests, Head(todo)) /\ requests \in Seq(Commands)
      BY <2>1 DEF Sends, Base, Queues
    <3> QED BY <2>2, <3>1, AppendKeeps
  <2>4. UNCHANGED <<late, misread>> BY <2>1 DEF Sends
  <2>5. Coming => Coming'
    <3>1. ScanSent => ScanSent' BY <2>1, <2>2, SendsKeepsScan, Others
    <3>2. waiting'["lvgl"] = Head(todo)
      BY <2>1, <2>2, Others DEF Sends, Base, SInv, Types
    <3>3. Head(todo) = ScanCmd => ScanSent'
      BY <2>1, <2>2, SendsKeepsScan, Others DEF ScanCmd, Cmd
    <3>4. Head(todo) # ScanCmd /\ script = "remove" => Removing'
      BY <2>1, <3>2 DEF Removing, ScanCmd, Cmd
    <3> QED BY <2>1, <3>1, <3>3, <3>4 DEF Coming, Removing
  <2>6. \A n : todo = <<Select(n), SaveCmd>> => Head(todo) = Select(n)
    <3>1. \A n : Head(<<Select(n), SaveCmd>>) = Select(n) BY TwoElements
    <3> QED BY <3>1
  <2> QED BY <2>1, <2>3, <2>4, <2>5, <2>6, NewFrame
<1>3. ASSUME NEW reply, ScreenReceives(reply) PROVE NewIsSeen'
  <2>1. /\ Receives("lvgl", reply) /\ UNCHANGED requests
        /\ UNCHANGED <<known, selected, current, scanning, events, at, skipped, scanFailed,
                       unlisted>>
    BY <1>3 DEF ScreenReceives, Receives, supplicant, eventLoop
  <2>2. late' = late /\ (misread => misread') BY <2>1, OwnReply, Others
  <2>3. Removing => Removing'
    <3>1. SUFFICES ASSUME Removing PROVE Removing' OBVIOUS
    <3>2. script = "remove" /\ todo' \in {<<SaveCmd>>, <<ScanCmd>>}
      BY <1>3, <3>1, ScreenReceivesGoesOn DEF Removing
    <3>3. \A x : <<x>> # <<>> OBVIOUS
    <3>4. todo' # <<>> BY <3>2, <3>3
    <3>5. script' = script BY <1>3, <3>4, ScreenReceivesGoesOn
    <3> QED BY <3>2, <3>4, <3>5 DEF Removing, ScanCmd, Cmd
  <2>4. Coming => Coming' BY <2>1, <2>3 DEF Coming, ScanSent
  <2>5. ASSUME NEW n \in known, script = "join", todo = <<Select(n), SaveCmd>>
        PROVE  script' = "join" /\ todo' = <<Select(n), SaveCmd>>
    <3>1. PICK m \in Networks : <<todo, waiting["lvgl"]>> \in JoinStages(m)
      BY <2>5 DEF JoinAt
    <3>2. Len(todo) = 2 BY <2>5
    <3>3. waiting["lvgl"] # AddCmd
      <4>1. SUFFICES ASSUME waiting["lvgl"] = AddCmd PROVE FALSE OBVIOUS
      <4>2. AddCmd \notin {None, Setup(m), Select(m), SaveCmd} BY JoinCommands
      <4>3. todo = <<>> BY <3>1, <4>1, <4>2 DEF JoinStages
      <4> QED BY <3>2, <4>3
    <3>4. waiting["lvgl"].name # "ADD_NETWORK"
      <4>1. waiting["lvgl"] \in {Setup(m), Select(m), SaveCmd}
        BY <2>1, <3>1, <3>3 DEF JoinStages, Receives
      <4> QED BY <4>1, JoinCommands
    <3>5. todo' = todo BY <1>3, <2>5, <3>4, JoinGoesOn
    <3>6. todo' # <<>> BY <3>2, <3>5
    <3> QED BY <1>3, <2>5, <3>5, <3>6, ScreenReceivesGoesOn
  <2> QED BY <2>1, <2>2, <2>4, <2>5, NewFrame
<1> QED BY <1>1, <1>2, <1>3 DEF ScreenThread

LEMMA EventKeepsNew == ASSUME Base, NewIsSeen, EventThread PROVE NewIsSeen'
<1> SUFFICES ASSUME Trusted' PROVE NewIsSeen' BY DEF NewIsSeen
<1>1. UNCHANGED <<known, selected, current, scanning, script, todo, scanFailed, unlisted>>
  BY DEF EventThread, TakeEvent, EventSends, EventReceives, ShowResults, ShowConnected, Shows,
         supplicant, screen, marks
<1>2. CASE TakeEvent
  <2>1. skipped' = TRUE \/ at' \in {"results", "list"} BY <1>2 DEF TakeEvent
  <2> QED BY <2>1 DEF NewIsSeen, Coming
<1>3. CASE EventSends
  <2>1. PICK cmd \in Commands : Sends("event", cmd) /\ (at = "list" => cmd = ListCmd)
    <3>1. None \in Networks BY DEF Networks
    <3> QED BY <1>3, <3>1, Commanded DEF EventSends, ListCmd
  <2>2. /\ \A i \in DOMAIN requests : i \in DOMAIN requests' /\ requests'[i] = requests[i]
        /\ \E i \in DOMAIN requests' : requests'[i] = cmd
    <3>1. requests' = Append(requests, cmd) /\ requests \in Seq(Commands)
      BY <2>1 DEF Sends, Base, Queues
    <3> QED BY <2>1, <3>1, AppendKeeps
  <2>3. CASE at = "list"
    BY <2>1, <2>2, <2>3 DEF NewIsSeen, ListSent, ListCmd, Cmd
  <2>4. CASE at # "list"
    <3>1. UNCHANGED <<at, events, skipped, late, misread>>
      BY <1>3, <2>1, <2>4 DEF EventSends, Sends, marks
    <3>2. waiting'["lvgl"] = waiting["lvgl"]
      BY <2>1, Others DEF Sends, Base, SInv, Types
    <3>3. ScanSent => ScanSent' BY <2>1, SendsKeepsScan, Others
    <3>4. Coming => Coming'
      BY <1>1, <3>1, <3>2, <3>3 DEF Coming, Removing, ScanCmd, Cmd
    <3> QED BY <1>1, <2>2, <3>1, <3>4, NewFrame
  <2> QED BY <2>3, <2>4
<1>4. ASSUME NEW reply, EventReceives(reply) PROVE NewIsSeen'
  <2>1. /\ Receives("event", reply) /\ UNCHANGED <<requests, events, skipped>>
        /\ at = "results" => at' = "list"
        /\ at # "list"
    BY <1>4 DEF EventReceives, Receives, marks
  <2>2. late' = late /\ (misread => misread') BY <2>1, OwnReply, Others
  <2>3. waiting'["lvgl"] = waiting["lvgl"]
    BY <2>1, Others DEF Receives, Base, SInv, Types
  <2>4. Coming => Coming'
    BY <1>1, <2>1, <2>3 DEF Coming, Removing, ScanSent, ScanCmd, Cmd
  <2> QED BY <1>1, <2>1, <2>2, <2>4, NewFrame
<1>5. CASE ShowResults \/ ShowConnected
  <2>1. /\ UNCHANGED <<requests, events, skipped, late, misread, waiting>> /\ at = "show"
    BY <1>5 DEF ShowResults, ShowConnected, Shows, sockets, senders, marks
  <2>2. Coming => Coming'
    BY <1>1, <2>1 DEF Coming, Removing, ScanSent, ScanCmd, Cmd
  <2> QED BY <1>1, <2>1, <2>2, NewFrame
<1> QED BY <1>2, <1>3, <1>4, <1>5 DEF EventThread

LEMMA NewStep == ASSUME Base, JoinAt, NewIsSeen, [Next]_vars PROVE NewIsSeen'
<1>1. CASE ScanDone \/ Join \/ Outage
  <2>1. CASE Outage BY <2>1 DEF Outage, Coming, NewIsSeen
  <2>2. CASE ScanDone \/ Join
    <3>1. PICK e \in {"results", "connected"} : events' = Append(events, e)
      BY <2>2 DEF ScanDone, Join
    <3>2. events' # <<>> BY <3>1, AppendKeeps DEF Base, EventAt
    <3> QED BY <3>2 DEF Coming, NewIsSeen
  <2> QED BY <1>1, <2>1, <2>2
<1>2. CASE ScanFails BY <1>2 DEF ScanFails, NewIsSeen
<1>3. CASE Waiters \/ UNCHANGED vars
  <2>1. UNCHANGED <<known, selected, current, scanning, requests, events, late, misread, at,
                    skipped, scanFailed, unlisted, script, todo, waiting>>
    BY <1>3 DEF Waiters, WaitChecks, WaitWrites, supplicant, sockets, senders, marks,
                screen, eventLoop, vars
  <2>2. Coming => Coming'
    BY <2>1 DEF Coming, Removing, ScanSent, ScanCmd, Cmd
  <2> QED BY <2>1, <2>2, NewFrame
<1> QED BY <1>1, <1>2, <1>3, AnswerKeepsNew, ScreenKeepsNew, EventKeepsNew DEF Next, SomeTap

(* When all is quiet nobody waits, and every late reply was read by one it *)
(* was not meant for.                                                      *)
LEMMA QuietIsSilent ==
  ASSUME Base, Quiet
  PROVE  script = None /\ todo = <<>> /\ late = 0 /\ ~Coming
<1>1. script = None BY WifiAssumption, Others DEF Base, ScreenAt, Quiet
<1>2. todo = <<>> /\ ~Waiting("lvgl") BY <1>1 DEF Base, ScreenAt
<1>3. ~Waiting("event") BY DEF Base, EventAt, Quiet
<1>4. Flying = 0 BY DEF Quiet, Flying
<1>5. late = 0 BY <1>2, <1>3, <1>4 DEF Base, Balance, Awaited, SInv, Types
<1>6. ~Removing BY <1>1, WifiAssumption DEF Removing
<1>7. ~Coming BY <1>6 DEF Coming, ScanSent, Quiet
<1> QED BY <1>1, <1>2, <1>5, <1>7

(* When all is quiet the spinner is gone, unless the event that would have *)
(* ended it was ignored while a password was entered, or no scan has ended *)
(* well since one failed.  With neither, and if replies were read by those *)
(* they were meant for, the list on the screen is wpa_supplicant's and the *)
(* current network the one it is on.  After a failure a list that was      *)
(* behind, from before a removal, stays too (wifi_panel.cpp:194-206,       *)
(* 347-376, 426, 571-592).                                                 *)
THEOREM QuietShowsTheNetworks == Spec => []QuietScreenIsRight
<1> DEFINE I == Base /\ SpinnerEnds /\ ListRead /\ ListRight /\ JoinAt /\ NewIsSeen
<1>1. Init => I
  <2>1. SUFFICES ASSUME Init PROVE I OBVIOUS
  <2>2. /\ replies = <<>> /\ ~spinner /\ ~rows /\ ~enteringPassword /\ at = "idle"
        /\ listNetworks = {} /\ script = None /\ ~unlisted /\ None \notin {"join", "select"}
    BY <2>1, WifiAssumption DEF Init
  <2>3. SpinnerEnds /\ ListRead /\ ListRight
    BY <2>2 DEF SpinnerEnds, ListRead, ListRight, Displayed
  <2>4. JoinAt /\ NewIsSeen BY <2>2 DEF JoinAt, NewIsSeen
  <2> QED BY <2>1, <2>3, <2>4, BaseInit
<1>2. I /\ [Next]_vars => I'
  BY BaseStep, SpinnerStep, ListReadStep, ListRightStep, JoinStep, NewStep
<1>3. I => QuietScreenIsRight
  <2>1. SUFFICES ASSUME I, Quiet PROVE QuietScreenIsRight
    BY DEF QuietScreenIsRight, Settled
  <2>2. script = None /\ todo = <<>> /\ late = 0 /\ ~Coming BY <2>1, QuietIsSilent
  <2>3. \A x : <<x>> # <<>> OBVIOUS
  <2>4. spinner => skipped \/ scanFailed
    BY <2>1, <2>2, <2>3 DEF SpinnerEnds, ScanSent, Quiet
  <2>5. ASSUME Settled, rows, ~misread, ~skipped, ~scanFailed
        PROVE  /\ listNetworks = known
               /\ current # None => curNetwork = current /\ current \in listNetworks
    <3>1. Trusted /\ Displayed /\ at # "listing"
      BY <2>1, <2>2, <2>5 DEF Trusted, Displayed, Quiet
    <3>2. /\ listNetworks \subseteq known
          /\ current # None => curNetwork = current /\ current \in listNetworks
      BY <2>1, <2>2, <2>5, <3>1 DEF ListRight
    <3>3. ~unlisted
      <4>1. ~ListSent BY <2>1 DEF ListSent, Quiet
      <4>2. ~ToSelect BY <2>1, <2>2, WifiAssumption DEF ToSelect, Quiet
      <4>3. ~ToJoin BY <2>5 DEF ToJoin, Settled
      <4> QED BY <2>1, <2>2, <2>5, <3>1, <4>1, <4>2, <4>3 DEF NewIsSeen
    <3>4. known \subseteq listNetworks BY <2>1, <3>1, <3>3 DEF ListRead
    <3> QED BY <3>2, <3>4
  <2> QED BY <2>4, <2>5 DEF QuietScreenIsRight
<1> QED BY <1>1, <1>2, <1>3, PTL DEF Spec

-----------------------------------------------------------------------------
(* The label *)

(* Every reply was its reader's, no event was disturbed by a tap, and no   *)
(* thread of an earlier join wrote.                                        *)
Sure == Trusted /\ ~interrupted /\ ~outrun

JoinTypes == connGen \in Nat /\ waits \subseteq Waits /\ curNetwork \in Networks

(* The label of a join is about to be written.                             *)
JoinHeard  == \E i \in DOMAIN events : events[i] = "connected"
JoinComing == JoinHeard \/ (event = "connected" /\ at \in {"list", "listing", "show"})

(* The network that is looked up is the one joined last.                   *)
Named == Sure =>
  /\ \A i \in DOMAIN replies : IsList(i) /\ current # None =>
       replies[i].cur = current \/ JoinHeard
  /\ at = "show" /\ current # None => curNetwork = current \/ JoinHeard

(* What the label says of a network, and what the thread of the last join  *)
(* will write, is true of the one in use; a password is entered without    *)
(* anyone writing over the question for it.                                *)
Connected     == {"connected", "getting"}
LabelIsTrue   == label.says \in Connected /\ current # None => label.net = current \/ JoinComing
WaiterIsRight == \A w \in waits : w.gen = connGen /\ current # None => w.net = current \/ JoinComing
SomeoneWaits  == /\ label.says = "getting" => \E w \in waits : w.gen = connGen
                 /\ \A w \in waits : w.gen <= connGen
AskedInPeace  == enteringPassword => label.says \notin Connected /\ \A w \in waits : ~w.checked
Labelled      == Sure => LabelIsTrue /\ WaiterIsRight /\ SomeoneWaits /\ AskedInPeace

LEMMA SureBefore == ASSUME Base, [Next]_vars, Sure' PROVE Sure
<1>1. ASSUME UNCHANGED <<late, misread>>, interrupted => interrupted', outrun => outrun'
      PROVE  Sure
  BY <1>1 DEF Sure, Trusted
<1>2. CASE Answer \/ ScanDone \/ ScanFails \/ Join \/ Outage \/ UNCHANGED vars
  <2>1. UNCHANGED <<late, misread, interrupted, outrun>>
    BY <1>2 DEF Answer, ScanDone, ScanFails, Join, Outage, senders, marks, vars
  <2> QED BY <1>1, <2>1
<1>3. CASE SomeTap
  <2>1. UNCHANGED <<late, misread, outrun>> BY <1>3, WhatATapIs
  <2>2. UNCHANGED interrupted \/ \E s \in Ssids : TapUnknown(s)
    BY <1>3 DEF SomeTap, Foreground, TapBack, TapReady, TapCancel, TapKnown, TapRemove
  <2>3. ASSUME NEW s \in Ssids, TapUnknown(s) PROVE interrupted => interrupted'
    BY <2>3, Zenon DEF TapUnknown
  <2> QED BY <1>1, <2>1, <2>2, <2>3
<1>4. CASE ScreenSends \/ EventSends
  <2>1. UNCHANGED <<late, misread, interrupted, outrun>>
    BY <1>4 DEF ScreenSends, EventSends, Sends, marks
  <2> QED BY <1>1, <2>1
<1>5. ASSUME NEW reply, ScreenReceives(reply) PROVE Sure
  <2>1. Receives("lvgl", reply) /\ outrun' = outrun /\ Continues(reply)
    BY <1>5 DEF ScreenReceives
  <2>2. interrupted => interrupted' BY <2>1, Zenon DEF Continues
  <2>3. Trusted BY <2>1, OwnReply, Others DEF Sure
  <2> QED BY <2>1, <2>2, <2>3 DEF Sure
<1>6. ASSUME NEW reply, EventReceives(reply) PROVE Sure
  <2>1. Receives("event", reply) /\ UNCHANGED <<interrupted, outrun>>
    BY <1>6 DEF EventReceives, marks
  <2>2. Trusted BY <2>1, OwnReply, Others DEF Sure
  <2> QED BY <2>1, <2>2 DEF Sure
<1>7. CASE TakeEvent
  <2>1. UNCHANGED <<late, misread, interrupted>> BY <1>7 DEF TakeEvent, senders
  <2>2. outrun => outrun' BY <1>7, Zenon DEF TakeEvent
  <2> QED BY <1>1, <2>1, <2>2
<1>8. CASE ShowResults \/ ShowConnected
  <2>1. UNCHANGED <<late, misread, interrupted, outrun>>
    BY <1>8 DEF ShowResults, ShowConnected, Shows, senders, marks
  <2> QED BY <1>1, <2>1
<1>9. CASE Waiters
  <2>1. UNCHANGED <<late, misread, interrupted>>
    BY <1>9 DEF Waiters, WaitChecks, WaitWrites, senders, marks
  <2>2. outrun => outrun' BY <1>9, Zenon DEF Waiters, WaitChecks, WaitWrites, marks
  <2> QED BY <1>1, <2>1, <2>2
<1> QED BY <1>2, <1>3, <1>4, <1>5, <1>6, <1>7, <1>8, <1>9
        DEF Next, ScreenThread, EventThread, SomeTap

LEMMA HeardStays ==
  /\ events' = events => JoinHeard' = JoinHeard
  /\ \A e \in {"results", "connected"} :
       events \in Seq({"results", "connected"}) /\ events' = Append(events, e) =>
         (JoinHeard => JoinHeard') /\ (e = "connected" => JoinHeard')
  /\ events \in Seq({"results", "connected"}) /\ events # <<>> /\ events' = Tail(events) =>
         (JoinHeard => JoinHeard' \/ Head(events) = "connected")
<1>1. ASSUME events' = events PROVE JoinHeard' = JoinHeard
  BY <1>1 DEF JoinHeard
<1>2. ASSUME NEW e \in {"results", "connected"}, events \in Seq({"results", "connected"}),
             events' = Append(events, e)
      PROVE  (JoinHeard => JoinHeard') /\ (e = "connected" => JoinHeard')
  <2>1. /\ \A i \in DOMAIN events : i \in DOMAIN events' /\ events'[i] = events[i]
        /\ \E i \in DOMAIN events' : events'[i] = e
    BY <1>2, AppendKeeps
  <2> QED BY <2>1 DEF JoinHeard
<1>3. ASSUME events \in Seq({"results", "connected"}), events # <<>>, events' = Tail(events),
             JoinHeard
      PROVE  JoinHeard' \/ Head(events) = "connected"
  <2>1. PICK i \in DOMAIN events : events[i] = "connected" BY <1>3 DEF JoinHeard
  <2>2. events[i] = Head(events) \/ (i - 1 \in DOMAIN events' /\ events'[i - 1] = events[i])
    BY <1>3, <2>1, TailKeeps
  <2> QED BY <2>1, <2>2 DEF JoinHeard
<1> QED BY <1>1, <1>2, <1>3

LEMMA NamedFrame ==
  ASSUME Named, Sure, current' \in {current, None}, JoinHeard => JoinHeard',
         \A i \in DOMAIN replies' : \E j \in DOMAIN replies : replies'[i] = replies[j],
         at' = "show" => at = "show" /\ curNetwork' = curNetwork
  PROVE  Named'
<1>1. ASSUME NEW i \in DOMAIN replies', replies'[i].to = ListCmd, current' # None
      PROVE  replies'[i].cur = current' \/ JoinHeard'
  <2>1. PICK j \in DOMAIN replies : replies'[i] = replies[j] OBVIOUS
  <2>2. IsList(j) BY <1>1, <2>1 DEF IsList
  <2> QED BY <1>1, <2>1, <2>2 DEF Named
<1>2. at' = "show" /\ current' # None => curNetwork' = current' \/ JoinHeard'
  BY DEF Named
<1> QED BY <1>1, <1>2 DEF Named, IsList, ListCmd, Cmd

LEMMA AnswerKeepsNamed == ASSUME Base, Named, Sure, Answer PROVE Named'
<1>1. UNCHANGED <<events, at, curNetwork>> /\ current' \in {current, None}
  BY DEF Answer, eventLoop, lists, supplicant
<1>2. JoinHeard' = JoinHeard BY <1>1, HeardStays
<1>3. PICK r \in Replies : r.to = Head(requests) /\ replies' = Append(replies, r)
  BY AnswerIsTyped
<1>4. /\ DOMAIN replies' = 1..(Len(replies) + 1) /\ replies'[Len(replies) + 1] = r
      /\ DOMAIN replies = 1..Len(replies) /\ Len(replies) \in Nat
      /\ \A i \in 1..Len(replies) : replies'[i] = replies[i]
  BY <1>3 DEF Base, Queues
<1>5. ASSUME NEW i \in DOMAIN replies', replies'[i].to = ListCmd, current' # None
      PROVE  replies'[i].cur = current' \/ JoinHeard'
  <2>1. CASE i = Len(replies) + 1
    <3>1. Head(requests).name = "LIST_NETWORKS" BY <1>3, <1>4, <1>5, <2>1 DEF ListCmd, Cmd
    <3>2. Answered(Head(requests), TRUE, known, current) /\ UNCHANGED current
      BY <3>1 DEF Answer, supplicant
    <3>3. replies'[i].cur = current
      BY <1>4, <2>1, <3>2 DEF Answered, Base, Queues
    <3> QED BY <3>2, <3>3
  <2>2. CASE i \in 1..Len(replies)
    <3>1. i \in DOMAIN replies /\ replies'[i] = replies[i] BY <1>4, <2>2
    <3>2. IsList(i) BY <1>5, <3>1 DEF IsList
    <3>3. replies[i].cur = current \/ JoinHeard
      BY <1>1, <1>5, <3>1, <3>2 DEF Named
    <3> QED BY <1>1, <1>2, <1>5, <3>1, <3>3
  <2> QED BY <1>4, <2>1, <2>2
<1>6. at' = "show" /\ current' # None => curNetwork' = current' \/ JoinHeard'
  BY <1>1, <1>2 DEF Named
<1> QED BY <1>5, <1>6 DEF Named, IsList, ListCmd, Cmd

LEMMA SupplicantKeepsNamed ==
  ASSUME Base, Named, Sure, ScanDone \/ ScanFails \/ Join \/ Outage PROVE Named'
<1>1. UNCHANGED <<replies, at, curNetwork>>
  BY DEF ScanDone, ScanFails, Join, Outage, sockets, eventLoop, lists
<1>2. CASE Join
  <2>1. JoinHeard' BY <1>2, HeardStays DEF Join, Base, EventAt
  <2> QED BY <2>1 DEF Named
<1>3. CASE ScanDone \/ ScanFails \/ Outage
  <2>1. JoinHeard => JoinHeard'
    BY <1>3, HeardStays DEF ScanDone, ScanFails, Outage, Base, EventAt
  <2>2. current' \in {current, None} BY <1>3 DEF ScanDone, ScanFails, Outage
  <2> QED BY <1>1, <2>1, <2>2, NamedFrame
<1> QED BY <1>2, <1>3

LEMMA ScreenKeepsNamed ==
  ASSUME Base, Named, Sure, Sure', SomeTap \/ ScreenThread PROVE Named'
<1>1. CASE SomeTap
  <2>1. UNCHANGED <<current, events, replies, at, curNetwork>> BY <1>1, WhatATapIs
  <2> QED BY <2>1, HeardStays, NamedFrame
<1>2. CASE ScreenSends
  <2>1. UNCHANGED <<current, events, replies, at, curNetwork>>
    BY <1>2 DEF ScreenSends, Sends, supplicant, eventLoop, lists
  <2> QED BY <2>1, HeardStays, NamedFrame
<1>3. ASSUME NEW reply, ScreenReceives(reply) PROVE Named'
  <2>1. /\ UNCHANGED <<current, events, at>> /\ Receives("lvgl", reply) /\ Continues(reply)
    BY <1>3 DEF ScreenReceives, supplicant, eventLoop
  <2>2. \A i \in DOMAIN replies' : i + 1 \in DOMAIN replies /\ replies'[i] = replies[i + 1]
    BY <2>1, OwnReply, Others DEF Sure
  <2>3. \A i \in DOMAIN replies' : \E j \in DOMAIN replies : replies'[i] = replies[j]
    BY <2>2
  <2>4. curNetwork' = curNetwork \/ interrupted' = (interrupted \/ at # "idle")
    BY <2>1, Zenon DEF Continues
  <2>5. at = "show" => curNetwork' = curNetwork BY <2>4 DEF Sure
  <2> QED BY <2>1, <2>3, <2>5, HeardStays, NamedFrame
<1> QED BY <1>1, <1>2, <1>3 DEF ScreenThread

LEMMA EventKeepsNamed ==
  ASSUME Base, Named, Sure, Sure', EventThread PROVE Named'
<1>1. current' = current
  BY DEF EventThread, TakeEvent, EventSends, ShowResults, ShowConnected, Shows, EventReceives,
         supplicant
<1>2. CASE TakeEvent
  <2>1. at = "idle" /\ at' # "show" /\ replies' = replies
    BY <1>2 DEF TakeEvent, sockets
  <2>2. ASSUME NEW i \in DOMAIN replies, replies[i].to = ListCmd PROVE FALSE
    <3>1. i \in 1..Flying /\ Flight(i) = ListCmd
      BY <2>2 DEF Flying, Flight, Base, Queues
    <3> QED BY <2>1, <3>1, OneListing DEF Sure
  <2> QED BY <2>1, <2>2 DEF Named, IsList, ListCmd, Cmd
<1>3. CASE EventSends
  <2>1. UNCHANGED <<events, replies, curNetwork>> /\ (at' = at \/ at' = "listing")
    BY <1>3 DEF EventSends, Sends, lists
  <2> QED BY <1>1, <2>1, HeardStays, NamedFrame
<1>4. CASE ShowResults \/ ShowConnected
  <2>1. UNCHANGED <<events, replies, curNetwork>> /\ at' # "show"
    BY <1>4 DEF ShowResults, ShowConnected, Shows, sockets, lists
  <2> QED BY <1>1, <2>1, HeardStays, NamedFrame
<1>5. ASSUME NEW reply, EventReceives(reply) PROVE Named'
  <2>1. Receives("event", reply) /\ events' = events
    BY <1>5 DEF EventReceives
  <2>2. /\ 1 \in DOMAIN replies /\ reply = replies[1] /\ reply.to = waiting["event"]
        /\ \A i \in DOMAIN replies' : i + 1 \in DOMAIN replies /\ replies'[i] = replies[i + 1]
    BY <2>1, OwnReply, Others DEF Sure
  <2>3. JoinHeard' = JoinHeard BY <2>1, HeardStays
  <2>4. ASSUME NEW i \in DOMAIN replies', replies'[i].to = ListCmd, current' # None
        PROVE  replies'[i].cur = current' \/ JoinHeard'
    <3>1. i + 1 \in DOMAIN replies /\ IsList(i + 1) /\ replies'[i] = replies[i + 1]
      BY <2>2, <2>4 DEF IsList
    <3> QED BY <1>1, <2>3, <2>4, <3>1 DEF Named
  <2>5. ASSUME at' = "show", current' # None PROVE curNetwork' = current' \/ JoinHeard'
    <3>1. at = "listing" /\ (reply.cur # None => curNetwork' = reply.cur)
      BY <1>5, <2>5 DEF EventReceives
    <3>2. IsList(1) BY <2>2, <3>1 DEF Base, EventAt, IsList
    <3>3. reply.cur = current \/ JoinHeard BY <1>1, <2>2, <2>5, <3>2 DEF Named
    <3> QED BY <1>1, <2>3, <2>5, <3>1, <3>3
  <2> QED BY <2>4, <2>5 DEF Named, IsList, ListCmd, Cmd
<1> QED BY <1>2, <1>3, <1>4, <1>5 DEF EventThread

LEMMA NamedStep == ASSUME Base, Named, [Next]_vars PROVE Named'
<1> SUFFICES ASSUME Sure' PROVE Named' BY DEF Named
<1>1. Sure BY SureBefore
<1>2. CASE Waiters \/ UNCHANGED vars
  <2>1. UNCHANGED <<current, events, replies, at, curNetwork>>
    BY <1>2 DEF Waiters, WaitChecks, WaitWrites, supplicant, sockets, eventLoop, lists, vars
  <2> QED BY <1>1, <2>1, HeardStays, NamedFrame
<1> QED BY <1>1, <1>2, AnswerKeepsNamed, SupplicantKeepsNamed, ScreenKeepsNamed,
           EventKeepsNamed DEF Next, SomeTap

LEMMA JoinTypesStep == ASSUME Base, JoinTypes, [Next]_vars PROVE JoinTypes'
<1>1. CASE ShowConnected
  <2>1. /\ connGen' = connGen + 1 /\ curNetwork' = curNetwork
        /\ waits' = waits \cup {[gen |-> connGen', net |-> curNetwork, checked |-> FALSE]}
    BY <1>1 DEF ShowConnected, Shows, lists
  <2>2. [gen |-> connGen', net |-> curNetwork, checked |-> FALSE] \in Waits
    BY <2>1 DEF JoinTypes, Waits
  <2>3. connGen' \in Nat /\ curNetwork' \in Networks BY <2>1 DEF JoinTypes
  <2> QED BY <2>1, <2>2, <2>3 DEF JoinTypes
<1>2. CASE Waiters
  <2>1. PICK w \in waits : WaitChecks(w) \/ WaitWrites(w) BY <1>2 DEF Waiters
  <2>2. UNCHANGED <<connGen, curNetwork>> BY <2>1 DEF WaitChecks, WaitWrites, lists
  <2>3. waits' \subseteq waits \cup {[w EXCEPT !.checked = TRUE]}
    BY <2>1 DEF WaitChecks, WaitWrites
  <2>4. [w EXCEPT !.checked = TRUE] \in Waits BY DEF JoinTypes, Waits
  <2> QED BY <2>2, <2>3, <2>4 DEF JoinTypes
<1>3. ASSUME NEW reply \in Readable, EventReceives(reply) PROVE JoinTypes'
  <2>1. UNCHANGED <<connGen, waits>> /\ curNetwork' \in {curNetwork, reply.cur}
    BY <1>3 DEF EventReceives, joins, lists
  <2>2. reply.cur \in Networks
    <3>1. CASE reply = NoReply BY <3>1 DEF NoReply, Networks
    <3>2. CASE reply # NoReply
      <4>1. PICK i \in 1..Len(replies) : reply = replies[i] BY <3>2 DEF Readable
      <4>2. replies[i] \in Replies BY DEF Base, Queues
      <4> QED BY <4>1, <4>2 DEF Replies
    <3> QED BY <3>1, <3>2
  <2> QED BY <2>1, <2>2 DEF JoinTypes
<1>4. ASSUME NEW reply, ScreenReceives(reply) PROVE JoinTypes'
  <2>1. UNCHANGED <<connGen, waits>> /\ curNetwork' \in {curNetwork, None}
    BY <1>4 DEF ScreenReceives, Continues, joins
  <2> QED BY <2>1 DEF JoinTypes, Networks
<1>5. CASE SomeTap
  <2>1. UNCHANGED <<connGen, waits, curNetwork>>
    BY <1>5 DEF SomeTap, Foreground, TapBack, TapReady, TapCancel, TapKnown, TapUnknown,
                TapRemove, joins, lists
  <2> QED BY <2>1 DEF JoinTypes
<1>6. CASE \/ Answer \/ ScanDone \/ ScanFails \/ Join \/ Outage \/ ScreenSends \/ TakeEvent \/ EventSends
           \/ ShowResults \/ UNCHANGED vars
  <2>1. UNCHANGED <<connGen, waits, curNetwork>>
    BY <1>6 DEF Answer, ScanDone, ScanFails, Join, Outage, ScreenSends, TakeEvent, EventSends, ShowResults,
                Shows, joins, lists, vars
  <2> QED BY <2>1 DEF JoinTypes
<1> QED BY <1>1, <1>2, <1>3, <1>4, <1>5, <1>6
        DEF Next, ScreenThread, EventThread, SomeTap

(* Steps that write no label of a join and leave the waiting threads alone. *)
LEMMA LabelFrame ==
  ASSUME Labelled, Sure, current' \in {current, None}, UNCHANGED <<waits, connGen>>,
         label' = label \/ label'.says \notin Connected,
         current # None => (JoinComing => JoinComing'),
         enteringPassword' => enteringPassword
  PROVE  Labelled'
<1>1. LabelIsTrue' BY DEF Labelled, LabelIsTrue, Connected
<1>2. WaiterIsRight' BY DEF Labelled, WaiterIsRight
<1>3. SomeoneWaits' BY DEF Labelled, SomeoneWaits, Connected
<1>4. AskedInPeace' BY DEF Labelled, AskedInPeace, Connected
<1> QED BY <1>1, <1>2, <1>3, <1>4 DEF Labelled

LEMMA SupplicantKeepsLabel ==
  ASSUME Base, Labelled, Sure, Answer \/ ScanDone \/ ScanFails \/ Join \/ Outage PROVE Labelled'
<1>1. UNCHANGED <<waits, connGen, label, enteringPassword, at, event>>
  BY DEF Answer, ScanDone, ScanFails, Join, Outage, joins, widgets, eventLoop
<1>2. JoinHeard => JoinHeard'
  BY HeardStays DEF Answer, ScanDone, ScanFails, Join, Outage, Base, EventAt
<1>3. JoinComing => JoinComing' BY <1>1, <1>2 DEF JoinComing
<1>4. CASE Join
  <2>1. JoinComing' BY <1>4, HeardStays DEF Join, Base, EventAt, JoinComing
  <2> QED BY <1>1, <2>1 DEF Labelled, LabelIsTrue, WaiterIsRight, SomeoneWaits, AskedInPeace, Connected
<1>5. CASE Answer \/ ScanDone \/ ScanFails \/ Outage
  <2>1. current' \in {current, None}
    BY <1>5 DEF Answer, ScanDone, ScanFails, Outage, supplicant
  <2> QED BY <1>1, <1>3, <2>1, LabelFrame
<1> QED BY <1>4, <1>5

LEMMA TapKeepsLabel ==
  ASSUME Base, Labelled, Sure, Sure', SomeTap PROVE Labelled'
<1>1. UNCHANGED <<current, events, at, event>> BY WhatATapIs
<1>2. UNCHANGED <<waits, connGen>>
  BY DEF SomeTap, Foreground, TapBack, TapReady, TapCancel, TapKnown, TapUnknown, TapRemove, joins
<1>3. JoinComing => JoinComing' BY <1>1, HeardStays DEF JoinComing
<1>4. CASE ~(\E s \in Ssids : TapUnknown(s))
  <2>1. enteringPassword' => enteringPassword
    BY <1>4 DEF SomeTap, Foreground, TapBack, TapReady, TapCancel, TapKnown, TapRemove, widgets
  <2>2. label' = label \/ \E net : Says("connecting", net) \/ Says("select", net)
    BY <1>4 DEF SomeTap, Foreground, TapBack, TapReady, TapCancel, TapKnown, TapRemove, widgets
  <2>3. label' = label \/ label'.says \notin Connected
    BY <2>2 DEF Says, Connected
  <2> QED BY <1>1, <1>2, <1>3, <2>1, <2>3, LabelFrame
<1>5. ASSUME NEW s \in Ssids, TapUnknown(s) PROVE Labelled'
  <2>1. /\ label'.says = "enter"
        /\ interrupted' = (interrupted \/ at # "idle" \/ \E w \in waits : w.checked)
    BY <1>5, Zenon DEF TapUnknown, Says
  <2>2. \A w \in waits : ~w.checked BY <2>1 DEF Sure
  <2>3. LabelIsTrue' /\ AskedInPeace'
    BY <1>2, <2>1, <2>2 DEF LabelIsTrue, AskedInPeace, Connected
  <2>4. WaiterIsRight' /\ SomeoneWaits'
    BY <1>1, <1>2, <1>3, <2>1 DEF Labelled, WaiterIsRight, SomeoneWaits
  <2> QED BY <2>3, <2>4 DEF Labelled
<1> QED BY <1>4, <1>5

LEMMA ScreenKeepsLabel ==
  ASSUME Base, Labelled, Sure, ScreenThread PROVE Labelled'
<1>1. UNCHANGED <<current, waits, connGen, enteringPassword, events, at, event>>
  BY DEF ScreenThread, ScreenSends, ScreenReceives, supplicant, joins, widgets, eventLoop
<1>2. JoinComing => JoinComing' BY <1>1, HeardStays DEF JoinComing
<1>3. label' = label \/ Says("failed", None) \/ Says("select", None)
  BY DEF ScreenThread, ScreenSends, ScreenReceives, Continues, widgets
<1>4. label' = label \/ label'.says \notin Connected BY <1>3 DEF Says, Connected
<1> QED BY <1>1, <1>2, <1>4, LabelFrame

LEMMA TakeEventKeepsLabel ==
  ASSUME Base, Labelled, Sure, Sure', TakeEvent PROVE Labelled'
<1>1. /\ UNCHANGED <<current, waits, connGen, enteringPassword, label>>
      /\ at = "idle" /\ events # <<>> /\ events' = Tail(events)
      /\ events \in Seq({"results", "connected"})
  BY DEF TakeEvent, supplicant, joins, widgets, Base, EventAt
<1>2. JoinHeard => JoinHeard' \/ Head(events) = "connected"
  BY <1>1, HeardStays
<1>3. CASE ~enteringPassword
  <2>1. Head(events) = "connected" => JoinComing'
    BY <1>3 DEF TakeEvent, JoinComing
  <2>2. JoinComing => JoinComing' BY <1>1, <1>2, <2>1 DEF JoinComing
  <2> QED BY <1>1, <2>2, LabelFrame
<1>4. CASE enteringPassword
  <2>1. outrun' = (outrun \/ (Head(events) = "connected" /\ waits # {}))
    BY <1>4, Zenon DEF TakeEvent
  <2>2. Head(events) = "connected" => waits = {} BY <2>1 DEF Sure
  <2>3. label.says \notin Connected BY <1>4 DEF Labelled, AskedInPeace
  <2>4. LabelIsTrue' BY <1>1, <2>3 DEF LabelIsTrue, Connected
  <2>5. WaiterIsRight'
    BY <1>1, <1>2, <2>2 DEF Labelled, WaiterIsRight, JoinComing
  <2>6. SomeoneWaits' /\ AskedInPeace'
    BY <1>1 DEF Labelled, SomeoneWaits, AskedInPeace, Connected
  <2> QED BY <2>4, <2>5, <2>6 DEF Labelled
<1> QED BY <1>3, <1>4

(* A join that is not found in the list has been undone since.             *)
LEMMA EventListsKeepsLabel ==
  ASSUME Base, Labelled, Named, Sure, Sure',
         EventSends \/ \E reply \in Readable : EventReceives(reply)
  PROVE  Labelled'
<1>1. UNCHANGED <<current, waits, connGen, enteringPassword, label, events, event>>
  BY DEF EventSends, EventReceives, supplicant, joins, widgets
<1>2. JoinHeard' = JoinHeard BY <1>1, HeardStays
<1>3. CASE EventSends
  <2>1. at' = at \/ (at' = "listing" /\ at = "list") BY <1>3 DEF EventSends
  <2>2. JoinComing => JoinComing' BY <1>1, <1>2, <2>1 DEF JoinComing
  <2> QED BY <1>1, <2>2, LabelFrame
<1>4. ASSUME NEW reply \in Readable, EventReceives(reply) PROVE Labelled'
  <2>1. Receives("event", reply) BY <1>4 DEF EventReceives
  <2>2. 1 \in DOMAIN replies /\ reply = replies[1] /\ reply.to = waiting["event"]
    BY <2>1, OwnReply, Others DEF Sure
  <2>3. ASSUME current # None, JoinComing PROVE JoinComing'
    <3>1. CASE at = "listing"
      <4>1. reply.cur = current \/ JoinHeard
        <5>1. IsList(1) BY <2>2, <3>1 DEF Base, EventAt, IsList
        <5> QED BY <2>2, <2>3, <5>1 DEF Named
      <4>2. reply.cur # None => at' = "show"
        BY <1>4, <3>1 DEF EventReceives
      <4> QED BY <1>1, <1>2, <2>3, <4>1, <4>2 DEF JoinComing
    <3>2. CASE at # "listing"
      <4>1. at \in {"results", "rescan"} BY <1>4, <3>2 DEF EventReceives
      <4> QED BY <1>1, <1>2, <2>3, <4>1 DEF JoinComing
    <3> QED BY <3>1, <3>2
  <2> QED BY <1>1, <2>3, LabelFrame
<1> QED BY <1>3, <1>4

LEMMA ShowKeepsLabel ==
  ASSUME Base, RowStays, JoinTypes, Labelled, Named, Sure, ShowResults \/ ShowConnected
  PROVE  Labelled'
<1>1. /\ UNCHANGED <<current, enteringPassword, events, event>> /\ at = "show"
      /\ at' \in {"idle", "rescan"}
  BY DEF ShowResults, ShowConnected, Shows, supplicant
<1>2. JoinHeard' = JoinHeard BY <1>1, HeardStays
<1>3. ~enteringPassword BY <1>1 DEF RowStays, Sure
<1>4. current # None => curNetwork = current \/ JoinHeard BY <1>1 DEF Named
<1>5. AskedInPeace' BY <1>1, <1>3 DEF AskedInPeace
<1>6. CASE ShowResults
  <2>1. event = "results" /\ UNCHANGED <<connGen, waits>>
    BY <1>6 DEF ShowResults
  <2>2. \/ label' = label
        \/ label' = [says |-> "select", net |-> None]
        \/ label' = [says |-> "connected", net |-> curNetwork]
    BY <1>6 DEF ShowResults, Says
  <2>3. (JoinComing <=> JoinHeard) /\ (JoinComing' <=> JoinHeard)
    BY <1>1, <1>2, <2>1 DEF JoinComing
  <2>4. LabelIsTrue'
    BY <1>1, <1>4, <2>2, <2>3 DEF Labelled, LabelIsTrue, Connected
  <2>5. WaiterIsRight' BY <1>1, <2>1, <2>3 DEF Labelled, WaiterIsRight
  <2>6. SomeoneWaits' BY <2>1, <2>2 DEF Labelled, SomeoneWaits
  <2> QED BY <1>5, <2>4, <2>5, <2>6 DEF Labelled
<1>7. CASE ShowConnected
  <2> DEFINE w0 == [gen |-> connGen', net |-> curNetwork, checked |-> FALSE]
  <2>1. /\ connGen' = connGen + 1 /\ waits' = waits \cup {w0}
        /\ label' = [says |-> "getting", net |-> curNetwork]
    BY <1>7 DEF ShowConnected, Says
  <2>2. w0.gen = connGen' /\ w0.net = curNetwork OBVIOUS
  <2>3. \A w \in waits : w.gen \in Nat /\ w.gen <= connGen
    BY DEF Labelled, SomeoneWaits, JoinTypes, Waits
  <2>4. \A w \in waits : w.gen # connGen' /\ w.gen <= connGen'
    BY <2>1, <2>3 DEF JoinTypes
  <2>5. JoinHeard => JoinComing' BY <1>2 DEF JoinComing
  <2> HIDE DEF w0
  <2>6. LabelIsTrue' BY <1>1, <1>4, <2>1, <2>5 DEF LabelIsTrue
  <2>7. WaiterIsRight' BY <1>1, <1>4, <2>1, <2>2, <2>4, <2>5 DEF WaiterIsRight
  <2>8. SomeoneWaits'
    <3>1. connGen' <= connGen' BY <2>1 DEF JoinTypes
    <3> QED BY <2>1, <2>2, <2>4, <3>1 DEF SomeoneWaits
  <2> QED BY <1>5, <2>6, <2>7, <2>8 DEF Labelled
<1> QED BY <1>6, <1>7

LEMMA WaitersKeepLabel ==
  ASSUME JoinTypes, Labelled, Sure, Sure', Waiters PROVE Labelled'
<1>1. UNCHANGED <<current, connGen, enteringPassword, events, at, event>>
  BY DEF Waiters, WaitChecks, WaitWrites, supplicant, eventLoop, widgets
<1>2. JoinComing' = JoinComing BY <1>1, HeardStays DEF JoinComing
<1>3. ASSUME NEW w \in waits, WaitChecks(w) PROVE Labelled'
  <2>1. /\ label' = label
        /\ waits' = (waits \ {w}) \cup
             IF connGen # w.gen \/ enteringPassword THEN {} ELSE {[w EXCEPT !.checked = TRUE]}
    BY <1>3 DEF WaitChecks, widgets
  <2>2. PICK v : /\ v.gen = w.gen /\ v.net = w.net
                 /\ waits' = (waits \ {w}) \cup
                      IF connGen # w.gen \/ enteringPassword THEN {} ELSE {v}
    <3>1. [w EXCEPT !.checked = TRUE].gen = w.gen /\ [w EXCEPT !.checked = TRUE].net = w.net
      BY DEF JoinTypes, Waits
    <3> QED BY <2>1, <3>1
  <2>3. LabelIsTrue' BY <1>1, <1>2, <2>1 DEF Labelled, LabelIsTrue, Connected
  <2>4. WaiterIsRight' BY <1>1, <1>2, <2>2 DEF Labelled, WaiterIsRight
  <2>5. AskedInPeace' BY <1>1, <2>1, <2>2 DEF Labelled, AskedInPeace, Connected
  <2>6. \A u \in waits' : u.gen <= connGen'
    BY <1>1, <2>2 DEF Labelled, SomeoneWaits
  <2>7. ASSUME label'.says = "getting" PROVE \E u \in waits' : u.gen = connGen'
    <3>1. ~enteringPassword BY <2>1, <2>7 DEF Labelled, AskedInPeace, Connected
    <3>2. PICK u \in waits : u.gen = connGen BY <2>1, <2>7 DEF Labelled, SomeoneWaits
    <3>3. CASE u = w
      <4>1. v \in waits' BY <2>2, <3>1, <3>2, <3>3
      <4> QED BY <1>1, <2>2, <3>2, <3>3, <4>1
    <3>4. CASE u # w BY <1>1, <2>2, <3>2, <3>4
    <3> QED BY <3>3, <3>4
  <2> QED BY <2>3, <2>4, <2>5, <2>6, <2>7 DEF Labelled, SomeoneWaits
<1>4. ASSUME NEW w \in waits, WaitWrites(w) PROVE Labelled'
  <2>1. /\ label' = [says |-> "connected", net |-> w.net] /\ waits' = waits \ {w}
        /\ w.checked
    BY <1>4 DEF WaitWrites, Says
  <2>2. outrun' = (outrun \/ connGen # w.gen) BY <1>4, Zenon DEF WaitWrites
  <2>3. w.gen = connGen BY <2>2 DEF Sure
  <2>4. ~enteringPassword BY <2>1 DEF Labelled, AskedInPeace
  <2>5. LabelIsTrue' BY <1>1, <1>2, <2>1, <2>3 DEF Labelled, WaiterIsRight, LabelIsTrue
  <2>6. WaiterIsRight' /\ SomeoneWaits'
    BY <1>1, <1>2, <2>1 DEF Labelled, WaiterIsRight, SomeoneWaits
  <2>7. AskedInPeace' BY <1>1, <2>4 DEF AskedInPeace
  <2> QED BY <2>5, <2>6, <2>7 DEF Labelled
<1> QED BY <1>3, <1>4 DEF Waiters

LEMMA LabelledStep ==
  ASSUME Base, RowStays, JoinTypes, Named, Labelled, [Next]_vars PROVE Labelled'
<1> SUFFICES ASSUME Sure' PROVE Labelled' BY DEF Labelled
<1>1. Sure BY SureBefore
<1>2. CASE UNCHANGED vars
  <2>1. UNCHANGED <<current, waits, connGen, enteringPassword, label, events, at, event>>
    BY <1>2 DEF vars
  <2>2. JoinComing => JoinComing' BY <2>1, HeardStays DEF JoinComing
  <2> QED BY <1>1, <2>1, <2>2, LabelFrame
<1> QED BY <1>1, <1>2, SupplicantKeepsLabel, TapKeepsLabel, ScreenKeepsLabel,
           TakeEventKeepsLabel, EventListsKeepsLabel, ShowKeepsLabel, WaitersKeepLabel
        DEF Next, SomeTap, EventThread

(* What the label says when all is quiet is true of the network in use:    *)
(* the last join wins over the threads of earlier ones, unless one of      *)
(* these had already looked, or the join was ignored because a password    *)
(* was entered; and removing any network clears cur_network, so that a     *)
(* join being handled then has no name (wifi_panel.cpp:350, 361, 441-459,  *)
(* 528-548).                                                               *)
THEOREM LabelTellsTheLastJoin == Spec => []LastJoinHasTheLastWord
<1> DEFINE I == Base /\ RowStays /\ JoinTypes /\ Named /\ Labelled
<1>1. Init => I
  <2>1. SUFFICES ASSUME Init PROVE I OBVIOUS
  <2>2. /\ replies = <<>> /\ at = "idle" /\ waits = {} /\ connGen = 0 /\ curNetwork = None
        /\ ~enteringPassword /\ label.says = "select"
    BY <2>1 DEF Init
  <2>3. RowStays /\ JoinTypes BY <2>2 DEF RowStays, JoinTypes, Networks
  <2>4. Named BY <2>2 DEF Named
  <2>5. Labelled
    BY <2>2 DEF Labelled, LabelIsTrue, WaiterIsRight, SomeoneWaits, AskedInPeace, Connected
  <2> QED BY <2>1, <2>3, <2>4, <2>5, BaseInit
<1>2. I /\ [Next]_vars => I'
  BY BaseStep, RowStep, JoinTypesStep, NamedStep, LabelledStep
<1>3. I => LastJoinHasTheLastWord
  <2>1. SUFFICES ASSUME I, Quiet, current # None, label.says \in Connected,
                        ~outrun, ~misread, ~interrupted
                 PROVE  label.net = current /\ label.says = "connected"
    BY DEF LastJoinHasTheLastWord, Settled, Connected
  <2>2. late = 0 BY <2>1, QuietIsSilent
  <2>3. Sure BY <2>1, <2>2 DEF Sure, Trusted
  <2>4. ~JoinComing BY <2>1 DEF Quiet, JoinComing, JoinHeard
  <2>5. label.net = current BY <2>1, <2>3, <2>4 DEF Labelled, LabelIsTrue
  <2>6. label.says # "getting" BY <2>1, <2>3 DEF Labelled, SomeoneWaits, Quiet
  <2> QED BY <2>1, <2>5, <2>6 DEF Connected
<1> QED BY <1>1, <1>2, <1>3, PTL DEF Spec
=============================================================================
