--------------------------- MODULE Filament_proofs ---------------------------
(***************************************************************************)
(* The safety of the two screens that feed filament, for every length and  *)
(* bound.  The extruder panel: once left it feeds nothing more; the        *)
(* buttons are locked while a script runs; the heater is dropped after the *)
(* action and a hotter one is not lowered.  The runout dialog: the feed    *)
(* and the fallback timer belong to an open dialog, and a load never asks  *)
(* for more than its length.                                               *)
(***************************************************************************)
EXTENDS ExtruderPanel, FilamentRunout, FiniteSetTheorems, SequenceTheorems,
        TLAPS

(* The extruder panel *)

(* What feeds, or may yet, is in front.  The question about the spool is   *)
(* part of it: its Yes starts a load without another look at the panel.    *)
IInv ==
  /\ dialog => front
  /\ Waiting => front
  /\ (load_active /\ ~load_stop) => front

-----------------------------------------------------------------------------

LEMMA IInvInit == Init => IInv
  BY DEF Init, IInv, Waiting

(* Steps that touch none of what IInv is about *)
LEMMA IInvFrame ==
  ASSUME IInv, UNCHANGED <<front, dialog, pending, load>>
  PROVE  IInv'
  BY DEF IInv, Waiting, pending, load

(* consume() starts a waiting action only on a panel in front. *)
LEMMA StatusTickKeeps == ASSUME IInv, StatusTick PROVE IInv'
<1>1. CASE Waiting
  <2>1. front' /\ front' = front
    BY <1>1 DEF IInv, StatusTick
  <2>2. QED BY <2>1 DEF IInv
<1>2. CASE ~Waiting
  <2>1. UNCHANGED <<front, dialog, pending, load>>
    BY <1>2 DEF StatusTick
  <2>2. QED BY <2>1, IInvFrame
<1>3. QED BY <1>1, <1>2

(* A chunk's reply asks for another only in a load that was not stopped. *)
LEMMA ChunkResponseKeeps == ASSUME IInv, ChunkResponse PROVE IInv'
<1>1. UNCHANGED <<front, dialog, pending>>
  BY DEF ChunkResponse
<1>2. (load_active' /\ ~load_stop') => (load_active /\ ~load_stop)
  BY DEF ChunkResponse, load, StopFeeding, SendLoadChunk
<1>3. QED BY <1>1, <1>2 DEF IInv, Waiting, pending

LEMMA SafetyTimerKeeps == ASSUME IInv, SafetyTimer PROVE IInv'
<1>1. UNCHANGED <<front, dialog>>
  BY DEF SafetyTimer
<1>2. Waiting' => Waiting
  BY DEF SafetyTimer, Waiting, ClearPending, pending
<1>3. (load_active' /\ ~load_stop') => (load_active /\ ~load_stop)
  BY DEF SafetyTimer, load, StopFeeding
<1>4. QED BY <1>1, <1>2, <1>3 DEF IInv

(* Taps on a panel in front *)
LEMMA TapKeeps ==
  ASSUME IInv,
         \/ Foreground \/ TapLoad \/ TapNo \/ TapCooldown
         \/ \E t \in Temps \ {0} :
              TapYes(t) \/ \E k \in Kinds \ {"none"} : TapAction(k, t)
  PROVE  IInv'
<1>1. CASE Foreground
  BY <1>1 DEF Foreground, IInv
<1>2. CASE TapLoad
  BY <1>2 DEF TapLoad, OnPanel, IInv
<1>3. CASE TapNo
  BY <1>3 DEF TapNo, IInv
<1>4. CASE TapCooldown
  BY <1>4 DEF TapCooldown, OnPanel, IInv
<1>5. ASSUME NEW t \in Temps, TapYes(t) PROVE IInv'
  <2>1. front /\ front' = front
    BY <1>5 DEF TapYes, IInv
  <2>2. QED BY <2>1 DEF IInv
<1>6. ASSUME NEW t \in Temps, NEW k \in Kinds, TapAction(k, t) PROVE IInv'
  <2>1. front /\ front' = front
    BY <1>6 DEF TapAction, OnPanel
  <2>2. QED BY <2>1 DEF IInv
<1>7. QED BY <1>1, <1>2, <1>3, <1>4, <1>5, <1>6

(* Back gives up the wait and stops the load as it leaves. *)
LEMMA TapBackKeeps == ASSUME IInv, TapBack PROVE IInv'
<1>1. ~dialog'
  BY DEF TapBack, OnPanel
<1>2. ~Waiting' /\ load_stop'
  BY DEF TapBack, ClearPending, Waiting
<1>3. QED BY <1>1, <1>2 DEF IInv

LEMMA OthersKeep ==
  ASSUME IInv,
         \/ EndsUnheard \/ ActionResponse \/ TempMoves \/ SetElsewhere
         \/ KlipperRestarts \/ Drop \/ Reconnect \/ UNCHANGED vars
  PROVE  IInv'
<1>1. UNCHANGED <<front, dialog, pending, load>>
  BY DEF EndsUnheard, ActionResponse, TempMoves, SetElsewhere,
         KlipperRestarts, Drop, Reconnect, Break, vars
<1>2. QED BY <1>1, IInvFrame

(* "don't auto-extrude after the user navigates away"                      *)
(* (extruder_panel.cpp:663), for every instance: behind a panel that was   *)
(* left no action waits for heat and no reply asks for another chunk.      *)
THEOREM NothingIsFedUnseen == Spec => []NothingFeedsUnseen
<1>1. IInv /\ [Next]_vars => IInv'
  <2>1. SUFFICES ASSUME IInv, [Next]_vars PROVE IInv'
    OBVIOUS
  <2>2. QED
    BY <2>1, StatusTickKeeps, ChunkResponseKeeps, SafetyTimerKeeps, TapKeeps,
       TapBackKeeps, OthersKeep DEF Next
<1>2. IInv => NothingFeedsUnseen
  BY DEF IInv, NothingFeedsUnseen
<1>3. QED BY <1>1, <1>2, IInvInit, PTL DEF Spec

-----------------------------------------------------------------------------
(* The queue *)

(* Script i of q, or what was before all of them, sets the target.         *)
Sets(q, i) == i = 0 \/ q[i].kind \notin {"move", "chunk"}

(* The target is what i set when the first n have run.                     *)
Decides(q, i, n) == Sets(q, i) /\ \A k \in (i + 1)..n : ~Sets(q, k)

Leaves(q, t, i) == IF i = 0 THEN t ELSE q[i].want

(* The hotend is off once q has run.                                       *)
EndsCold(q, t) ==
  \E i \in 0..Len(q) : Decides(q, i, Len(q)) /\ Leaves(q, t, i) = 0

(* No M104 in q lowers the target it finds.                                *)
HeatsRise(q, t) ==
  \A n \in 1..Len(q) : q[n].kind = "heat" =>
    \A i \in 0..(n - 1) : Decides(q, i, n - 1) => Leaves(q, t, i) <= q[n].want

NoneHeard(q) == \A i \in 1..Len(q) : ~q[i].heard

(* One script at most is waited for, by the load that is feeding or by the *)
(* action that is on.                                                      *)
LockOn(q, feeding, acting) ==
  /\ \A i, j \in 1..Len(q) : q[i].heard /\ q[j].heard => i = j
  /\ \A i \in 1..Len(q) : q[i].heard =>
       IF q[i].kind = "chunk" THEN feeding ELSE acting

LEMMA Appended ==
  ASSUME NEW q \in Seq(Scripts), NEW s \in Scripts
  PROVE  LET r == Append(q, s)
         IN  /\ r \in Seq(Scripts) /\ Len(r) = Len(q) + 1
             /\ Len(q) \in Nat
             /\ \A i \in 1..Len(q) : r[i] = q[i]
             /\ r[Len(q) + 1] = s
  BY SMT

LEMMA Tailed ==
  ASSUME NEW q \in Seq(Scripts), q # <<>>
  PROVE  /\ Tail(q) \in Seq(Scripts) /\ Head(q) = q[1] /\ q[1] \in Scripts
         /\ Len(q) \in Nat \ {0} /\ Len(Tail(q)) = Len(q) - 1
         /\ \A i \in 1..Len(Tail(q)) : Tail(q)[i] = q[i + 1]
  BY SMT

LEMMA AppendIsHeard ==
  ASSUME NEW q \in Seq(Scripts), NEW s \in Scripts,
         NEW f \in BOOLEAN, NEW a \in BOOLEAN, NoneHeard(q),
         s.heard => IF s.kind = "chunk" THEN f ELSE a
  PROVE  /\ LockOn(Append(q, s), f, a)
         /\ s.heard => ~NoneHeard(Append(q, s))
         /\ ~s.heard => NoneHeard(Append(q, s))
<1> DEFINE r == Append(q, s)
<1>1. /\ Len(r) = Len(q) + 1 /\ Len(q) \in Nat /\ r[Len(q) + 1] = s
      /\ \A i \in 1..Len(q) : r[i] = q[i]
  BY Appended
<1> HIDE DEF r
<1>2. \A i \in 1..Len(r) : r[i].heard => i = Len(q) + 1
  BY <1>1 DEF NoneHeard
<1>3. LockOn(r, f, a)
  BY <1>1, <1>2 DEF LockOn
<1>4. s.heard => ~NoneHeard(r)
  BY <1>1 DEF NoneHeard
<1>5. ~s.heard => NoneHeard(r)
  BY <1>1, <1>2 DEF NoneHeard
<1>6. QED BY <1>3, <1>4, <1>5 DEF r

LEMMA AppendUnheard ==
  ASSUME NEW q \in Seq(Scripts), NEW s \in Scripts, ~s.heard,
         NEW f \in BOOLEAN, NEW a \in BOOLEAN, LockOn(q, f, a)
  PROVE  /\ LockOn(Append(q, s), f, a)
         /\ NoneHeard(Append(q, s)) => NoneHeard(q)
<1> DEFINE r == Append(q, s)
<1>1. /\ Len(r) = Len(q) + 1 /\ Len(q) \in Nat /\ r[Len(q) + 1] = s
      /\ \A i \in 1..Len(q) : r[i] = q[i]
  BY Appended
<1> HIDE DEF r
<1>2. \A i \in 1..Len(r) : r[i].heard => i \in 1..Len(q)
  BY <1>1
<1>3. LockOn(r, f, a)
  BY <1>1, <1>2 DEF LockOn
<1>4. NoneHeard(r) => NoneHeard(q)
  BY <1>1 DEF NoneHeard
<1>5. QED BY <1>3, <1>4 DEF r

LEMMA TailIsHeard ==
  ASSUME NEW q \in Seq(Scripts), q # <<>>,
         NEW f \in BOOLEAN, NEW a \in BOOLEAN, LockOn(q, f, a)
  PROVE  /\ LockOn(Tail(q), f, a)
         /\ Head(q).heard => NoneHeard(Tail(q))
         /\ ~Head(q).heard /\ NoneHeard(Tail(q)) => NoneHeard(q)
<1> DEFINE r == Tail(q)
<1>1. /\ Head(q) = q[1] /\ Len(q) \in Nat \ {0} /\ Len(r) = Len(q) - 1
      /\ \A i \in 1..Len(r) : r[i] = q[i + 1]
  BY Tailed
<1> HIDE DEF r
<1>2. LockOn(r, f, a)
  BY <1>1 DEF LockOn
<1>3. q[1].heard => NoneHeard(r)
  BY <1>1 DEF LockOn, NoneHeard
<1>4. ~q[1].heard /\ NoneHeard(r) => NoneHeard(q)
  <2>1. SUFFICES ASSUME ~q[1].heard, NoneHeard(r), NEW i \in 1..Len(q) PROVE ~q[i].heard
    BY DEF NoneHeard
  <2>2. CASE i = 1
    BY <2>1, <2>2
  <2>3. CASE i # 1
    <3>1. i - 1 \in 1..Len(r) /\ q[i] = r[i - 1]
      BY <1>1, <2>3
    <3>2. QED BY <2>1, <3>1 DEF NoneHeard
  <2>4. QED BY <2>2, <2>3
<1>5. QED BY <1>1, <1>2, <1>3, <1>4 DEF r

LEMMA AppendCools ==
  ASSUME NEW q \in Seq(Scripts), NEW s \in Scripts, NEW t \in Temps,
         s.kind \notin {"move", "chunk"} => s.want = 0,
         s.kind \in {"move", "chunk"} => EndsCold(q, t)
  PROVE  EndsCold(Append(q, s), t)
<1> DEFINE r == Append(q, s)
<1>1. /\ Len(r) = Len(q) + 1 /\ Len(q) \in Nat /\ r[Len(q) + 1] = s
      /\ \A i \in 1..Len(q) : r[i] = q[i]
  BY Appended
<1> HIDE DEF r
<1>2. CASE s.kind \notin {"move", "chunk"}
  <2>1. /\ Len(r) \in 0..Len(r) /\ Decides(r, Len(r), Len(r))
        /\ Leaves(r, t, Len(r)) = 0
    BY <1>1, <1>2 DEF Decides, Sets, Leaves
  <2>2. EndsCold(r, t)
    BY <2>1 DEF EndsCold
  <2>3. QED BY <2>2 DEF r
<1>3. CASE s.kind \in {"move", "chunk"}
  <2>1. PICK i \in 0..Len(q) : Decides(q, i, Len(q)) /\ Leaves(q, t, i) = 0
    BY <1>3 DEF EndsCold
  <2>2. i \in 0..Len(r) /\ Leaves(r, t, i) = 0 /\ Sets(r, i)
    BY <1>1, <2>1 DEF Leaves, Decides, Sets
  <2>3. \A k \in (i + 1)..Len(r) : ~Sets(r, k)
    BY <1>1, <1>3, <2>1 DEF Decides, Sets
  <2>4. EndsCold(r, t)
    BY <2>2, <2>3 DEF EndsCold, Decides
  <2>5. QED BY <2>4 DEF r
<1>4. QED BY <1>2, <1>3

(* The target when the first script has run *)
After(q, t) == IF Head(q).kind \in {"move", "chunk"} THEN t ELSE Head(q).want

(* Who decides after the first script decided with it.                     *)
LEMMA DecidesBefore ==
  ASSUME NEW q \in Seq(Scripts), q # <<>>, NEW t,
         NEW n \in 0..Len(Tail(q)), NEW i \in 0..n, Decides(Tail(q), i, n)
  PROVE  \E j \in 0..(n + 1) :
           Decides(q, j, n + 1) /\ Leaves(q, t, j) = Leaves(Tail(q), After(q, t), i)
<1> DEFINE r == Tail(q)
           u == After(q, t)
<1>1. /\ Head(q) = q[1] /\ Len(q) \in Nat \ {0} /\ Len(r) = Len(q) - 1
      /\ \A k \in 1..Len(r) : r[k] = q[k + 1]
  BY Tailed
<1>2. Decides(r, i, n) /\ n \in 0..Len(r)
  OBVIOUS
<1>3. u = IF q[1].kind \in {"move", "chunk"} THEN t ELSE q[1].want
  BY <1>1 DEF After
<1> HIDE DEF r, u
<1>4. \A k \in (i + 2)..(n + 1) : ~Sets(q, k)
  <2>1. SUFFICES ASSUME NEW k \in (i + 2)..(n + 1) PROVE ~Sets(q, k)
    OBVIOUS
  <2>2. k - 1 \in (i + 1)..n /\ k - 1 \in 1..Len(r) /\ r[k - 1] = q[k] /\ k # 0 /\ k - 1 # 0
    BY <1>1, <1>2
  <2>3. QED BY <1>2, <2>2 DEF Decides, Sets
<1>5. CASE i # 0
  <2>1. i + 1 \in 0..(n + 1) /\ i \in 1..Len(r) /\ r[i] = q[i + 1] /\ i + 1 # 0
    BY <1>1, <1>2, <1>5
  <2>2. Sets(q, i + 1) /\ Leaves(q, t, i + 1) = Leaves(r, u, i)
    BY <1>2, <1>5, <2>1 DEF Decides, Sets, Leaves
  <2>3. Decides(q, i + 1, n + 1)
    BY <1>4, <2>2 DEF Decides
  <2>4. QED BY <2>1, <2>2, <2>3 DEF r, u
<1>6. CASE i = 0 /\ q[1].kind \notin {"move", "chunk"}
  <2>1. 1 \in 0..(n + 1) /\ Sets(q, 1) /\ Leaves(q, t, 1) = Leaves(r, u, i)
    BY <1>2, <1>3, <1>6 DEF Sets, Leaves
  <2>2. Decides(q, 1, n + 1)
    BY <1>4, <1>6, <2>1 DEF Decides
  <2>3. QED BY <2>1, <2>2 DEF r, u
<1>7. CASE i = 0 /\ q[1].kind \in {"move", "chunk"}
  <2>1. 0 \in 0..(n + 1) /\ Sets(q, 0) /\ ~Sets(q, 1) /\ Leaves(q, t, 0) = Leaves(r, u, i)
    BY <1>2, <1>3, <1>7 DEF Sets, Leaves
  <2>2. Decides(q, 0, n + 1)
    <3>1. \A k \in 1..(n + 1) : k = 1 \/ k \in (i + 2)..(n + 1)
      BY <1>2, <1>7
    <3>2. QED BY <1>4, <1>7, <2>1, <3>1 DEF Decides
  <2>3. QED BY <2>1, <2>2 DEF r, u
<1>8. QED BY <1>5, <1>6, <1>7

LEMMA TailCools ==
  ASSUME NEW q \in Seq(Scripts), q # <<>>, NEW t \in Temps, EndsCold(q, t)
  PROVE  EndsCold(Tail(q), After(q, t))
<1> DEFINE r == Tail(q)
           u == After(q, t)
<1>1. /\ Head(q) = q[1] /\ Len(q) \in Nat \ {0} /\ Len(r) = Len(q) - 1
      /\ \A k \in 1..Len(r) : r[k] = q[k + 1]
  BY Tailed
<1>2. PICK j \in 0..Len(q) : Decides(q, j, Len(q)) /\ Leaves(q, t, j) = 0
  BY DEF EndsCold
<1>3. u = IF q[1].kind \in {"move", "chunk"} THEN t ELSE q[1].want
  BY <1>1 DEF After
<1> HIDE DEF r, u
<1> DEFINE i == IF j = 0 THEN 0 ELSE j - 1
<1>4. i \in 0..Len(r) /\ \A k \in (i + 1)..Len(r) : k \in 1..Len(r) /\ k + 1 \in (j + 1)..Len(q)
  BY <1>1
<1>5. \A k \in (i + 1)..Len(r) : ~Sets(r, k)
  <2>1. SUFFICES ASSUME NEW k \in (i + 1)..Len(r) PROVE ~Sets(r, k)
    OBVIOUS
  <2>2. k \in 1..Len(r) /\ ~Sets(q, k + 1)
    BY <1>2, <1>4 DEF Decides
  <2>3. QED BY <1>1, <2>2 DEF Sets
<1>6. Sets(r, i) /\ Leaves(r, u, i) = 0
  <2>1. CASE j = 0
    <3>1. ~Sets(q, 1)
      BY <1>1, <1>2, <2>1 DEF Decides
    <3>2. QED BY <1>2, <1>3, <2>1, <3>1 DEF Sets, Leaves
  <2>2. CASE j = 1
    BY <1>2, <1>3, <2>2 DEF Decides, Sets, Leaves
  <2>3. CASE j \notin {0, 1}
    <3>1. i \in 1..Len(r) /\ r[i] = q[j] /\ i # 0 /\ j # 0
      BY <1>1, <2>3
    <3>2. QED BY <1>2, <3>1 DEF Decides, Sets, Leaves
  <2>4. QED BY <2>1, <2>2, <2>3
<1>7. EndsCold(r, u)
  BY <1>4, <1>5, <1>6 DEF EndsCold, Decides
<1>8. QED BY <1>7 DEF r, u

LEMMA TailRises ==
  ASSUME NEW q \in Seq(Scripts), q # <<>>, NEW t \in Temps, HeatsRise(q, t)
  PROVE  HeatsRise(Tail(q), After(q, t))
<1> DEFINE r == Tail(q)
           u == After(q, t)
<1>1. SUFFICES ASSUME NEW n \in 1..Len(r), r[n].kind = "heat",
                      NEW i \in 0..(n - 1), Decides(r, i, n - 1)
               PROVE  Leaves(r, u, i) <= r[n].want
  BY DEF HeatsRise
<1>2. Len(q) \in Nat \ {0} /\ Len(r) = Len(q) - 1 /\ r[n] = q[n + 1]
  BY Tailed
<1>3. n - 1 \in 0..Len(r) /\ n + 1 \in 1..Len(q) /\ (n - 1) + 1 = n /\ (n + 1) - 1 = n
  BY <1>2
<1>4. PICK j \in 0..((n - 1) + 1) :
        Decides(q, j, (n - 1) + 1) /\ Leaves(q, t, j) = Leaves(r, u, i)
  BY <1>1, <1>3, DecidesBefore
<1>5. j \in 0..n /\ Decides(q, j, n)
  BY <1>3, <1>4
<1>6. Leaves(q, t, j) <= q[n + 1].want
  BY <1>1, <1>2, <1>3, <1>5 DEF HeatsRise
<1>7. QED BY <1>2, <1>4, <1>6

(* An M104 at the end rises if what decides before it is lower.            *)
LEMMA AppendRises ==
  ASSUME NEW q \in Seq(Scripts), NEW s \in Scripts, NEW t \in Temps, HeatsRise(q, t),
         s.kind = "heat" =>
           \A i \in 0..Len(q) : Decides(q, i, Len(q)) => Leaves(q, t, i) <= s.want
  PROVE  HeatsRise(Append(q, s), t)
<1> DEFINE r == Append(q, s)
<1>1. /\ Len(r) = Len(q) + 1 /\ Len(q) \in Nat /\ r[Len(q) + 1] = s
      /\ \A i \in 1..Len(q) : r[i] = q[i]
  BY Appended
<1> HIDE DEF r
<1>2. SUFFICES ASSUME NEW n \in 1..Len(r), r[n].kind = "heat",
                      NEW i \in 0..(n - 1), Decides(r, i, n - 1)
               PROVE  Leaves(r, t, i) <= r[n].want
  BY DEF HeatsRise, r
<1>3. i \in 0..Len(q) /\ Leaves(r, t, i) = Leaves(q, t, i)
  BY <1>1, <1>2 DEF Leaves
<1>4. Decides(q, i, n - 1)
  BY <1>1, <1>2 DEF Decides, Sets
<1>5. CASE n = Len(q) + 1
  BY <1>1, <1>2, <1>3, <1>4, <1>5
<1>6. CASE n # Len(q) + 1
  <2>1. n \in 1..Len(q) /\ r[n] = q[n]
    BY <1>1, <1>6
  <2>2. QED BY <1>2, <1>3, <1>4, <2>1 DEF HeatsRise
<1>7. QED BY <1>5, <1>6

(* Coming is what decides at the end of the queue leaves.                  *)
LEMMA DecidesComing ==
  ASSUME queue \in Seq(Scripts), NEW i \in 0..Len(queue), Decides(queue, i, Len(queue))
  PROVE  Leaves(queue, target, i) = Coming
<1> DEFINE setters == {k \in DOMAIN queue : queue[k].kind \notin {"move", "chunk"}}
<1>1. DOMAIN queue = 1..Len(queue) /\ Len(queue) \in Nat
  OBVIOUS
<1>2. \A k \in setters : k <= i
  BY <1>1 DEF Decides, Sets
<1>3. CASE i = 0
  <2>1. setters = {}
    BY <1>1, <1>2, <1>3
  <2>2. QED BY <1>3, <2>1 DEF Coming, Leaves
<1>4. CASE i # 0
  <2>1. i \in setters
    BY <1>1, <1>4 DEF Decides, Sets
  <2>2. (CHOOSE k \in setters : \A j \in setters : j <= k) = i
    <3> DEFINE m == CHOOSE k \in setters : \A j \in setters : j <= k
    <3>1. m \in setters /\ \A j \in setters : j <= m
      BY <1>2, <2>1
    <3>2. m <= i /\ i <= m /\ m \in Nat
      BY <1>1, <1>2, <2>1, <3>1
    <3>3. QED BY <1>1, <3>2
  <2>3. Coming = queue[i].want
    BY <2>1, <2>2 DEF Coming
  <2>4. QED BY <1>4, <2>3 DEF Leaves
<1>5. QED BY <1>3, <1>4

-----------------------------------------------------------------------------
(* One script at a time *)

Types ==
  /\ queue \in Seq(Scripts)
  /\ target \in Temps /\ current_target \in Temps /\ breaks \in Nat
  /\ pending_kind \in Kinds
  /\ action_in_flight \in BOOLEAN /\ load_active \in BOOLEAN

(* A load, an action, a wait for heat and the question exclude each other. *)
Turns ==
  /\ ~(action_in_flight /\ load_active)
  /\ Waiting => ~action_in_flight /\ ~load_active
  /\ dialog => ~Busy

Locked ==
  ~gaveUp =>
    /\ LockOn(queue, load_active, action_in_flight)
    /\ (action_in_flight \/ load_active) /\ breaks = 0 => ~NoneHeard(queue)

LockInv == Types /\ Turns /\ Locked

LEMMA ScriptsAre ==
  /\ \A k \in {"move", "chunk", "cool", "cool_after", "drop"} :
       /\ Script(k) \in Scripts /\ Script(k).kind = k /\ Script(k).want = 0
       /\ Script(k).heard = (k # "drop")
  /\ \A w \in Temps :
       Heat(w) \in Scripts /\ Heat(w).kind = "heat" /\ Heat(w).want = w /\ ~Heat(w).heard
  BY ExtruderAssumption DEF Script, Heat, Scripts, Actions, Temps

LEMMA SendsOne ==
  ASSUME NEW q \in Seq(Scripts), NEW k \in {"move", "chunk", "cool", "cool_after", "drop"}
  PROVE  Append(q, Script(k)) \in Seq(Scripts)
  BY ScriptsAre, Appended

(* A script that is waited for is sent when none is.                       *)
LEMMA SendLocks ==
  ASSUME NEW q \in Seq(Scripts), NoneHeard(q), NEW f \in BOOLEAN, NEW a \in BOOLEAN,
         NEW k \in {"move", "chunk", "cool", "cool_after"},
         IF k = "chunk" THEN f ELSE a
  PROVE  LockOn(Append(q, Script(k)), f, a) /\ ~NoneHeard(Append(q, Script(k)))
<1> DEFINE e == Script(k)
<1>1. e \in Scripts /\ e.heard = TRUE /\ e.kind = k
  BY ScriptsAre
<1> HIDE DEF e
<1>2. LockOn(Append(q, e), f, a) /\ ~NoneHeard(Append(q, e))
  BY <1>1, AppendIsHeard
<1>3. QED BY <1>2 DEF e

LEMMA DropLocks ==
  ASSUME NEW q \in Seq(Scripts), NEW f \in BOOLEAN, NEW a \in BOOLEAN, LockOn(q, f, a)
  PROVE  /\ LockOn(Append(q, Script("drop")), f, a)
         /\ NoneHeard(Append(q, Script("drop"))) => NoneHeard(q)
<1>1. Script("drop") \in Scripts /\ ~Script("drop").heard
  BY ScriptsAre
<1>2. QED BY <1>1, AppendUnheard

(* An action of the panel raises the target, or finds it high enough, and  *)
(* then starts or waits.                                                   *)
LEMMA RunWhenHotDoes ==
  ASSUME Types, NEW k \in Kinds \ {"none"}, NEW w \in Temps, RunWhenHot(k, w)
  PROVE  \E q \in Seq(Scripts) :
           /\ \/ q = queue
              \/ \E h \in Temps : h > current_target /\ q = Append(queue, Heat(h))
           /\ \/ /\ queue' = q /\ pending_kind' = k
                 /\ UNCHANGED <<action_in_flight, load>>
              \/ /\ queue' = Append(q, Script("chunk")) /\ load_active' = TRUE /\ ~load_stop'
                 /\ UNCHANGED <<action_in_flight, pending>>
              \/ /\ queue' = Append(q, Script("move")) /\ action_in_flight' = TRUE
                 /\ UNCHANGED <<load, pending>>
<1> DEFINE want == Hotter(w, current_target)
           q == IF want > current_target THEN Append(queue, Heat(want)) ELSE queue
<1>1. want \in Temps
  BY DEF Types, Hotter
<1>2. q \in Seq(Scripts)
  BY <1>1, ScriptsAre, Appended DEF Types
<1>3. q = queue \/ \E h \in Temps : h > current_target /\ q = Append(queue, Heat(h))
  BY <1>1
<1>4. \/ Start(q, k) /\ UNCHANGED pending
      \/ queue' = q /\ pending_kind' = k /\ UNCHANGED <<action_in_flight, load>>
  BY Zenon DEF RunWhenHot
<1> HIDE DEF q
<1>5. k = "load" \/ k = "move"
  BY DEF Kinds
<1>6. \/ /\ queue' = q /\ pending_kind' = k
         /\ UNCHANGED <<action_in_flight, load>>
      \/ /\ queue' = Append(q, Script("chunk")) /\ load_active' = TRUE /\ ~load_stop'
         /\ UNCHANGED <<action_in_flight, pending>>
      \/ /\ queue' = Append(q, Script("move")) /\ action_in_flight' = TRUE
         /\ UNCHANGED <<load, pending>>
  BY <1>4, <1>5 DEF Start, BeginLoad, SendAction
<1>7. QED BY <1>2, <1>3, <1>6

LEMMA EndsAfter ==
  ASSUME Types, NEW kinds, Ends(kinds)
  PROVE  /\ queue # <<>> /\ Head(queue).kind \in kinds /\ target' = After(queue, target)
         /\ target' \in Temps /\ Tail(queue) \in Seq(Scripts)
<1>1. queue # <<>> /\ Head(queue).kind \in kinds /\ target' = After(queue, target)
  BY DEF Ends, After
<1>2. Head(queue) \in Scripts /\ Tail(queue) \in Seq(Scripts)
  BY <1>1, Tailed DEF Types
<1>3. target' \in Temps
  BY <1>1, <1>2 DEF After, Types, Scripts
<1>4. QED BY <1>1, <1>2, <1>3

(* Steps that send and end nothing *)
Rests ==
  \/ Foreground \/ TapLoad \/ TapNo \/ TempMoves \/ Reconnect \/ UNCHANGED vars

LEMMA RestsLeave ==
  ASSUME Rests
  PROVE  /\ UNCHANGED <<queue, target, current_target, pending, action_in_flight, load,
                        auto_cool_after, breaks, acted, gaveUp, left, misjudged,
                        byHand, pending_want>>
         /\ dialog' => dialog \/ ~Busy
  BY DEF Rests, Foreground, TapLoad, TapNo, TempMoves, Reconnect, Tap, OnPanel, vars,
         hotend, heard, pending, counts, history

LEMMA RestsKeep == ASSUME LockInv, Rests PROVE LockInv'
<1>1. /\ UNCHANGED <<queue, target, current_target, pending, action_in_flight, load, breaks,
                     gaveUp>>
      /\ dialog' => dialog \/ ~Busy
  BY RestsLeave
<1>2. Types' /\ Locked'
  BY <1>1 DEF LockInv, Types, Locked, pending, load
<1>3. Turns'
  BY <1>1 DEF LockInv, Turns, Waiting, Busy, pending, load
<1>4. QED BY <1>2, <1>3 DEF LockInv

LEMMA RunWhenHotKeeps ==
  ASSUME LockInv, ~Busy, NEW k \in Kinds \ {"none"}, NEW w \in Temps, RunWhenHot(k, w),
         UNCHANGED <<target, current_target, breaks, gaveUp>>, ~dialog'
  PROVE  LockInv'
<1>0. Types /\ ~action_in_flight /\ ~load_active /\ ~Waiting
  BY DEF LockInv, Busy
<1>1. PICK q \in Seq(Scripts) :
        /\ \/ q = queue
           \/ \E h \in Temps : h > current_target /\ q = Append(queue, Heat(h))
        /\ \/ /\ queue' = q /\ pending_kind' = k
              /\ UNCHANGED <<action_in_flight, load>>
           \/ /\ queue' = Append(q, Script("chunk")) /\ load_active' = TRUE /\ ~load_stop'
              /\ UNCHANGED <<action_in_flight, pending>>
           \/ /\ queue' = Append(q, Script("move")) /\ action_in_flight' = TRUE
              /\ UNCHANGED <<load, pending>>
  BY <1>0, RunWhenHotDoes
<1>2. Types'
  <2>1. queue' \in Seq(Scripts)
    BY <1>1, SendsOne
  <2>2. QED BY <1>0, <1>1, <2>1 DEF Types, load, pending
<1>3. Turns'
  BY <1>0, <1>1 DEF Turns, Waiting, Busy, load, pending
<1>4. ASSUME ~gaveUp' PROVE NoneHeard(q)
  <2>1. NoneHeard(queue)
    BY <1>0, <1>4 DEF LockInv, Locked, LockOn, NoneHeard
  <2>2. ASSUME NEW h \in Temps PROVE NoneHeard(Append(queue, Heat(h)))
    BY <1>0, <2>1, ScriptsAre, AppendIsHeard DEF Types
  <2>3. QED BY <1>1, <2>1, <2>2
<1>5. Locked'
  <2>1. SUFFICES ASSUME ~gaveUp'
                 PROVE  /\ LockOn(queue', load_active', action_in_flight')
                        /\ (action_in_flight' \/ load_active') /\ breaks' = 0
                             => ~NoneHeard(queue')
    BY DEF Locked
  <2>2. NoneHeard(q)
    BY <1>4, <2>1
  <2>3. CASE queue' = q /\ UNCHANGED <<action_in_flight, load>>
    BY <1>0, <2>2, <2>3 DEF LockOn, NoneHeard, load
  <2>4. CASE queue' = Append(q, Script("chunk")) /\ load_active' = TRUE
    BY <1>2, <2>2, <2>4, SendLocks DEF Types
  <2>5. CASE queue' = Append(q, Script("move")) /\ action_in_flight' = TRUE
    BY <1>2, <2>2, <2>5, SendLocks DEF Types
  <2>6. QED BY <1>1, <2>3, <2>4, <2>5
<1>6. QED BY <1>2, <1>3, <1>5 DEF LockInv

LEMMA TapActionsKeep ==
  ASSUME LockInv, NEW w \in Temps,
         TapYes(w) \/ \E k \in Kinds \ {"none"} : TapAction(k, w)
  PROVE  LockInv'
<1>1. CASE TapYes(w)
  <2>1. ~Busy /\ RunWhenHot("load", w) /\ ~dialog'
    BY <1>1 DEF TapYes, LockInv, Turns
  <2>2. UNCHANGED <<target, current_target, breaks, gaveUp>>
    BY <1>1 DEF TapYes, Tap, hotend, heard
  <2>3. QED BY <2>1, <2>2, RunWhenHotKeeps DEF Kinds
<1>2. ASSUME NEW k \in Kinds \ {"none"}, TapAction(k, w) PROVE LockInv'
  <2>1. ~Busy /\ RunWhenHot(k, w) /\ ~dialog'
    BY <1>2 DEF TapAction, OnPanel
  <2>2. UNCHANGED <<target, current_target, breaks, gaveUp>>
    BY <1>2 DEF TapAction, OnPanel, Tap, hotend, heard
  <2>3. QED BY <2>1, <2>2, RunWhenHotKeeps
<1>3. QED BY <1>1, <1>2

LEMMA StatusTickLocks == ASSUME LockInv, StatusTick PROVE LockInv'
<1>0. Types /\ Turns /\ target' = target /\ breaks' = breaks /\ gaveUp' = gaveUp
      /\ dialog' = dialog /\ current_target' \in Temps
  BY DEF LockInv, StatusTick, hotend, counts, history, Types
<1>1. CASE UNCHANGED <<pending, queue, action_in_flight, load>>
  BY <1>0, <1>1 DEF LockInv, Types, Turns, Locked, Waiting, Busy, pending, load
<1>2. CASE Waiting /\ ClearPending /\ Start(queue, pending_kind)
  <2>1. ~action_in_flight /\ ~load_active /\ ~dialog /\ ~Waiting'
    BY <1>0, <1>2 DEF Turns, Busy, ClearPending, Waiting
  <2>2. \/ /\ queue' = Append(queue, Script("chunk")) /\ load_active' = TRUE
           /\ UNCHANGED action_in_flight
        \/ /\ queue' = Append(queue, Script("move")) /\ action_in_flight' = TRUE
           /\ UNCHANGED load
    BY <1>0, <1>2 DEF Start, BeginLoad, SendAction, Types, Kinds, Waiting
  <2>3. Types'
    <3>1. queue' \in Seq(Scripts)
      BY <1>0, <2>2, SendsOne DEF Types
    <3>2. QED BY <1>0, <1>2, <2>2, <3>1 DEF Types, load, ClearPending, Kinds
  <2>4. Turns'
    BY <1>0, <2>1, <2>2 DEF Turns, Busy, load
  <2>5. Locked'
    <3>1. SUFFICES ASSUME ~gaveUp'
                   PROVE  /\ LockOn(queue', load_active', action_in_flight')
                          /\ (action_in_flight' \/ load_active') /\ breaks' = 0
                               => ~NoneHeard(queue')
      BY DEF Locked
    <3>2. NoneHeard(queue)
      BY <1>0, <2>1, <3>1 DEF LockInv, Locked, LockOn, NoneHeard
    <3>3. QED BY <1>0, <2>2, <2>3, <3>2, SendLocks DEF Types
  <2>6. QED BY <2>3, <2>4, <2>5 DEF LockInv
<1>3. QED BY <1>1, <1>2 DEF StatusTick

LEMMA EndsUnheardLocks == ASSUME LockInv, EndsUnheard PROVE LockInv'
<1>1. /\ queue # <<>> /\ target' \in Temps /\ Tail(queue) \in Seq(Scripts) /\ Types
  BY EndsAfter DEF EndsUnheard, LockInv
<1>2. /\ queue' = Tail(queue) /\ ~Head(queue).heard
      /\ UNCHANGED <<current_target, dialog, pending, action_in_flight, load, breaks, gaveUp>>
  BY DEF EndsUnheard, heard, counts, history
<1>3. Types' /\ Turns'
  BY <1>1, <1>2 DEF LockInv, Types, Turns, Waiting, Busy, pending, load
<1>4. Locked'
  BY <1>1, <1>2, TailIsHeard DEF LockInv, Types, Locked, load
<1>5. QED BY <1>3, <1>4 DEF LockInv

(* A script ends that is waited for: nothing is, then, unless the timer    *)
(* had given one up.                                                       *)
LEMMA ReplyIsLast ==
  ASSUME LockInv, queue # <<>>, Head(queue).heard, ~gaveUp
  PROVE  /\ NoneHeard(Tail(queue))
         /\ IF Head(queue).kind = "chunk" THEN load_active ELSE action_in_flight
<1>1. queue \in Seq(Scripts) /\ LockOn(queue, load_active, action_in_flight)
      /\ load_active \in BOOLEAN /\ action_in_flight \in BOOLEAN
  BY DEF LockInv, Types, Locked
<1>2. Head(queue) = queue[1] /\ 1 \in 1..Len(queue)
  BY <1>1, Tailed
<1>3. QED BY <1>1, <1>2, TailIsHeard DEF LockOn

LEMMA AutoCooldownDoes ==
  ASSUME NEW q, MaybeAutoCooldown(q)
  PROVE  /\ ~auto_cool_after'
         /\ \/ /\ auto_cool_after /\ action_in_flight' = TRUE
               /\ queue' = Append(q, Script("cool_after"))
            \/ ~auto_cool_after /\ action_in_flight' = FALSE /\ queue' = q
  BY DEF MaybeAutoCooldown, SendAction

LEMMA ActionResponseLocks == ASSUME LockInv, ActionResponse PROVE LockInv'
<1>1. /\ queue # <<>> /\ target' \in Temps /\ Tail(queue) \in Seq(Scripts) /\ Types
      /\ Turns /\ Head(queue).kind \in Actions /\ Head(queue).heard
  BY EndsAfter DEF ActionResponse, LockInv
<1>2. UNCHANGED <<current_target, dialog, pending, load, breaks, gaveUp>>
  BY DEF ActionResponse, heard, counts, history
<1>3. \/ /\ action_in_flight
         /\ \/ action_in_flight' = TRUE /\ queue' = Append(Tail(queue), Script("cool_after"))
            \/ action_in_flight' = FALSE /\ queue' = Tail(queue)
      \/ ~action_in_flight /\ queue' = Tail(queue) /\ UNCHANGED action_in_flight
  BY AutoCooldownDoes DEF ActionResponse
<1>4. Types'
  BY <1>1, <1>2, <1>3, SendsOne DEF Types, load, pending
<1>5. Turns'
  BY <1>1, <1>2, <1>3 DEF Turns, Waiting, Busy, load, pending
<1>6. Locked'
  <2>1. SUFFICES ASSUME ~gaveUp'
                 PROVE  /\ LockOn(queue', load_active', action_in_flight')
                        /\ (action_in_flight' \/ load_active') /\ breaks' = 0
                             => ~NoneHeard(queue')
    BY DEF Locked
  <2>2. NoneHeard(Tail(queue)) /\ action_in_flight
    BY <1>1, <1>2, <2>1, ReplyIsLast DEF Actions
  <2>3. ~load_active'
    BY <1>1, <1>2, <2>2 DEF Turns, load
  <2>4. CASE action_in_flight' = TRUE /\ queue' = Append(Tail(queue), Script("cool_after"))
    BY <1>1, <1>4, <2>2, <2>4, SendLocks DEF Types
  <2>5. CASE action_in_flight' = FALSE /\ queue' = Tail(queue)
    BY <2>2, <2>3, <2>5 DEF LockOn, NoneHeard
  <2>6. QED BY <1>3, <2>2, <2>4, <2>5
<1>7. QED BY <1>4, <1>5, <1>6 DEF LockInv

(* What a chunk's reply does with the load, after the chunk                *)
LEMMA ChunkResponseDoes ==
  ASSUME ChunkResponse
  PROVE  \/ /\ ~load_active /\ queue' = Tail(queue)
            /\ UNCHANGED <<load, action_in_flight, auto_cool_after>>
         \/ /\ load_active /\ load_stop /\ load_active' = FALSE /\ queue' = Tail(queue)
            /\ UNCHANGED <<action_in_flight, auto_cool_after>>
         \/ /\ load_active /\ load_active' = FALSE /\ ~auto_cool_after'
            /\ \/ /\ auto_cool_after /\ action_in_flight' = TRUE
                  /\ queue' = Append(Tail(queue), Script("cool_after"))
               \/ ~auto_cool_after /\ action_in_flight' = FALSE /\ queue' = Tail(queue)
         \/ /\ load_active /\ queue' = Append(Tail(queue), Script("chunk"))
            /\ UNCHANGED <<load_active, load_stop, action_in_flight, auto_cool_after>>
<1>1. CASE MaybeAutoCooldown(Tail(queue)) /\ load_active /\ StopFeeding
  BY <1>1, AutoCooldownDoes DEF StopFeeding
<1>2. CASE SendLoadChunk(Tail(queue))
  BY <1>2 DEF SendLoadChunk
<1>3. QED BY <1>1, <1>2, Zenon DEF ChunkResponse, StopFeeding

LEMMA ChunkResponseLocks == ASSUME LockInv, ChunkResponse PROVE LockInv'
<1>1. /\ queue # <<>> /\ target' \in Temps /\ Tail(queue) \in Seq(Scripts) /\ Types
      /\ Turns /\ Head(queue).kind = "chunk" /\ Head(queue).heard
  BY EndsAfter DEF ChunkResponse, LockInv
<1>2. UNCHANGED <<current_target, dialog, pending, breaks, gaveUp>>
  BY DEF ChunkResponse, heard, counts
<1>3. \/ /\ ~load_active /\ queue' = Tail(queue)
         /\ UNCHANGED <<load, action_in_flight>>
      \/ /\ load_active /\ load_active' = FALSE /\ queue' = Tail(queue)
         /\ (action_in_flight' = FALSE \/ UNCHANGED action_in_flight)
      \/ /\ load_active /\ load_active' = FALSE /\ action_in_flight' = TRUE
         /\ queue' = Append(Tail(queue), Script("cool_after"))
      \/ /\ load_active /\ queue' = Append(Tail(queue), Script("chunk"))
         /\ UNCHANGED <<load_active, action_in_flight>>
  BY ChunkResponseDoes
<1>4. Types'
  BY <1>1, <1>2, <1>3, SendsOne DEF Types, load, pending
<1>5. Turns'
  BY <1>1, <1>2, <1>3 DEF Turns, Waiting, Busy, load, pending
<1>6. Locked'
  <2>1. SUFFICES ASSUME ~gaveUp'
                 PROVE  /\ LockOn(queue', load_active', action_in_flight')
                        /\ (action_in_flight' \/ load_active') /\ breaks' = 0
                             => ~NoneHeard(queue')
    BY DEF Locked
  <2>2. NoneHeard(Tail(queue)) /\ load_active /\ ~action_in_flight
    BY <1>1, <1>2, <2>1, ReplyIsLast DEF Turns
  <2>3. CASE load_active' = FALSE /\ action_in_flight' = FALSE /\ queue' = Tail(queue)
    BY <2>2, <2>3 DEF LockOn, NoneHeard
  <2>4. CASE action_in_flight' = TRUE /\ queue' = Append(Tail(queue), Script("cool_after"))
    BY <1>1, <1>4, <2>2, <2>4, SendLocks DEF Types
  <2>5. CASE load_active' /\ queue' = Append(Tail(queue), Script("chunk"))
    BY <1>1, <1>4, <2>2, <2>5, SendLocks DEF Types
  <2>6. action_in_flight = FALSE
    BY <1>1, <2>2 DEF Types
  <2>7. QED BY <1>3, <2>2, <2>3, <2>4, <2>5, <2>6
<1>7. QED BY <1>4, <1>5, <1>6 DEF LockInv

(* The timer admits that it gave a script up.                              *)
LEMMA SafetyTimerLocks == ASSUME LockInv, SafetyTimer PROVE LockInv'
<1>1. /\ UNCHANGED <<queue, target, current_target, dialog, breaks>>
      /\ ~gaveUp' => ~gaveUp /\ NoneHeard(queue)
  <2>1. UNCHANGED <<queue, target, current_target, dialog, breaks>>
    BY DEF SafetyTimer, hotend, heard, counts
  <2>2. ~gaveUp' => ~(gaveUp \/ \E i \in DOMAIN queue : queue[i].heard)
    BY DEF SafetyTimer
  <2>3. DOMAIN queue = 1..Len(queue)
    BY DEF LockInv, Types
  <2>4. QED BY <2>1, <2>2, <2>3 DEF NoneHeard
<1>2. /\ load_active' = FALSE \/ UNCHANGED load_active
      /\ action_in_flight' = FALSE \/ UNCHANGED action_in_flight
      /\ pending_kind' = "none" \/ UNCHANGED pending_kind
  BY DEF SafetyTimer, StopFeeding, ClearPending, load, pending
<1>3. Types'
  BY <1>1, <1>2 DEF LockInv, Types, Kinds
<1>4. Turns'
  BY <1>1, <1>2 DEF LockInv, Turns, Waiting, Busy
<1>5. Locked'
  BY <1>1, <1>2 DEF LockInv, Locked, LockOn, NoneHeard
<1>6. QED BY <1>3, <1>4, <1>5 DEF LockInv

LEMMA CooldownLocks == ASSUME LockInv, TapCooldown PROVE LockInv'
<1>1. /\ UNCHANGED <<target, current_target, breaks, gaveUp, dialog>>
      /\ ~dialog /\ ~action_in_flight /\ Types /\ Turns
  BY DEF TapCooldown, OnPanel, Tap, hotend, heard, LockInv
<1>2. \/ /\ load_active /\ queue' = Append(queue, Script("drop"))
         /\ UNCHANGED <<load_active, action_in_flight, pending>>
      \/ /\ ~load_active /\ queue' = Append(queue, Script("cool"))
         /\ action_in_flight' = TRUE /\ pending_kind' = "none" /\ UNCHANGED load
  BY DEF TapCooldown, SendAction, ClearPending
<1>3. Types'
  BY <1>1, <1>2, SendsOne DEF Types, Kinds, load, pending
<1>4. Turns'
  BY <1>1, <1>2 DEF Turns, Waiting, Busy, load, pending
<1>5. Locked'
  <2>1. SUFFICES ASSUME ~gaveUp'
                 PROVE  /\ LockOn(queue', load_active', action_in_flight')
                        /\ (action_in_flight' \/ load_active') /\ breaks' = 0
                             => ~NoneHeard(queue')
    BY DEF Locked
  <2>2. LockOn(queue, load_active, action_in_flight)
        /\ (load_active /\ breaks = 0 => ~NoneHeard(queue))
    BY <1>1, <2>1 DEF LockInv, Locked
  <2>3. CASE load_active /\ queue' = Append(queue, Script("drop"))
             /\ UNCHANGED <<load_active, action_in_flight>>
    <3>1. /\ queue \in Seq(Scripts)
          /\ load_active \in BOOLEAN /\ action_in_flight \in BOOLEAN
          /\ LockOn(queue, load_active, action_in_flight)
      BY <1>1, <2>2 DEF Types
    <3>3. /\ LockOn(Append(queue, Script("drop")), load_active, action_in_flight)
          /\ NoneHeard(Append(queue, Script("drop"))) => NoneHeard(queue)
      BY <3>1, DropLocks, Zenon
    <3>4. QED BY <1>1, <2>2, <2>3, <3>3
  <2>4. CASE ~load_active /\ queue' = Append(queue, Script("cool"))
             /\ action_in_flight' = TRUE
    <3>1. NoneHeard(queue)
      BY <1>1, <2>2, <2>4 DEF LockOn, NoneHeard
    <3>2. QED BY <1>1, <1>3, <2>4, <3>1, SendLocks DEF Types
  <2>5. QED BY <1>2, <2>3, <2>4
<1>6. QED BY <1>3, <1>4, <1>5 DEF LockInv

LEMMA BackLocks == ASSUME LockInv, TapBack PROVE LockInv'
<1>1. /\ UNCHANGED <<queue, target, current_target, breaks, gaveUp, dialog, action_in_flight,
                     load_active>>
      /\ pending_kind' = "none"
  BY DEF TapBack, OnPanel, Tap, hotend, heard, ClearPending
<1>2. QED BY <1>1 DEF LockInv, Types, Turns, Locked, Waiting, Busy, Kinds

LEMMA SetLocks == ASSUME LockInv, SetElsewhere PROVE LockInv'
<1>1. /\ UNCHANGED <<queue, current_target, dialog, pending, action_in_flight, load,
                     gaveUp, breaks>>
      /\ target' \in Temps
  BY DEF SetElsewhere, heard
<1>2. QED BY <1>1 DEF LockInv, Types, Turns, Locked, Waiting, Busy, pending, load

(* Whoever breaks in is counted.                                           *)
LEMMA BreakLocks ==
  ASSUME LockInv, KlipperRestarts \/ Drop
  PROVE  LockInv'
<1>1. /\ UNCHANGED <<current_target, dialog, pending, action_in_flight, load, gaveUp>>
      /\ target' \in Temps /\ breaks' = breaks + 1 /\ Types /\ Turns
  BY ExtruderAssumption
  DEF KlipperRestarts, Drop, Break, heard, LockInv, Types, Temps
<1>2. /\ queue' \in Seq(Scripts) /\ Len(queue') = Len(queue)
      /\ \A i \in 1..Len(queue) :
           queue'[i].heard => queue[i].heard /\ (queue'[i].kind = "chunk" <=> queue[i].kind = "chunk")
  <2>0. queue \in Seq(Scripts) /\ DOMAIN queue = 1..Len(queue) /\ Len(queue) \in Nat
    BY <1>1 DEF Types
  <2>3. CASE KlipperRestarts
    <3> DEFINE f == [i \in DOMAIN queue |-> Failed(queue[i])]
    <3>1. ASSUME NEW s \in Scripts
          PROVE  /\ Failed(s) \in Scripts /\ Failed(s).heard = s.heard
                 /\ Failed(s).kind = "chunk" <=> s.kind = "chunk"
      BY DEF Failed, Scripts, Actions
    <3>2. \A i \in 1..Len(queue) : queue[i] \in Scripts /\ f[i] = Failed(queue[i])
      BY <2>0
    <3>3. queue' = f
      BY <2>3 DEF KlipperRestarts
    <3>4. f \in [1..Len(queue) -> Scripts] /\ queue' = f
      BY <2>0, <3>1, <3>2, <3>3 DEF f
    <3> HIDE DEF f
    <3>5. QED BY <2>0, <3>1, <3>2, <3>4
  <2>4. CASE Drop
    <3> DEFINE f == [i \in DOMAIN queue |-> [queue[i] EXCEPT !.heard = FALSE]]
    <3>1. ASSUME NEW s \in Scripts
          PROVE  [s EXCEPT !.heard = FALSE] \in Scripts /\ ~[s EXCEPT !.heard = FALSE].heard
      BY DEF Scripts
    <3>2. \A i \in 1..Len(queue) : f[i] \in Scripts /\ ~f[i].heard
      <4>1. SUFFICES ASSUME NEW i \in 1..Len(queue) PROVE f[i] \in Scripts /\ ~f[i].heard
        OBVIOUS
      <4>2. queue[i] \in Scripts /\ i \in DOMAIN queue
        BY <2>0
      <4>3. f[i] = [queue[i] EXCEPT !.heard = FALSE]
        BY <4>2, Zenon
      <4> HIDE DEF f
      <4>4. QED BY <3>1, <4>2, <4>3, Zenon
    <3>3. queue' = f
      BY <2>4 DEF Drop
    <3>4. f \in [1..Len(queue) -> Scripts] /\ queue' = f
      BY <2>0, <3>1, <3>2, <3>3 DEF f
    <3> HIDE DEF f
    <3>5. QED BY <2>0, <3>1, <3>2, <3>4
  <2>5. QED BY <2>3, <2>4
<1>3. Types' /\ Turns'
  BY <1>1, <1>2 DEF Types, Turns, Waiting, Busy, pending, load
<1>4. Locked'
  <2>1. breaks' # 0
    BY <1>1 DEF Types
  <2>2. QED BY <1>1, <1>2, <2>1 DEF LockInv, Locked, LockOn, load
<1>5. QED BY <1>3, <1>4 DEF LockInv

LEMMA LockInvHolds == Spec => []LockInv
<1>1. Init => LockInv
  <2>1. SUFFICES ASSUME Init PROVE LockInv
    OBVIOUS
  <2>2. queue \in Seq(Scripts) /\ Len(queue) = 0
    BY <2>1, EmptySeq DEF Init
  <2>3. Types
    <3>1. target \in Temps /\ current_target \in Temps
      BY <2>1, ExtruderAssumption DEF Init, Temps
    <3>2. QED BY <2>1, <2>2, <3>1 DEF Init, Types, Kinds
  <2>6. Turns
    BY <2>1 DEF Init, Turns, Waiting, Busy
  <2>4. Locked
    BY <2>1, <2>2 DEF Init, Locked, LockOn
  <2>5. QED BY <2>3, <2>4, <2>6 DEF LockInv
<1>2. LockInv /\ [Next]_vars => LockInv'
  <2>1. SUFFICES ASSUME LockInv, [Next]_vars PROVE LockInv'
    OBVIOUS
  <2>2. Temps \ {0} \subseteq Temps
    OBVIOUS
  <2>3. QED
    BY <2>1, <2>2, RestsKeep, TapActionsKeep, StatusTickLocks, EndsUnheardLocks,
       ActionResponseLocks, ChunkResponseLocks, SafetyTimerLocks, CooldownLocks, BackLocks,
       SetLocks, BreakLocks
    DEF Next, Rests
<1>3. QED BY <1>1, <1>2, PTL DEF Spec

(* The buttons are locked while a script of the panel runs, one script at  *)
(* a time, and until it ends, unless the timer had given one up            *)
(* (extruder_panel.cpp:391-434, 497-517).                                  *)
THEOREM ButtonsStayLocked == Spec => []LockedWhileItRuns
<1>1. LockInv => LockedWhileItRuns
  <2>1. SUFFICES ASSUME LockInv, ~gaveUp
                 PROVE  /\ Cardinality(Awaited) <= 1
                        /\ \A i \in Awaited : IF queue[i].kind = "chunk"
                                              THEN load_active ELSE action_in_flight
                        /\ (action_in_flight \/ load_active) /\ Awaited = {} => breaks > 0
    BY DEF LockedWhileItRuns
  <2>2. DOMAIN queue = 1..Len(queue) /\ breaks \in Nat
        /\ LockOn(queue, load_active, action_in_flight)
        /\ ((action_in_flight \/ load_active) /\ breaks = 0 => ~NoneHeard(queue))
    BY <2>1 DEF LockInv, Types, Locked
  <2>3. Cardinality(Awaited) <= 1
    <3>1. CASE Awaited = {}
      BY <3>1, FS_EmptySet
    <3>2. CASE Awaited # {}
      <4>1. PICK i \in Awaited : TRUE
        BY <3>2
      <4>2. Awaited = {i}
        BY <2>2, <4>1 DEF Awaited, LockOn
      <4>3. QED BY <4>2, FS_Singleton
    <3>3. QED BY <3>1, <3>2
  <2>4. \A i \in Awaited : IF queue[i].kind = "chunk" THEN load_active ELSE action_in_flight
    BY <2>2 DEF Awaited, LockOn
  <2>5. (action_in_flight \/ load_active) /\ Awaited = {} => breaks > 0
    BY <2>2 DEF Awaited, NoneHeard
  <2>6. QED BY <2>3, <2>4, <2>5
<1>2. QED BY <1>1, LockInvHolds, PTL

-----------------------------------------------------------------------------
(* The heater after the action *)

(* A load that was stopped by hand has had its drop.                       *)
Stopped == load_active /\ load_stop /\ ~left => ~auto_cool_after

(* The target that is the panel's doing                                    *)
Blamed == IF byHand THEN 0 ELSE target

LEMMA BlamedTemp == Types => Blamed \in Temps
BY ExtruderAssumption DEF Types, Blamed, Temps

LEMMA BlamedAfter ==
  ASSUME Types, NEW kinds, Ends(kinds)
  PROVE  /\ queue # <<>> /\ Head(queue).kind \in kinds /\ Blamed' = After(queue, Blamed)
         /\ Blamed' \in Temps /\ Blamed \in Temps /\ Tail(queue) \in Seq(Scripts)
<1>1. Blamed' = After(queue, Blamed)
  BY DEF Ends, After, Blamed
<1>2. Blamed \in Temps /\ Blamed' \in Temps
  BY EndsAfter, ExtruderAssumption DEF Blamed, Types, Temps
<1>3. QED BY <1>1, <1>2, EndsAfter

(* The heater will be off when the queue has run, or the panel still has   *)
(* it in mind.                                                             *)
Cools ==
  acted /\ ~left /\ ~gaveUp /\ breaks = 0 =>
    EndsCold(queue, Blamed) \/ (Busy /\ auto_cool_after)

LEMMA ScriptCools ==
  ASSUME NEW q \in Seq(Scripts), NEW t \in Temps,
         NEW k \in {"move", "chunk", "cool", "cool_after", "drop"},
         k \in {"move", "chunk"} => EndsCold(q, t)
  PROVE  EndsCold(Append(q, Script(k)), t)
<1> DEFINE e == Script(k)
<1>1. e \in Scripts /\ e.kind = k /\ e.want = 0
  BY ScriptsAre
<1> HIDE DEF e
<1>2. EndsCold(Append(q, e), t)
  BY <1>1, AppendCools
<1>3. QED BY <1>2 DEF e

LEMMA RestsCool == ASSUME Stopped, Cools, Rests PROVE Stopped' /\ Cools'
  BY RestsLeave DEF Blamed, Stopped, Cools, Busy, Waiting, load, pending

LEMMA RunWhenHotCools ==
  ASSUME LockInv, NEW k \in Kinds \ {"none"}, NEW w \in Temps, RunWhenHot(k, w)
  PROVE  Busy' /\ auto_cool_after' /\ (load_active' /\ load_stop' => load_active /\ load_stop)
<1>1. auto_cool_after' = TRUE
  BY DEF RunWhenHot
<1>2. \/ Waiting' /\ UNCHANGED load
      \/ load_active' /\ ~load_stop'
      \/ action_in_flight' /\ UNCHANGED load
  BY RunWhenHotDoes DEF LockInv, Waiting
<1>3. QED BY <1>1, <1>2 DEF Busy, load

LEMMA TapActionsCool ==
  ASSUME LockInv, Stopped, Cools, NEW w \in Temps,
         TapYes(w) \/ \E k \in Kinds \ {"none"} : TapAction(k, w)
  PROVE  Stopped' /\ Cools'
<1>1. ~Busy /\ \E k \in Kinds \ {"none"} : RunWhenHot(k, w)
  BY DEF TapYes, TapAction, OnPanel, LockInv, Turns, Kinds
<1>2. Busy' /\ auto_cool_after' /\ ~(load_active' /\ load_stop')
  BY <1>1, RunWhenHotCools DEF Busy
<1>3. QED BY <1>2 DEF Stopped, Cools

LEMMA StatusTickCools ==
  ASSUME LockInv, Stopped, Cools, StatusTick
  PROVE  Stopped' /\ Cools'
<1>0. UNCHANGED <<Blamed, auto_cool_after, breaks, acted, left, gaveUp>>
  BY DEF StatusTick, hotend, counts, history, Blamed
<1>1. CASE UNCHANGED <<pending, queue, action_in_flight, load>>
  BY <1>0, <1>1 DEF Stopped, Cools, Busy, Waiting, pending, load
<1>2. CASE Waiting /\ Start(queue, pending_kind)
  <2>1. Busy /\ ~load_active /\ Types
    BY <1>2 DEF Busy, LockInv, Turns
  <2>2. \/ /\ queue' = Append(queue, Script("chunk")) /\ load_active' /\ ~load_stop'
        \/ /\ queue' = Append(queue, Script("move")) /\ action_in_flight'
           /\ UNCHANGED load
    BY <1>2, <2>1 DEF Start, BeginLoad, SendAction, Types, Kinds, Waiting
  <2>3. Busy' /\ ~(load_active' /\ load_stop')
    BY <2>1, <2>2 DEF Busy, load
  <2>4. EndsCold(queue, Blamed) => EndsCold(queue', Blamed')
    <3>1. queue \in Seq(Scripts) /\ Blamed \in Temps
      BY <2>1, BlamedTemp DEF Types
    <3>2. \E k \in {"chunk", "move"} : queue' = Append(queue, Script(k))
      BY <2>2
    <3>3. QED BY <1>0, <3>1, <3>2, ScriptCools
  <2>5. QED BY <1>0, <2>3, <2>4 DEF Stopped, Cools
<1>3. QED BY <1>1, <1>2 DEF StatusTick

LEMMA EndsUnheardCools ==
  ASSUME LockInv, Stopped, Cools, EndsUnheard
  PROVE  Stopped' /\ Cools'
<1>1. /\ queue # <<>> /\ Blamed' = After(queue, Blamed) /\ queue' = Tail(queue)
      /\ queue \in Seq(Scripts) /\ Blamed \in Temps
  BY BlamedAfter DEF EndsUnheard, LockInv, Types
<1>2. UNCHANGED <<pending, action_in_flight, auto_cool_after, load, breaks, acted, left,
                  gaveUp>>
  BY DEF EndsUnheard, counts, history
<1>3. EndsCold(queue, Blamed) => EndsCold(queue', Blamed')
  BY <1>1, TailCools
<1>4. QED BY <1>2, <1>3 DEF Stopped, Cools, Busy, Waiting, pending, load

LEMMA ActionResponseCools ==
  ASSUME LockInv, Stopped, Cools, ActionResponse
  PROVE  Stopped' /\ Cools'
<1>1. /\ queue # <<>> /\ Blamed' = After(queue, Blamed) /\ Blamed' \in Temps
      /\ queue \in Seq(Scripts) /\ Blamed \in Temps /\ Tail(queue) \in Seq(Scripts)
      /\ Head(queue).heard /\ Head(queue).kind \in Actions
  BY BlamedAfter DEF ActionResponse, LockInv, Types
<1>2. UNCHANGED <<pending, load, breaks, acted, left, gaveUp>>
  BY DEF ActionResponse, counts, history
<1>3. \/ /\ action_in_flight /\ ~auto_cool_after'
         /\ \/ auto_cool_after /\ queue' = Append(Tail(queue), Script("cool_after"))
            \/ ~auto_cool_after /\ queue' = Tail(queue)
      \/ /\ ~action_in_flight /\ queue' = Tail(queue)
         /\ UNCHANGED <<action_in_flight, auto_cool_after>>
  BY AutoCooldownDoes DEF ActionResponse
<1>4. Stopped'
  BY <1>2, <1>3 DEF Stopped, load
<1>5. Cools'
  <2>1. SUFFICES ASSUME acted, ~left, ~gaveUp, breaks = 0 PROVE EndsCold(queue', Blamed')
    BY <1>2 DEF Cools
  <2>2. action_in_flight
    BY <1>1, <2>1, ReplyIsLast DEF Actions
  <2>3. CASE auto_cool_after /\ queue' = Append(Tail(queue), Script("cool_after"))
    BY <1>1, <2>3, ScriptCools
  <2>4. CASE ~auto_cool_after /\ queue' = Tail(queue)
    <3>1. EndsCold(queue, Blamed)
      BY <2>1, <2>4 DEF Cools
    <3>2. QED BY <1>1, <2>4, <3>1, TailCools
  <2>5. QED BY <1>3, <2>2, <2>3, <2>4
<1>6. QED BY <1>4, <1>5

LEMMA ChunkResponseCools ==
  ASSUME LockInv, Stopped, Cools, ChunkResponse
  PROVE  Stopped' /\ Cools'
<1>1. /\ queue # <<>> /\ Blamed' = After(queue, Blamed) /\ Blamed' \in Temps
      /\ queue \in Seq(Scripts) /\ Blamed \in Temps /\ Tail(queue) \in Seq(Scripts)
      /\ Head(queue).heard /\ Head(queue).kind = "chunk"
  BY BlamedAfter DEF ChunkResponse, LockInv, Types
<1>2. UNCHANGED <<pending, breaks, acted, left, gaveUp>>
  BY DEF ChunkResponse, counts
<1>3. Stopped'
  BY <1>2, ChunkResponseDoes DEF Stopped, load
<1>4. Cools'
  <2>1. SUFFICES ASSUME acted, ~left, ~gaveUp, breaks = 0
                 PROVE  EndsCold(queue', Blamed') \/ (Busy' /\ auto_cool_after')
    BY <1>2 DEF Cools
  <2>2. load_active
    BY <1>1, <2>1, ReplyIsLast
  <2>3. EndsCold(queue, Blamed) => EndsCold(Tail(queue), Blamed')
    BY <1>1, TailCools
  <2>4. ~auto_cool_after => EndsCold(Tail(queue), Blamed')
    BY <2>1, <2>3 DEF Cools
  <2>5. CASE load_stop /\ queue' = Tail(queue)
    BY <2>1, <2>2, <2>4, <2>5 DEF Stopped
  <2>6. CASE auto_cool_after /\ queue' = Append(Tail(queue), Script("cool_after"))
    BY <1>1, <2>6, ScriptCools
  <2>7. CASE ~auto_cool_after /\ queue' = Tail(queue)
    BY <2>4, <2>7
  <2>8. CASE /\ queue' = Append(Tail(queue), Script("chunk"))
             /\ UNCHANGED <<load_active, auto_cool_after>>
    <3>1. Busy'
      BY <2>2, <2>8 DEF Busy
    <3>2. EndsCold(Tail(queue), Blamed') => EndsCold(queue', Blamed')
      BY <1>1, <2>8, ScriptCools
    <3>3. QED BY <2>4, <2>8, <3>1, <3>2
  <2>9. QED BY <2>2, <2>5, <2>6, <2>7, <2>8, ChunkResponseDoes
<1>5. QED BY <1>3, <1>4

LEMMA SafetyTimerCools ==
  ASSUME LockInv, Stopped, Cools, SafetyTimer
  PROVE  Stopped' /\ Cools'
<1>1. /\ UNCHANGED <<queue, Blamed, breaks, acted, auto_cool_after>>
      /\ ~left' => ~left /\ ~load_active /\ ~Waiting
      /\ ~gaveUp' => ~gaveUp /\ NoneHeard(queue)
  <2>1. UNCHANGED <<queue, Blamed, breaks, acted, auto_cool_after>>
    BY DEF SafetyTimer, hotend, counts, Blamed
  <2>2. /\ ~left' => ~(left \/ load_active \/ Waiting)
        /\ ~gaveUp' => ~(gaveUp \/ \E i \in DOMAIN queue : queue[i].heard)
    BY DEF SafetyTimer
  <2>3. DOMAIN queue = 1..Len(queue)
    BY DEF LockInv, Types
  <2>4. QED BY <2>1, <2>2, <2>3 DEF NoneHeard
<1>2. load_active' => load_active
  BY DEF SafetyTimer, StopFeeding, load
<1>3. Stopped'
  BY <1>1, <1>2 DEF Stopped
<1>4. Cools'
  <2>1. SUFFICES ASSUME acted, ~left', ~gaveUp', breaks = 0 PROVE EndsCold(queue, Blamed)
    BY <1>1 DEF Cools
  <2>2. ~action_in_flight
    BY <1>1, <2>1 DEF LockInv, Locked
  <2>3. QED BY <1>1, <2>1, <2>2 DEF Cools, Busy
<1>5. QED BY <1>3, <1>4

LEMMA CooldownCools ==
  ASSUME LockInv, Stopped, Cools, TapCooldown
  PROVE  Stopped' /\ Cools'
<1>1. UNCHANGED Blamed /\ auto_cool_after' = FALSE
  BY DEF TapCooldown, OnPanel, Tap, hotend, Blamed
<1>2. \E k \in {"drop", "cool"} : queue' = Append(queue, Script(k))
  BY DEF TapCooldown, SendAction
<1>3. queue \in Seq(Scripts) /\ Blamed \in Temps
  BY BlamedTemp DEF LockInv, Types
<1>4. EndsCold(queue', Blamed')
  BY <1>1, <1>2, <1>3, ScriptCools
<1>5. QED BY <1>1, <1>4 DEF Stopped, Cools

LEMMA BackCools ==
  ASSUME LockInv, Stopped, Cools, TapBack
  PROVE  Stopped' /\ Cools'
<1>1. /\ UNCHANGED <<queue, Blamed, breaks, gaveUp, acted, action_in_flight, load_active,
                     auto_cool_after>>
      /\ ~left' => ~left /\ ~Waiting /\ ~load_active
  <2>1. UNCHANGED <<queue, Blamed, breaks, gaveUp, acted, action_in_flight, load_active,
                    auto_cool_after>>
    BY DEF TapBack, OnPanel, Tap, hotend, Blamed
  <2>2. ~left' => ~(left \/ Waiting \/ load_active)
    BY DEF TapBack
  <2>3. QED BY <2>1, <2>2
<1>2. QED BY <1>1 DEF Stopped, Cools, Busy

(* Whoever sets the target by hand takes it off the panel.                 *)
LEMMA SetCools == ASSUME LockInv, Stopped, Cools, SetElsewhere PROVE Stopped' /\ Cools'
<1>1. /\ UNCHANGED <<queue, pending, action_in_flight, auto_cool_after, load, breaks,
                     acted, left, gaveUp>>
      /\ Blamed' = 0
  BY DEF SetElsewhere, Blamed
<1>2. EndsCold(queue, Blamed) => EndsCold(queue, 0)
  BY DEF EndsCold, Leaves
<1>3. QED BY <1>1, <1>2 DEF Stopped, Cools, Busy, Waiting, pending, load

LEMMA BreakCools ==
  ASSUME LockInv, Stopped, Cools, KlipperRestarts \/ Drop
  PROVE  Stopped' /\ Cools'
<1>1. UNCHANGED <<load, auto_cool_after, left>> /\ breaks' = breaks + 1 /\ breaks \in Nat
  BY DEF KlipperRestarts, Drop, Break, LockInv, Types
<1>2. QED BY <1>1 DEF Stopped, Cools, load

(* "once it finishes we drop the heater back to 0 instead of leaving it    *)
(* hot (and oozing)" (extruder_panel.h:98-100): a hotend that is on with   *)
(* nothing left to happen was left on by Back, by the timer or by a reply  *)
(* that was lost, or has been set by somebody else since.                  *)
THEOREM HeaterIsDropped == Spec => []OnlyLeavingLeavesHot
<1>1. Init => Stopped /\ Cools
  BY DEF Init, Stopped, Cools
<1>2. LockInv /\ Stopped /\ Cools /\ [Next]_vars => Stopped' /\ Cools'
  <2>1. SUFFICES ASSUME LockInv, Stopped, Cools, [Next]_vars PROVE Stopped' /\ Cools'
    OBVIOUS
  <2>2. QED
    BY <2>1, RestsCool, TapActionsCool, StatusTickCools, EndsUnheardCools,
       ActionResponseCools, ChunkResponseCools, SafetyTimerCools, CooldownCools, BackCools,
       SetCools, BreakCools
    DEF Next, Rests
<1>3. LockInv /\ Stopped /\ Cools => OnlyLeavingLeavesHot
  <2>1. SUFFICES ASSUME LockInv, Cools, acted, queue = <<>>, ~Busy, target > 0,
                        ~left, ~gaveUp, ~(breaks > 0), ~byHand
                 PROVE  FALSE
    BY DEF OnlyLeavingLeavesHot
  <2>2. breaks = 0 /\ Len(queue) = 0 /\ target \in Nat
    BY <2>1, ExtruderAssumption DEF LockInv, Types, Temps
  <2>3. EndsCold(queue, Blamed)
    BY <2>1, <2>2 DEF Cools
  <2>4. QED BY <2>1, <2>2, <2>3 DEF EndsCold, Leaves, Blamed
<1>4. QED BY <1>1, <1>2, <1>3, LockInvHolds, PTL DEF Spec

-----------------------------------------------------------------------------
(* The temperature somebody set *)

(* Unless the panel was mistaken about the target, its M104s raise it.     *)
Rises == ~misjudged => HeatsRise(queue, target)

(* Once q has run, the target is h at least.                               *)
Reaches(q, t, h) ==
  \A i \in 0..Len(q) : Decides(q, i, Len(q)) => h <= Leaves(q, t, i)

(* What is waited for is on its way.                                       *)
Waits == Waiting /\ ~misjudged => Reaches(queue, target, pending_want)

LEMMA ScriptRises ==
  ASSUME NEW q \in Seq(Scripts), NEW t \in Temps, HeatsRise(q, t),
         NEW k \in {"move", "chunk", "cool", "cool_after", "drop"}
  PROVE  HeatsRise(Append(q, Script(k)), t)
<1> DEFINE e == Script(k)
<1>1. e \in Scripts /\ e.kind # "heat"
  BY ScriptsAre
<1> HIDE DEF e
<1>2. HeatsRise(Append(q, e), t)
  BY <1>1, AppendRises
<1>3. QED BY <1>2 DEF e

(* An M104 for more than the target to come                                *)
LEMMA HeatRises ==
  ASSUME Types, NEW h \in Temps, h > current_target,
         current_target = Coming, HeatsRise(queue, target)
  PROVE  HeatsRise(Append(queue, Heat(h)), target)
<1> DEFINE e == Heat(h)
<1>1. e \in Scripts /\ e.want = h
  BY ScriptsAre
<1> HIDE DEF e
<1>2. ASSUME NEW i \in 0..Len(queue), Decides(queue, i, Len(queue))
      PROVE  Leaves(queue, target, i) <= e.want
  <2>1. Leaves(queue, target, i) = current_target
    BY <1>2, DecidesComing DEF Types
  <2>2. current_target \in Nat /\ h \in Nat
    BY ExtruderAssumption DEF Types, Temps
  <2>3. QED BY <1>1, <2>1, <2>2
<1>3. queue \in Seq(Scripts) /\ target \in Temps
  BY DEF Types
<1>4. HeatsRise(Append(queue, e), target)
  BY <1>1, <1>2, <1>3, AppendRises
<1>5. QED BY <1>4 DEF e

LEMMA RunWhenHotRises ==
  ASSUME Types, Rises, NEW k \in Kinds \ {"none"}, NEW w \in Temps, RunWhenHot(k, w),
         UNCHANGED target
  PROVE  Rises'
<1>1. SUFFICES ASSUME ~misjudged' PROVE HeatsRise(queue', target)
  BY DEF Rises
<1>2. /\ current_target = Coming
      /\ ~misjudged \/ \A i \in DOMAIN queue : queue[i].kind # "heat"
  <2>1. ~(\/ current_target # Coming
          \/ misjudged /\ \E i \in DOMAIN queue : queue[i].kind = "heat")
    BY <1>1, Zenon DEF RunWhenHot
  <2>2. QED BY <2>1
<1>3. HeatsRise(queue, target)
  <2>1. DOMAIN queue = 1..Len(queue)
    BY DEF Types
  <2>2. QED BY <1>1, <1>2, <2>1 DEF Rises, HeatsRise
<1>4. PICK q \in Seq(Scripts) :
        /\ \/ q = queue
           \/ \E h \in Temps : h > current_target /\ q = Append(queue, Heat(h))
        /\ \/ queue' = q
           \/ queue' = Append(q, Script("chunk"))
           \/ queue' = Append(q, Script("move"))
  BY RunWhenHotDoes
<1>5. HeatsRise(q, target)
  BY <1>2, <1>3, <1>4, HeatRises
<1>6. QED BY <1>4, <1>5, ScriptRises DEF Types

LEMMA PopRises ==
  ASSUME Types, Rises, NEW kinds, Ends(kinds), misjudged' = misjudged,
         \/ queue' = Tail(queue)
         \/ \E k \in {"cool_after", "chunk"} : queue' = Append(Tail(queue), Script(k))
  PROVE  Rises'
<1>1. SUFFICES ASSUME ~misjudged PROVE HeatsRise(queue', target')
  BY DEF Rises
<1>2. /\ queue # <<>> /\ target' = After(queue, target) /\ target' \in Temps
      /\ queue \in Seq(Scripts) /\ target \in Temps /\ Tail(queue) \in Seq(Scripts)
  BY EndsAfter DEF Types
<1>3. HeatsRise(Tail(queue), target')
  BY <1>1, <1>2, TailRises DEF Rises
<1>4. QED BY <1>2, <1>3, ScriptRises

LEMMA TailReaches ==
  ASSUME NEW q \in Seq(Scripts), q # <<>>, NEW t \in Temps, NEW h, Reaches(q, t, h)
  PROVE  Reaches(Tail(q), After(q, t), h)
<1> DEFINE m == Len(Tail(q))
<1>1. m \in 0..m /\ m + 1 = Len(q)
  BY Tailed
<1>2. SUFFICES ASSUME NEW i \in 0..m, Decides(Tail(q), i, m)
               PROVE  h <= Leaves(Tail(q), After(q, t), i)
  BY DEF Reaches
<1>3. PICK j \in 0..(m + 1) :
        Decides(q, j, m + 1) /\ Leaves(q, t, j) = Leaves(Tail(q), After(q, t), i)
  BY <1>1, <1>2, DecidesBefore
<1>4. QED BY <1>1, <1>3 DEF Reaches

LEMMA HeatReaches ==
  ASSUME NEW q \in Seq(Scripts), NEW t \in Temps, NEW h \in Temps
  PROVE  Reaches(Append(q, Heat(h)), t, h)
<1> DEFINE e == Heat(h)
           r == Append(q, e)
<1>1. e \in Scripts /\ e.kind = "heat" /\ e.want = h /\ h \in Nat
  BY ScriptsAre, ExtruderAssumption DEF Temps
<1> HIDE DEF e
<1>2. Len(r) = Len(q) + 1 /\ Len(q) \in Nat /\ r[Len(q) + 1] = e
  BY <1>1, Appended
<1> HIDE DEF r
<1>3. ASSUME NEW i \in 0..Len(r), Decides(r, i, Len(r)) PROVE h <= Leaves(r, t, i)
  <2>1. Sets(r, Len(r)) /\ Len(r) # 0 BY <1>1, <1>2 DEF Sets
  <2>2. i = Len(r) BY <1>2, <1>3, <2>1 DEF Decides
  <2>3. QED BY <1>1, <1>2, <2>1, <2>2 DEF Leaves
<1>4. Reaches(r, t, h) BY <1>3 DEF Reaches
<1>5. QED BY <1>4 DEF r, e

LEMMA RunWhenHotWaits ==
  ASSUME Types, ~Waiting, NEW k \in Kinds \ {"none"}, NEW w \in Temps, RunWhenHot(k, w),
         UNCHANGED target
  PROVE  Waits'
<1> DEFINE want == Hotter(w, current_target)
           q == IF want > current_target THEN Append(queue, Heat(want)) ELSE queue
<1>1. SUFFICES ASSUME Waiting', ~misjudged' PROVE Reaches(queue', target, pending_want')
  BY DEF Waits
<1>2. \/ UNCHANGED pending
      \/ pending_want' = want /\ queue' = q
  BY Zenon DEF RunWhenHot
<1>3. pending_want' = want /\ queue' = q
  BY <1>1, <1>2 DEF pending, Waiting
<1>4. current_target = Coming
  <2>1. ~(\/ current_target # Coming
          \/ misjudged /\ \E i \in DOMAIN queue : queue[i].kind = "heat")
    BY <1>1, Zenon DEF RunWhenHot
  <2>2. QED BY <2>1
<1>5. want \in Temps /\ want \in Nat /\ current_target \in Nat
  BY ExtruderAssumption DEF Types, Hotter, Temps
<1>6. CASE want > current_target
  BY <1>3, <1>5, <1>6, HeatReaches DEF Types
<1>7. CASE ~(want > current_target)
  <2>1. queue' = queue /\ want <= Coming
    BY <1>3, <1>4, <1>5, <1>7
  <2>2. QED BY <1>3, <2>1, DecidesComing DEF Reaches, Types
<1>8. QED BY <1>6, <1>7

LEMMA PopWaits ==
  ASSUME Types, Waits, NEW kinds, Ends(kinds), UNCHANGED <<pending, misjudged>>,
         Waiting => queue' = Tail(queue)
  PROVE  Waits'
<1>1. SUFFICES ASSUME Waiting, ~misjudged PROVE Reaches(queue', target', pending_want)
  BY DEF Waits, Waiting, pending
<1>2. /\ queue # <<>> /\ target' = After(queue, target)
      /\ queue \in Seq(Scripts) /\ target \in Temps
  BY EndsAfter DEF Types
<1>3. QED BY <1>1, <1>2, TailReaches DEF Waits

(* A lost connection changes neither what the scripts are nor the order.   *)
LEMMA DropRises == ASSUME Types, Rises, Waits, Drop PROVE Rises' /\ Waits'
<1>1. UNCHANGED <<target, pending, misjudged>>
  BY DEF Drop, Break
<1>2. queue \in Seq(Scripts) /\ DOMAIN queue = 1..Len(queue) /\ Len(queue) \in Nat
  BY DEF Types
<1>3. ASSUME NEW s \in Scripts
      PROVE  LET u == [s EXCEPT !.heard = FALSE]
             IN  u \in Scripts /\ u.kind = s.kind /\ u.want = s.want
  BY DEF Scripts
<1> DEFINE f == [i \in DOMAIN queue |-> [queue[i] EXCEPT !.heard = FALSE]]
<1>4. \A i \in 1..Len(queue) :
        f[i] \in Scripts /\ f[i].kind = queue[i].kind /\ f[i].want = queue[i].want
  <2>1. SUFFICES ASSUME NEW i \in 1..Len(queue)
                 PROVE  f[i] \in Scripts /\ f[i].kind = queue[i].kind
                        /\ f[i].want = queue[i].want
    OBVIOUS
  <2>2. queue[i] \in Scripts /\ i \in DOMAIN queue
    BY <1>2
  <2>3. f[i] = [queue[i] EXCEPT !.heard = FALSE]
    BY <2>2, Zenon
  <2> HIDE DEF f
  <2>4. QED BY <1>3, <2>2, <2>3, Zenon
<1>5. queue' = f
  BY DEF Drop
<1>6. f \in [1..Len(queue) -> Scripts]
  BY <1>2, <1>4 DEF f
<1> HIDE DEF f
<1>7. Len(queue') = Len(queue)
  BY <1>2, <1>5, <1>6
<1>8. \A i \in 1..Len(queue) :
        queue'[i].kind = queue[i].kind /\ queue'[i].want = queue[i].want
  BY <1>4, <1>5
<1>9. \A i \in 0..Len(queue) :
        (Sets(queue', i) <=> Sets(queue, i)) /\ Leaves(queue', target, i) = Leaves(queue, target, i)
  BY <1>2, <1>8 DEF Sets, Leaves
<1>10. \A n \in 0..Len(queue) : \A i \in 0..n :
         Decides(queue', i, n) => Decides(queue, i, n)
  BY <1>2, <1>9 DEF Decides
<1>11. Rises'
  <2>1. SUFFICES ASSUME HeatsRise(queue, target), NEW n \in 1..Len(queue),
                        queue'[n].kind = "heat", NEW i \in 0..(n - 1),
                        Decides(queue', i, n - 1)
                 PROVE  Leaves(queue', target, i) <= queue'[n].want
    BY <1>1, <1>7 DEF Rises, HeatsRise
  <2>2. n - 1 \in 0..Len(queue) /\ i \in 0..Len(queue)
    BY <1>2
  <2>3. Decides(queue, i, n - 1) /\ queue[n].kind = "heat"
    BY <1>8, <1>10, <2>1, <2>2
  <2>4. Leaves(queue, target, i) <= queue[n].want
    BY <2>1, <2>3 DEF HeatsRise
  <2>5. QED BY <1>8, <1>9, <2>2, <2>4
<1>12. Waits'
  <2>1. SUFFICES ASSUME Reaches(queue, target, pending_want), NEW i \in 0..Len(queue),
                        Decides(queue', i, Len(queue))
                 PROVE  pending_want <= Leaves(queue', target, i)
    BY <1>1, <1>7 DEF Waits, Waiting, Reaches, pending
  <2>2. Decides(queue, i, Len(queue))
    BY <1>2, <1>10, <2>1
  <2>3. QED BY <1>9, <2>1, <2>2 DEF Reaches
<1>13. QED BY <1>11, <1>12

(* A restart fails the M104s, and others that set the target are noted.    *)
LEMMA BreakRises ==
  ASSUME Types, Rises, Waits, SetElsewhere \/ KlipperRestarts
  PROVE  Rises' /\ Waits'
<1>1. queue \in Seq(Scripts) /\ DOMAIN queue = 1..Len(queue) /\ Len(queue) \in Nat
  BY DEF Types
<1>2. CASE SetElsewhere
  <2>1. /\ UNCHANGED <<queue, pending>>
        /\ ~misjudged' => ~Waiting /\ \A i \in DOMAIN queue : queue[i].kind # "heat"
    <3>1. UNCHANGED <<queue, pending>>
      BY <1>2 DEF SetElsewhere
    <3>2. misjudged' = (\/ misjudged \/ Waiting
                        \/ \E i \in DOMAIN queue : queue[i].kind = "heat")
      BY <1>2 DEF SetElsewhere
    <3>3. QED BY <3>1, <3>2
  <2>2. QED BY <1>1, <2>1 DEF Rises, Waits, Waiting, HeatsRise, pending
<1>3. CASE KlipperRestarts
  <2>1. /\ UNCHANGED pending
        /\ queue' = [i \in DOMAIN queue |-> Failed(queue[i])]
        /\ ~misjudged' => ~Waiting
    <3>1. misjudged' = (misjudged \/ Waiting)
      BY <1>3 DEF KlipperRestarts
    <3>2. QED BY <1>3, <3>1 DEF KlipperRestarts, Break
  <2>2. \A s \in Scripts : Failed(s) \in Scripts /\ Failed(s).kind # "heat"
    BY DEF Failed, Scripts, Actions
  <2>3. \A i \in 1..Len(queue) : queue[i] \in Scripts /\ queue'[i] = Failed(queue[i])
    BY <1>1, <2>1
  <2>4. queue' \in [1..Len(queue) -> Scripts]
    BY <1>1, <2>1, <2>2
  <2>5. Len(queue') = Len(queue)
    BY <1>1, <2>4
  <2>6. HeatsRise(queue', target')
    BY <2>2, <2>3, <2>5 DEF HeatsRise
  <2>7. QED BY <2>1, <2>6 DEF Rises, Waits, Waiting, pending
<1>4. QED BY <1>2, <1>3

LEMMA NextRises ==
  ASSUME LockInv, Rises, Waits, [Next]_vars PROVE Rises' /\ Waits'
<1>0. Types /\ Turns
  BY DEF LockInv
<1>1. CASE Rests
  BY <1>1, RestsLeave DEF Rises, Waits, Waiting, pending
<1>2. ASSUME NEW w \in Temps, TapYes(w) \/ \E k \in Kinds \ {"none"} : TapAction(k, w)
      PROVE  Rises' /\ Waits'
  <2>1. UNCHANGED target /\ \E k \in Kinds \ {"none"} : RunWhenHot(k, w)
    BY <1>2 DEF TapYes, TapAction, OnPanel, Tap, hotend, Kinds
  <2>2. ~Waiting
    BY <1>0, <1>2 DEF TapYes, TapAction, Turns, Busy
  <2>3. QED BY <1>0, <2>1, <2>2, RunWhenHotRises, RunWhenHotWaits
<1>3. CASE StatusTick
  <2>1. UNCHANGED <<target, misjudged>>
    BY <1>3 DEF StatusTick, hotend, history
  <2>2. queue' = queue \/ \E k \in {"chunk", "move"} : queue' = Append(queue, Script(k))
    BY <1>0, <1>3 DEF StatusTick, Start, BeginLoad, SendAction, Types, Kinds, Waiting
  <2>3. ~Waiting' \/ UNCHANGED <<queue, pending>>
    BY <1>3 DEF StatusTick, ClearPending, Waiting
  <2>4. Rises'
    BY <1>0, <2>1, <2>2, ScriptRises DEF Rises, Types
  <2>5. QED BY <2>1, <2>3, <2>4 DEF Waits, Waiting, pending
<1>4. CASE EndsUnheard
  BY <1>0, <1>4, PopRises, PopWaits DEF EndsUnheard, history
<1>5. CASE ActionResponse
  <2>1. \/ queue' = Tail(queue)
        \/ \E k \in {"cool_after", "chunk"} : queue' = Append(Tail(queue), Script(k))
    BY <1>5, AutoCooldownDoes DEF ActionResponse
  <2>2. Waiting => queue' = Tail(queue)
    BY <1>0, <1>5 DEF ActionResponse, Turns
  <2>3. QED BY <1>0, <1>5, <2>1, <2>2, PopRises, PopWaits DEF ActionResponse, history
<1>6. CASE ChunkResponse
  <2>1. \/ queue' = Tail(queue)
        \/ \E k \in {"cool_after", "chunk"} : queue' = Append(Tail(queue), Script(k))
    BY <1>6, ChunkResponseDoes
  <2>2. Waiting => queue' = Tail(queue)
    BY <1>0, <1>6 DEF ChunkResponse, SendLoadChunk, Turns
  <2>3. QED BY <1>0, <1>6, <2>1, <2>2, PopRises, PopWaits DEF ChunkResponse
<1>7. CASE SafetyTimer
  <2>1. UNCHANGED <<queue, target, misjudged>>
    BY <1>7 DEF SafetyTimer, hotend
  <2>2. ~Waiting' \/ UNCHANGED pending
    BY <1>7 DEF SafetyTimer, ClearPending, Waiting
  <2>3. QED BY <2>1, <2>2 DEF Rises, Waits, Waiting, pending
<1>8. CASE TapCooldown
  <2>1. UNCHANGED <<target, misjudged>>
    BY <1>8 DEF TapCooldown, OnPanel, Tap, hotend
  <2>2. \E k \in {"drop", "cool"} : queue' = Append(queue, Script(k))
    BY <1>8 DEF TapCooldown, SendAction
  <2>3. ~Waiting'
    BY <1>0, <1>8 DEF TapCooldown, ClearPending, Waiting, Turns, pending
  <2>4. QED BY <1>0, <2>1, <2>2, <2>3, ScriptRises DEF Rises, Waits, Types
<1>9. CASE TapBack
  <2>1. UNCHANGED <<queue, target, misjudged>> /\ ~Waiting'
    BY <1>9 DEF TapBack, OnPanel, Tap, hotend, ClearPending, Waiting
  <2>2. QED BY <2>1 DEF Rises, Waits
<1>10. CASE SetElsewhere \/ KlipperRestarts \/ Drop
  BY <1>0, <1>10, BreakRises, DropRises
<1>11. QED
  BY <1>1, <1>2, <1>3, <1>4, <1>5, <1>6, <1>7, <1>8, <1>9, <1>10 DEF Next, Rests

(* "a manually-set hotter temperature is never lowered by an               *)
(* extrude/load/unload action" (extruder_panel.h:23-24), and an action     *)
(* waits for a temperature that the hotend is heated to, unless the target *)
(* the panel had heard of when it was tapped was not the one to come, or   *)
(* was changed before the M104 was run or the temperature reached.         *)
THEOREM HotterIsKept == Spec => OnlyUnheardMisleads
<1>1. Init => Rises /\ Waits
  <2>1. ASSUME Init PROVE Len(queue) = 0 /\ ~Waiting
    BY <2>1 DEF Init, Waiting
  <2>2. QED BY <2>1 DEF Rises, Waits, HeatsRise
<1>2. LockInv /\ Rises =>
        [Ends({"heat"}) /\ target' < target => misjudged]_vars
  <2>1. SUFFICES ASSUME LockInv, Rises, Ends({"heat"}), target' < target, ~misjudged
                 PROVE  FALSE
    OBVIOUS
  <2>2. /\ queue # <<>> /\ queue \in Seq(Scripts) /\ target \in Nat
    BY <2>1, ExtruderAssumption DEF LockInv, Types, Temps, Ends
  <2>3. /\ Head(queue) = queue[1] /\ queue[1].kind = "heat" /\ target' = queue[1].want
        /\ 1 \in 1..Len(queue) /\ queue[1].want \in Nat
    <3>1. /\ Head(queue) = queue[1] /\ queue[1] \in Scripts /\ 1 \in 1..Len(queue)
      BY <2>2, Tailed
    <3>2. Head(queue).kind = "heat" /\ target' = Head(queue).want
      BY <2>1 DEF Ends
    <3>3. queue[1].want \in Nat
      BY <3>1, ExtruderAssumption DEF Scripts, Temps
    <3>4. QED BY <3>1, <3>2, <3>3
  <2>4. 0 \in 0..(1 - 1) /\ Decides(queue, 0, 1 - 1) /\ Leaves(queue, target, 0) = target
    BY DEF Decides, Sets, Leaves
  <2>5. target <= queue[1].want
    BY <2>1, <2>2, <2>3, <2>4 DEF Rises, HeatsRise
  <2>6. QED BY <2>1, <2>2, <2>3, <2>5
<1>3. Waits => (Waiting /\ queue = <<>> => pending_want <= target \/ misjudged)
  <2>1. SUFFICES ASSUME Waits, Waiting, queue = <<>>, ~misjudged
                 PROVE  pending_want <= target
    OBVIOUS
  <2>2. Len(queue) = 0 /\ 0 \in 0..0
    BY <2>1
  <2>3. Decides(queue, 0, 0) /\ Leaves(queue, target, 0) = target
    BY DEF Decides, Sets, Leaves
  <2>4. QED BY <2>1, <2>2, <2>3 DEF Waits, Reaches
<1>4. QED
  BY <1>1, <1>2, <1>3, NextRises, LockInvHolds, PTL DEF Spec, OnlyUnheardMisleads

-----------------------------------------------------------------------------
(* The runout dialog: its invariants rest on the panel's own fields alone; *)
(* what the printer, the event loop and State do around them is one lemma. *)

(* The fields its two invariants are about *)
own == <<mbox, cancelling, cancelTimeout, loadActive, loadRemaining, asked,
         awaiting, strays>>

OwnTypes ==
  /\ mbox \in BOOLEAN /\ cancelling \in BOOLEAN /\ cancelTimeout \in BOOLEAN
  /\ loadActive \in BOOLEAN
  /\ loadRemaining \in Nat /\ asked \in Nat
  /\ awaiting \in Int /\ strays \in Int

RunoutIInv == OwnTypes /\ DialogOwnsFeedAndTimer /\ LoadStaysInBudget

LEMMA RunoutInitEstablishes == RunoutInit => RunoutIInv
<1> SUFFICES ASSUME RunoutInit PROVE RunoutIInv OBVIOUS
<1>1. /\ mbox = FALSE /\ cancelling = FALSE /\ cancelTimeout = FALSE
      /\ loadActive = FALSE /\ loadRemaining = 0 /\ asked = 0
      /\ awaiting = 0 /\ strays = 0
  BY Zenon DEF RunoutInit
<1>2. OwnTypes
  <2>1. awaiting \in Int BY <1>1
  <2>2. strays \in Int BY <1>1
  <2>3. asked \in Nat BY <1>1
  <2> QED BY <1>1, <2>1, <2>2, <2>3 DEF OwnTypes
<1>3. DialogOwnsFeedAndTimer BY <1>1 DEF DialogOwnsFeedAndTimer
<1>4. LoadStaysInBudget BY <1>1 DEF LoadStaysInBudget
<1> QED BY <1>2, <1>3, <1>4 DEF RunoutIInv

(* Whatever leaves the panel's own fields alone preserves the invariant.   *)
LEMMA OthersPreserve == RunoutIInv /\ UNCHANGED own => RunoutIInv'
BY DEF RunoutIInv, own, OwnTypes, DialogOwnsFeedAndTimer, LoadStaysInBudget

(* A connection that is lost takes the chunks' callbacks along.            *)
LEMMA DisconnectPreserves == RunoutIInv /\ Disconnect => RunoutIInv'
<1> SUFFICES ASSUME RunoutIInv, Disconnect PROVE RunoutIInv' OBVIOUS
<1>1. /\ UNCHANGED <<mbox, cancelling, cancelTimeout, loadActive>>
      /\ UNCHANGED <<loadRemaining, asked>>
      /\ awaiting' = 0 /\ strays' = 0
  BY DEF Disconnect
<1> QED BY <1>1 DEF RunoutIInv, OwnTypes, DialogOwnsFeedAndTimer, LoadStaysInBudget

(* Klipper, Moonraker and the websocket touch nothing else of them.        *)
LEMMA PrinterSparesDialog == Printer => Disconnect \/ UNCHANGED own
<1> SUFFICES ASSUME Printer, ~Disconnect PROVE UNCHANGED own OBVIOUS
<1>1. CASE ReportStatus BY <1>1 DEF ReportStatus, panel, own
<1>2. CASE FilamentEdge BY <1>2 DEF FilamentEdge, panel, own
<1>3. CASE ToggleSensor BY <1>3 DEF ToggleSensor, panel, own
<1>4. CASE PrintChanges BY <1>4 DEF PrintChanges, panel, own
<1>5. CASE RunScript BY <1>5 DEF RunScript, panel, own
<1>6. CASE RunM600 BY <1>6 DEF RunM600, panel, own
<1>7. CASE EndPrompt BY <1>7 DEF EndPrompt, panel, own
<1>8. CASE FilesChange BY <1>8 DEF FilesChange, panel, own
<1>10. CASE Connect BY <1>10 DEF Connect, panel, own
<1>11. CASE Subscribe BY <1>11 DEF Subscribe, panel, own
<1> QED BY <1>1, <1>2, <1>3, <1>4, <1>5, <1>6, <1>7, <1>8, <1>10, <1>11
           DEF Printer

(* show() opens the dialog and starts nothing.                             *)
LEMMA ShowPreserves ==
  ASSUME RunoutIInv, Show,
         UNCHANGED <<cancelling, cancelTimeout, loadActive, loadRemaining>>,
         UNCHANGED <<asked, awaiting, strays>>
  PROVE  RunoutIInv'
BY DEF Show, RunoutIInv, OwnTypes, DialogOwnsFeedAndTimer, LoadStaysInBudget

(* close() ends the feed and disarms the timer along with the dialog.      *)
LEMMA ClosePreserves ==
  ASSUME RunoutIInv, Close, UNCHANGED <<loadRemaining, awaiting>>
  PROVE  RunoutIInv'
<1>1. OwnTypes'
  <2>1. awaiting' \in Int BY DEF RunoutIInv, OwnTypes
  <2>2. strays' \in Int BY DEF Close, Uncounted
  <2>3. asked' \in Nat BY DEF Close, Uncounted
  <2> QED BY <2>1, <2>2, <2>3 DEF Close, RunoutIInv, OwnTypes
<1>2. DialogOwnsFeedAndTimer' BY DEF Close, DialogOwnsFeedAndTimer
<1>3. LoadStaysInBudget' BY DEF Close, LoadStaysInBudget
<1> QED BY <1>1, <1>2, <1>3 DEF RunoutIInv

LEMMA ConsumeErrorPreserves == RunoutIInv /\ ConsumeError => RunoutIInv'
<1> SUFFICES ASSUME RunoutIInv, ConsumeError PROVE RunoutIInv' OBVIOUS
<1>1. UNCHANGED <<cancelling, cancelTimeout, loadActive, loadRemaining, asked,
                  awaiting, strays>>
  BY DEF ConsumeError, feed
<1>2. CASE Show BY <1>1, <1>2, ShowPreserves
<1>3. CASE UNCHANGED mbox BY <1>1, <1>3, OthersPreserve DEF own
<1> QED BY <1>2, <1>3 DEF ConsumeError

(* A status update tears a cancelled print's dialog down, shows a runout,  *)
(* or leaves the dialog as it is.                                          *)
LEMMA ConsumePreserves == RunoutIInv /\ Consume => RunoutIInv'
<1> SUFFICES ASSUME RunoutIInv, Consume PROVE RunoutIInv' OBVIOUS
<1>1. UNCHANGED <<loadRemaining, awaiting>> BY DEF Consume
<1>2. \/ Close
      \/ Show /\ UNCHANGED <<loadActive, cancelling, cancelTimeout, counted>>
      \/ Still
  BY DEF Consume
<1>3. CASE Close BY <1>1, <1>3, ClosePreserves
<1>4. CASE Show /\ UNCHANGED <<loadActive, cancelling, cancelTimeout, counted>>
  BY <1>1, <1>4, ShowPreserves DEF counted
<1>5. CASE Still BY <1>1, <1>5, OthersPreserve DEF Still, counted, own
<1> QED BY <1>2, <1>3, <1>4, <1>5

(* Each chunk a callback asks for comes off what remains, and a feed that  *)
(* ends leaves nothing to account for.                                     *)
LEMMA ChunkReplyPreserves == RunoutIInv /\ ChunkReply => RunoutIInv'
<1> SUFFICES ASSUME RunoutIInv, ChunkReply PROVE RunoutIInv' OBVIOUS
<1>1. UNCHANGED <<mbox, cancelling, cancelTimeout>> BY DEF ChunkReply, box
<1>2. CASE /\ ~loadActive /\ UNCHANGED <<loadActive, loadRemaining, counted>>
           /\ awaiting' = awaiting - 1
  BY <1>1, <1>2
     DEF counted, RunoutIInv, OwnTypes, DialogOwnsFeedAndTimer, LoadStaysInBudget
<1>3. CASE /\ loadActive' = FALSE /\ loadRemaining' = 0
           /\ asked' = 0 /\ strays' = 0 /\ awaiting' = awaiting - 1
  <2>1. OwnTypes'
    <3>1. awaiting' \in Int BY <1>3 DEF RunoutIInv, OwnTypes
    <3>2. strays' \in Int BY <1>3
    <3>3. asked' \in Nat /\ loadRemaining' \in Nat BY <1>3
    <3> QED BY <1>1, <1>3, <3>1, <3>2, <3>3 DEF RunoutIInv, OwnTypes
  <2>2. DialogOwnsFeedAndTimer'
    BY <1>1, <1>3 DEF RunoutIInv, DialogOwnsFeedAndTimer
  <2>3. LoadStaysInBudget' BY <1>3 DEF LoadStaysInBudget
  <2> QED BY <2>1, <2>2, <2>3 DEF RunoutIInv
<1>4. CASE /\ loadRemaining > 0 /\ loadRemaining' = loadRemaining - 1
           /\ asked' = asked + 1 /\ UNCHANGED <<loadActive, awaiting, strays>>
  BY <1>1, <1>4, LoadAssumption
     DEF RunoutIInv, OwnTypes, DialogOwnsFeedAndTimer, LoadStaysInBudget, LoadAssumption
<1> QED BY <1>2, <1>3, <1>4 DEF ChunkReply, Uncounted

(* A load starts under a dialog, with its first chunk asked for.           *)
LEMMA TapLoadMorePreserves == RunoutIInv /\ TapLoadMore => RunoutIInv'
<1> SUFFICES ASSUME RunoutIInv, TapLoadMore PROVE RunoutIInv' OBVIOUS
<1> USE DEF RunoutIInv, OwnTypes, DialogOwnsFeedAndTimer, LoadStaysInBudget
<1>1. mbox /\ UNCHANGED <<mbox, cancelling, cancelTimeout>>
  BY DEF TapLoadMore, Tappable, box
<1>2. loadActive' = TRUE /\ loadRemaining' = LoadChunks - 1 /\ asked' = 1
  BY DEF TapLoadMore
<1>3. LoadChunks \in Nat \ {0} BY LoadAssumption DEF LoadAssumption
<1>4. loadRemaining' \in Nat /\ asked' + loadRemaining' = LoadChunks
  BY <1>2, <1>3
<1>5. /\ strays' = awaiting /\ awaiting' \in {awaiting, awaiting + 1}
      /\ awaiting' \in Int /\ strays' \in Int /\ awaiting' <= 1 + strays'
  BY DEF TapLoadMore
<1> QED BY <1>1, <1>2, <1>4, <1>5

LEMMA TapContinuePreserves == RunoutIInv /\ TapContinue => RunoutIInv'
<1> SUFFICES ASSUME RunoutIInv, TapContinue PROVE RunoutIInv' OBVIOUS
<1>1. UNCHANGED <<loadRemaining, awaiting>> BY DEF TapContinue
<1>2. CASE Close BY <1>1, <1>2, ClosePreserves
<1>3. CASE UNCHANGED <<mbox, loadActive, cancelling, cancelTimeout, counted>>
  BY <1>1, <1>3, OthersPreserve DEF own, counted
<1> QED BY <1>2, <1>3 DEF TapContinue, Still

(* Cancel arms the timer as it starts cancelling, under an open dialog.    *)
LEMMA TapCancelPreserves == RunoutIInv /\ TapCancel => RunoutIInv'
BY DEF TapCancel, Tappable, RunoutIInv, OwnTypes, DialogOwnsFeedAndTimer,
       LoadStaysInBudget

LEMMA LoopPreserves == RunoutIInv /\ Loop => RunoutIInv'
<1> SUFFICES ASSUME RunoutIInv, Loop PROVE RunoutIInv' OBVIOUS
<1>1. CASE ReceiveSnapshot BY <1>1, OthersPreserve DEF ReceiveSnapshot, panel, own
<1>2. CASE StateConsume BY <1>2, OthersPreserve DEF StateConsume, panel, own
<1>3. CASE ReceivePrompt BY <1>3, OthersPreserve DEF ReceivePrompt, panel, own
<1>4. CASE ConsumeError BY <1>4, ConsumeErrorPreserves
<1>5. CASE Consume BY <1>5, ConsumePreserves
<1>6. CASE ChunkReply BY <1>6, ChunkReplyPreserves
<1> QED BY <1>1, <1>2, <1>3, <1>4, <1>5, <1>6 DEF Loop

LEMMA LvglPreserves == RunoutIInv /\ Lvgl => RunoutIInv'
<1> SUFFICES ASSUME RunoutIInv, Lvgl PROVE RunoutIInv' OBVIOUS
<1>1. CASE TapStop BY <1>1, OthersPreserve DEF TapStop, box, own
<1>2. CASE TapLoadMore BY <1>2, TapLoadMorePreserves
<1>3. CASE TapContinue BY <1>3, TapContinuePreserves
<1>4. CASE TapCancel BY <1>4, TapCancelPreserves
<1>5. CASE CancelTimeout BY <1>5, ClosePreserves DEF CancelTimeout
<1> QED BY <1>1, <1>2, <1>3, <1>4, <1>5 DEF Lvgl

LEMMA NextPreserves == RunoutIInv /\ [RunoutNext]_runoutVars => RunoutIInv'
<1> SUFFICES ASSUME RunoutIInv, [RunoutNext]_runoutVars PROVE RunoutIInv' OBVIOUS
<1>1. CASE Printer BY <1>1, PrinterSparesDialog, OthersPreserve, DisconnectPreserves
<1>2. CASE Loop BY <1>2, LoopPreserves
<1>3. CASE Lvgl BY <1>3, LvglPreserves
<1>4. CASE UNCHANGED runoutVars BY <1>4, OthersPreserve DEF runoutVars, own
<1> QED BY <1>1, <1>2, <1>3, <1>4 DEF RunoutNext

LEMMA RunoutInvariant == RunoutSpec => []RunoutIInv
BY RunoutInitEstablishes, NextPreserves, PTL DEF RunoutSpec

(* Whenever the websocket is lost and whatever Klipper answers, close()    *)
(* leaves neither a timer nor a feed behind, and neither outlives the      *)
(* dialog that started it (filament_runout_panel.cpp:65-79).               *)
THEOREM FeedAndTimerEndWithDialog == RunoutSpec => []DialogOwnsFeedAndTimer
<1>1. RunoutIInv => DialogOwnsFeedAndTimer BY DEF RunoutIInv
<1> QED BY <1>1, RunoutInvariant, PTL

(* For every RUNOUT_LOAD_TOTAL_MM the chunks asked for since the tap and   *)
(* those remaining add up to it, even when the callback of an abandoned    *)
(* chunk joins the feed of a later dialog; and no more of them are ever    *)
(* under way than the load's own and those left over, which is what Stop   *)
(* leaves to run (filament_runout_panel.cpp:119-147).                      *)
THEOREM LoadNeverExceedsBudget == RunoutSpec => []LoadStaysInBudget
<1>1. RunoutIInv => LoadStaysInBudget BY DEF RunoutIInv
<1> QED BY <1>1, RunoutInvariant, PTL
=============================================================================
