---------------------- MODULE EstepsCalibration_proofs ----------------------
(***************************************************************************)
(* The two promises of the E-Steps calibration, for every number of runs,  *)
(* of scripts under way, of lost connections and of shutdowns of Klipper:  *)
(* the hotend is not left on unattended, and the value on the RESULT       *)
(* screen and the one Discard goes back to are right, but for the races    *)
(* the two properties name.  The first rests on what a queued script or a  *)
(* marker under way will still do to the heater, the timer and the stage;  *)
(* the second on the order of the corrections the panel has still to hear  *)
(* of.                                                                     *)
(***************************************************************************)
EXTENDS EstepsCalibration, TLAPS

Holds(s, name) == \E i \in DOMAIN s : s[i].name = name
Tells(s, kind) == \E i \in DOMAIN s : s[i].kind = kind
Queued(name)   == Holds(queue, name)
Told(kind)     == Tells(wire, kind)

Kinds == {"heating", "ready", "progress", "done", "cancelled", "applied", "error"}
Names == {"calibrate", "extrude", "cancel", "apply", "set", "cool", "timeout"}

(* What the screen's fields say of one another. *)
Stays ==
  /\ active <=> stage \in {"HEATING", "MARK", "EXTRUDING", "MEASURE"}
  /\ active => front
  /\ stage = "RESULT" => haveOriginal
  /\ discarded => ~front
  /\ ~connected => drops > 0

-----------------------------------------------------------------------------
(* Sequences of scripts and of markers *)

(* Nothing is queued before a calibration. *)
FirstOnly(s) == \A i \in DOMAIN s : s[i].name = "calibrate" => i = 1

(* The last script of s that changes rotation_distance sets it to r.       *)
SetsLast(s, r) ==
  \E i \in DOMAIN s :
    /\ s[i].name = "set" /\ s[i].rd = r
    /\ \A j \in DOMAIN s : j > i => s[j].name # "apply" /\ s[j].name # "set"

OneReady(s) ==
  \A i, j \in DOMAIN s : s[i].kind = "ready" /\ s[j].kind = "ready" => i = j

(* The first correction told in s started from r. *)
FirstOld(s, r) ==
  \A i \in DOMAIN s :
    s[i].kind = "applied" /\ (\A j \in DOMAIN s : j < i => s[j].kind # "applied")
      => s[i].old = r

(* The last correction told in s ended at r. *)
LastNew(s, r) ==
  \A i \in DOMAIN s :
    s[i].kind = "applied" /\ (\A j \in DOMAIN s : j > i => s[j].kind # "applied")
      => s[i].new = r

LEMMA TailAt ==
  ASSUME NEW S, NEW s \in Seq(S), s # <<>>
  PROVE  /\ Tail(s) \in Seq(S) /\ Len(s) \in Nat \ {0}
         /\ Head(s) = s[1] /\ s[1] \in S /\ 1 \in DOMAIN s
         /\ \A i \in DOMAIN Tail(s) : i + 1 \in DOMAIN s /\ Tail(s)[i] = s[i + 1]
         /\ \A i \in DOMAIN s : i # 1 => i - 1 \in DOMAIN Tail(s)
         /\ DOMAIN s = 1..Len(s) /\ DOMAIN Tail(s) = 1..(Len(s) - 1)
OBVIOUS

LEMMA AppendAt ==
  ASSUME NEW S, NEW s \in Seq(S), NEW e \in S
  PROVE  /\ Append(s, e) \in Seq(S) /\ Append(s, e) # <<>> /\ Len(s) \in Nat
         /\ DOMAIN s = 1..Len(s) /\ DOMAIN Append(s, e) = 1..(Len(s) + 1)
         /\ \A i \in DOMAIN s : Append(s, e)[i] = s[i]
         /\ Append(s, e)[Len(s) + 1] = e
OBVIOUS

LEMMA EmptyAt ==
  ASSUME NEW s, s = <<>>
  PROVE  DOMAIN s = {}
OBVIOUS

LEMMA TailScripts ==
  ASSUME NEW s \in Seq(Scripts), s # <<>>
  PROVE  /\ Tail(s) \in Seq(Scripts) /\ Head(s) \in Scripts
         /\ \A n : Holds(s, n) <=> Head(s).name = n \/ Holds(Tail(s), n)
         /\ FirstOnly(s) => FirstOnly(Tail(s)) /\ ~Holds(Tail(s), "calibrate")
<1> DEFINE t == Tail(s)
<1>1. /\ t \in Seq(Scripts) /\ Len(s) \in Nat \ {0}
      /\ Head(s) = s[1] /\ s[1] \in Scripts /\ 1 \in DOMAIN s
      /\ \A i \in DOMAIN t : i + 1 \in DOMAIN s /\ t[i] = s[i + 1]
      /\ \A i \in DOMAIN s : i # 1 => i - 1 \in DOMAIN t
      /\ DOMAIN s = 1..Len(s) /\ DOMAIN t = 1..(Len(s) - 1)
  BY TailAt
<1> HIDE DEF t
<1>2. ASSUME NEW n PROVE Holds(s, n) <=> Head(s).name = n \/ Holds(t, n)
  <2>1. ASSUME NEW i \in DOMAIN s, s[i].name = n
        PROVE  Head(s).name = n \/ Holds(t, n)
    <3>1. CASE i = 1 BY <1>1, <2>1, <3>1
    <3>2. CASE i # 1
      <4>1. i - 1 \in DOMAIN t /\ i \in Nat BY <1>1, <3>2
      <4>2. t[i - 1] = s[i] BY <1>1, <4>1
      <4> QED BY <2>1, <4>1, <4>2 DEF Holds
    <3> QED BY <3>1, <3>2
  <2>2. ASSUME NEW i \in DOMAIN t, t[i].name = n PROVE Holds(s, n)
    BY <1>1, <2>2 DEF Holds
  <2>3. Head(s).name = n => Holds(s, n) BY <1>1 DEF Holds
  <2> QED BY <2>1, <2>2, <2>3 DEF Holds
<1>3. FirstOnly(s) => \A i \in DOMAIN t : t[i].name # "calibrate"
  BY <1>1 DEF FirstOnly
<1> QED BY <1>1, <1>2, <1>3 DEF t, FirstOnly, Holds

LEMMA AppendScripts ==
  ASSUME NEW s \in Seq(Scripts), NEW e \in Scripts
  PROVE  /\ Append(s, e) \in Seq(Scripts) /\ Append(s, e) # <<>>
         /\ s # <<>> => Head(Append(s, e)) = Head(s)
         /\ \A n : Holds(Append(s, e), n) <=> e.name = n \/ Holds(s, n)
         /\ FirstOnly(s) /\ (e.name # "calibrate" \/ s = <<>>) => FirstOnly(Append(s, e))
<1> DEFINE t == Append(s, e)
<1>1. /\ t \in Seq(Scripts) /\ t # <<>> /\ Len(s) \in Nat
      /\ DOMAIN s = 1..Len(s) /\ DOMAIN t = 1..(Len(s) + 1)
      /\ \A i \in DOMAIN s : t[i] = s[i]
      /\ t[Len(s) + 1] = e
  BY AppendAt
<1>2. s # <<>> => Head(t) = Head(s) BY <1>1, TailAt
<1> HIDE DEF t
<1>3. ASSUME NEW n PROVE Holds(t, n) <=> e.name = n \/ Holds(s, n)
  BY <1>1 DEF Holds
<1>4. ASSUME FirstOnly(s), e.name # "calibrate" \/ s = <<>> PROVE FirstOnly(t)
  <2>1. s = <<>> => Len(s) = 0 OBVIOUS
  <2> QED BY <1>1, <1>4, <2>1 DEF FirstOnly
<1> QED BY <1>1, <1>2, <1>3, <1>4 DEF t

LEMMA TailSetsLast ==
  ASSUME NEW s \in Seq(Scripts), s # <<>>, NEW r, SetsLast(s, r)
  PROVE  \/ SetsLast(Tail(s), r)
         \/ /\ Head(s).name = "set" /\ Head(s).rd = r
            /\ ~Holds(Tail(s), "apply") /\ ~Holds(Tail(s), "set")
<1> DEFINE t == Tail(s)
<1>1. /\ Head(s) = s[1] /\ Len(s) \in Nat \ {0}
      /\ \A i \in DOMAIN t : i + 1 \in DOMAIN s /\ t[i] = s[i + 1]
      /\ \A i \in DOMAIN s : i # 1 => i - 1 \in DOMAIN t
      /\ DOMAIN s = 1..Len(s) /\ DOMAIN t = 1..(Len(s) - 1)
  BY TailAt
<1> HIDE DEF t
<1>2. PICK i \in DOMAIN s :
        /\ s[i].name = "set" /\ s[i].rd = r
        /\ \A j \in DOMAIN s : j > i => s[j].name # "apply" /\ s[j].name # "set"
  BY DEF SetsLast
<1>3. CASE i = 1
  <2>1. ASSUME NEW j \in DOMAIN t PROVE t[j].name # "apply" /\ t[j].name # "set"
    <3>1. j + 1 \in DOMAIN s /\ j + 1 > i /\ t[j] = s[j + 1] BY <1>1, <1>3
    <3> QED BY <1>2, <3>1
  <2> QED BY <1>1, <1>2, <1>3, <2>1 DEF t, Holds
<1>4. CASE i # 1
  <2>1. i - 1 \in DOMAIN t /\ t[i - 1] = s[i] BY <1>1, <1>4
  <2>2. ASSUME NEW j \in DOMAIN t, j > i - 1
        PROVE  t[j].name # "apply" /\ t[j].name # "set"
    <3>1. j + 1 \in DOMAIN s /\ j + 1 > i /\ t[j] = s[j + 1] BY <1>1, <2>2
    <3> QED BY <1>2, <3>1
  <2> QED BY <1>2, <2>1, <2>2 DEF t, SetsLast
<1> QED BY <1>3, <1>4

LEMMA AppendSetsLast ==
  ASSUME NEW s \in Seq(Scripts), NEW e \in Scripts, NEW r
  PROVE  /\ SetsLast(s, r) /\ e.name # "apply" /\ e.name # "set"
              => SetsLast(Append(s, e), r)
         /\ e.name = "set" /\ e.rd = r => SetsLast(Append(s, e), r)
<1> DEFINE t == Append(s, e)
<1>1. /\ Len(s) \in Nat
      /\ DOMAIN s = 1..Len(s) /\ DOMAIN t = 1..(Len(s) + 1)
      /\ \A i \in DOMAIN s : t[i] = s[i]
      /\ t[Len(s) + 1] = e
  BY AppendAt
<1> HIDE DEF t
<1>2. ASSUME SetsLast(s, r), e.name # "apply", e.name # "set" PROVE SetsLast(t, r)
  <2>1. PICK i \in DOMAIN s :
          /\ s[i].name = "set" /\ s[i].rd = r
          /\ \A j \in DOMAIN s : j > i => s[j].name # "apply" /\ s[j].name # "set"
    BY <1>2 DEF SetsLast
  <2>2. i \in DOMAIN t /\ t[i] = s[i] BY <1>1
  <2>3. ASSUME NEW j \in DOMAIN t, j > i PROVE t[j].name # "apply" /\ t[j].name # "set"
    <3>1. CASE j \in DOMAIN s
      <4>1. t[j] = s[j] BY <1>1, <3>1
      <4> QED BY <2>1, <2>3, <3>1, <4>1
    <3>2. CASE j = Len(s) + 1 BY <1>1, <1>2, <3>2
    <3> QED BY <1>1, <3>1, <3>2
  <2> QED BY <2>1, <2>2, <2>3 DEF SetsLast
<1>3. ASSUME e.name = "set", e.rd = r PROVE SetsLast(t, r)
  <2>1. Len(s) + 1 \in DOMAIN t /\ t[Len(s) + 1].name = "set" /\ t[Len(s) + 1].rd = r
    BY <1>1, <1>3
  <2>2. \A j \in DOMAIN t : ~(j > Len(s) + 1) BY <1>1
  <2> QED BY <2>1, <2>2 DEF SetsLast
<1> QED BY <1>2, <1>3 DEF t

LEMMA TailMarkers ==
  ASSUME NEW s \in Seq(Markers), s # <<>>
  PROVE  /\ Tail(s) \in Seq(Markers) /\ Head(s) \in Markers
         /\ \A k : Tells(s, k) <=> Head(s).kind = k \/ Tells(Tail(s), k)
         /\ OneReady(s) => /\ OneReady(Tail(s))
                           /\ Head(s).kind = "ready" => ~Tells(Tail(s), "ready")
<1> DEFINE t == Tail(s)
<1>1. /\ t \in Seq(Markers) /\ Len(s) \in Nat \ {0}
      /\ Head(s) = s[1] /\ s[1] \in Markers /\ 1 \in DOMAIN s
      /\ \A i \in DOMAIN t : i + 1 \in DOMAIN s /\ t[i] = s[i + 1]
      /\ \A i \in DOMAIN s : i # 1 => i - 1 \in DOMAIN t
      /\ DOMAIN s = 1..Len(s) /\ DOMAIN t = 1..(Len(s) - 1)
  BY TailAt
<1> HIDE DEF t
<1>2. ASSUME NEW k PROVE Tells(s, k) <=> Head(s).kind = k \/ Tells(t, k)
  <2>1. ASSUME NEW i \in DOMAIN s, s[i].kind = k
        PROVE  Head(s).kind = k \/ Tells(t, k)
    <3>1. CASE i = 1 BY <1>1, <2>1, <3>1
    <3>2. CASE i # 1
      <4>1. i - 1 \in DOMAIN t /\ i \in Nat BY <1>1, <3>2
      <4>2. t[i - 1] = s[i] BY <1>1, <4>1
      <4> QED BY <2>1, <4>1, <4>2 DEF Tells
    <3> QED BY <3>1, <3>2
  <2>2. ASSUME NEW i \in DOMAIN t, t[i].kind = k PROVE Tells(s, k)
    BY <1>1, <2>2 DEF Tells
  <2>3. Head(s).kind = k => Tells(s, k) BY <1>1 DEF Tells
  <2> QED BY <2>1, <2>2, <2>3 DEF Tells
<1>3. ASSUME OneReady(s), NEW i \in DOMAIN t, t[i].kind = "ready"
      PROVE  Head(s).kind # "ready" /\ \A j \in DOMAIN t : t[j].kind = "ready" => i = j
  <2>1. i + 1 \in DOMAIN s /\ s[i + 1].kind = "ready" /\ i \in Nat \ {0}
    BY <1>1, <1>3
  <2>2. s[1].kind # "ready" BY <1>1, <1>3, <2>1 DEF OneReady
  <2>3. ASSUME NEW j \in DOMAIN t, t[j].kind = "ready" PROVE i = j
    <3>1. j + 1 \in DOMAIN s /\ s[j + 1].kind = "ready" /\ j \in Nat BY <1>1, <2>3
    <3>2. i + 1 = j + 1 BY <1>3, <2>1, <3>1 DEF OneReady
    <3> QED BY <2>1, <3>1, <3>2
  <2> QED BY <1>1, <2>2, <2>3
<1> QED BY <1>1, <1>2, <1>3 DEF t, OneReady, Tells

LEMMA AppendMarkers ==
  ASSUME NEW s \in Seq(Markers), NEW e \in Markers
  PROVE  /\ Append(s, e) \in Seq(Markers)
         /\ \A k : Tells(Append(s, e), k) <=> e.kind = k \/ Tells(s, k)
         /\ OneReady(s) /\ (e.kind = "ready" => ~Tells(s, "ready"))
              => OneReady(Append(s, e))
<1> DEFINE t == Append(s, e)
<1>1. /\ t \in Seq(Markers) /\ Len(s) \in Nat
      /\ DOMAIN s = 1..Len(s) /\ DOMAIN t = 1..(Len(s) + 1)
      /\ \A i \in DOMAIN s : t[i] = s[i]
      /\ t[Len(s) + 1] = e
  BY AppendAt
<1> HIDE DEF t
<1>2. ASSUME NEW k PROVE Tells(t, k) <=> e.kind = k \/ Tells(s, k)
  BY <1>1 DEF Tells
<1>3. ASSUME OneReady(s), e.kind = "ready" => ~Tells(s, "ready"),
             NEW i \in DOMAIN t, NEW j \in DOMAIN t,
             t[i].kind = "ready", t[j].kind = "ready"
      PROVE  i = j
  BY <1>1, <1>3 DEF OneReady, Tells
<1> QED BY <1>1, <1>2, <1>3 DEF t, OneReady

LEMMA TailCorrections ==
  ASSUME NEW s \in Seq(Markers), s # <<>>, NEW r
  PROVE  /\ LastNew(s, r) => LastNew(Tail(s), r)
         /\ LastNew(s, r) /\ Head(s).kind = "applied" /\ ~Tells(Tail(s), "applied")
              => Head(s).new = r
         /\ FirstOld(s, r) /\ Head(s).kind # "applied" => FirstOld(Tail(s), r)
         /\ FirstOld(s, r) /\ Head(s).kind = "applied" => Head(s).old = r
<1> DEFINE t == Tail(s)
<1>1. /\ Len(s) \in Nat \ {0}
      /\ Head(s) = s[1] /\ s[1] \in Markers /\ 1 \in DOMAIN s
      /\ \A i \in DOMAIN t : i + 1 \in DOMAIN s /\ t[i] = s[i + 1]
      /\ \A i \in DOMAIN s : i # 1 => i - 1 \in DOMAIN t
      /\ DOMAIN s = 1..Len(s) /\ DOMAIN t = 1..(Len(s) - 1)
  BY TailAt
<1> HIDE DEF t
<1>2. ASSUME NEW j \in DOMAIN s, j # 1 PROVE j - 1 \in DOMAIN t /\ s[j] = t[j - 1]
  BY <1>1, <1>2
<1>3. ASSUME LastNew(s, r) PROVE LastNew(t, r)
  <2> SUFFICES ASSUME NEW i \in DOMAIN t, t[i].kind = "applied",
                      \A j \in DOMAIN t : j > i => t[j].kind # "applied"
               PROVE  t[i].new = r
    BY DEF LastNew
  <2>1. i + 1 \in DOMAIN s /\ t[i] = s[i + 1] /\ i \in Nat BY <1>1
  <2>2. ASSUME NEW j \in DOMAIN s, j > i + 1 PROVE s[j].kind # "applied"
    <3>1. j # 1 /\ j - 1 > i BY <1>1, <2>1, <2>2
    <3> QED BY <1>2, <3>1
  <2> QED BY <1>3, <2>1, <2>2 DEF LastNew
<1>4. ASSUME LastNew(s, r), Head(s).kind = "applied", ~Tells(t, "applied")
      PROVE  Head(s).new = r
  <2>1. ASSUME NEW j \in DOMAIN s, j > 1 PROVE s[j].kind # "applied"
    BY <1>2, <1>4, <2>1 DEF Tells
  <2> QED BY <1>1, <1>4, <2>1 DEF LastNew
<1>5. ASSUME FirstOld(s, r), Head(s).kind # "applied" PROVE FirstOld(t, r)
  <2> SUFFICES ASSUME NEW i \in DOMAIN t, t[i].kind = "applied",
                      \A j \in DOMAIN t : j < i => t[j].kind # "applied"
               PROVE  t[i].old = r
    BY DEF FirstOld
  <2>1. i + 1 \in DOMAIN s /\ t[i] = s[i + 1] /\ i \in Nat BY <1>1
  <2>2. ASSUME NEW j \in DOMAIN s, j < i + 1 PROVE s[j].kind # "applied"
    <3>1. CASE j = 1 BY <1>1, <1>5, <3>1
    <3>2. CASE j # 1
      <4>1. j - 1 < i BY <1>1, <2>1, <2>2
      <4> QED BY <1>2, <3>2, <4>1
    <3> QED BY <3>1, <3>2
  <2> QED BY <1>5, <2>1, <2>2 DEF FirstOld
<1>6. ASSUME FirstOld(s, r), Head(s).kind = "applied" PROVE Head(s).old = r
  <2>1. \A j \in DOMAIN s : ~(j < 1) BY <1>1
  <2> QED BY <1>1, <1>6, <2>1 DEF FirstOld
<1> QED BY <1>3, <1>4, <1>5, <1>6 DEF t

LEMMA AppendCorrections ==
  ASSUME NEW s \in Seq(Markers), NEW e \in Markers, NEW r
  PROVE  /\ e.kind # "applied" /\ LastNew(s, r) => LastNew(Append(s, e), r)
         /\ e.kind = "applied" /\ e.new = r => LastNew(Append(s, e), r)
         /\ FirstOld(s, r) /\ (e.kind = "applied" => Tells(s, "applied") \/ e.old = r)
              => FirstOld(Append(s, e), r)
<1> DEFINE t == Append(s, e)
<1>1. /\ Len(s) \in Nat
      /\ DOMAIN s = 1..Len(s) /\ DOMAIN t = 1..(Len(s) + 1)
      /\ \A i \in DOMAIN s : t[i] = s[i]
      /\ t[Len(s) + 1] = e
  BY AppendAt
<1> HIDE DEF t
<1>2. ASSUME e.kind # "applied", LastNew(s, r) PROVE LastNew(t, r)
  <2> SUFFICES ASSUME NEW i \in DOMAIN t, t[i].kind = "applied",
                      \A j \in DOMAIN t : j > i => t[j].kind # "applied"
               PROVE  t[i].new = r
    BY DEF LastNew
  <2>1. i \in DOMAIN s /\ t[i] = s[i] BY <1>1, <1>2
  <2>2. \A j \in DOMAIN s : j > i => s[j].kind # "applied" BY <1>1
  <2> QED BY <1>2, <2>1, <2>2 DEF LastNew
<1>3. ASSUME e.kind = "applied", e.new = r PROVE LastNew(t, r)
  <2> SUFFICES ASSUME NEW i \in DOMAIN t, t[i].kind = "applied",
                      \A j \in DOMAIN t : j > i => t[j].kind # "applied"
               PROVE  t[i].new = r
    BY DEF LastNew
  <2>1. Len(s) + 1 \in DOMAIN t BY <1>1
  <2>2. ~(Len(s) + 1 > i) BY <1>1, <1>3, <2>1
  <2>3. i = Len(s) + 1 BY <1>1, <2>2
  <2> QED BY <1>1, <1>3, <2>3
<1>4. ASSUME FirstOld(s, r), e.kind = "applied" => Tells(s, "applied") \/ e.old = r
      PROVE  FirstOld(t, r)
  <2> SUFFICES ASSUME NEW i \in DOMAIN t, t[i].kind = "applied",
                      \A j \in DOMAIN t : j < i => t[j].kind # "applied"
               PROVE  t[i].old = r
    BY DEF FirstOld
  <2>1. CASE i \in DOMAIN s
    <3>1. t[i] = s[i] /\ \A j \in DOMAIN s : j < i => s[j].kind # "applied"
      BY <1>1, <2>1
    <3> QED BY <1>4, <2>1, <3>1 DEF FirstOld
  <2>2. CASE i = Len(s) + 1
    <3>1. \A j \in DOMAIN s : s[j].kind # "applied" BY <1>1, <2>2
    <3> QED BY <1>1, <1>4, <2>2, <3>1 DEF Tells
  <2> QED BY <1>1, <2>1, <2>2
<1> QED BY <1>2, <1>3, <1>4 DEF t
-----------------------------------------------------------------------------
(* What a step does to the queue and to the wire *)

LEMMA FinishTakes ==
  ASSUME TypeOK, queue # <<>>, queue' = Tail(queue)
  PROVE  /\ queue' \in Seq(Scripts) /\ Head(queue) \in Scripts
         /\ \A n : Queued(n) <=> Head(queue).name = n \/ Holds(queue', n)
         /\ FirstOnly(queue) => FirstOnly(queue') /\ ~Holds(queue', "calibrate")
BY TailScripts DEF TypeOK, Queued

LEMMA RunsHead ==
  ASSUME NEW name, Runs(name)
  PROVE  queue # <<>> /\ Head(queue).name = name
BY DEF Runs

LEMMA SentOne ==
  ASSUME TypeOK, NEW e \in Scripts, Sent(<<e>>)
  PROVE  /\ queue' \in Seq(Scripts)
         /\ queue # <<>> => queue' # <<>> /\ Head(queue') = Head(queue)
         /\ \A n : Holds(queue', n) => Queued(n) \/ e.name = n
         /\ \A n : Queued(n) => Holds(queue', n)
         /\ connected /\ ready => Holds(queue', e.name)
         /\ FirstOnly(queue) /\ (e.name # "calibrate" \/ queue = <<>>)
              => FirstOnly(queue')
<1>1. queue \in Seq(Scripts) BY DEF TypeOK
<1>2. CASE queue' = queue /\ ~(connected /\ ready) BY <1>1, <1>2 DEF Queued
<1>3. CASE queue' = queue \o <<e>>
  <2>1. queue' = Append(queue, e) BY <1>1, <1>3
  <2> QED BY <1>1, <2>1, AppendScripts DEF Queued
<1> QED BY <1>2, <1>3 DEF Sent

(* One marker joins the others, on an open connection. *)
Joins(e) == wire' = IF connected THEN Append(wire, e) ELSE wire

LEMMA JoinsTells ==
  ASSUME TypeOK, NEW e \in Markers, Joins(e)
  PROVE  /\ wire' \in Seq(Markers)
         /\ \A k : Tells(wire', k) => Told(k) \/ e.kind = k
         /\ \A k : Told(k) => Tells(wire', k)
         /\ connected => Tells(wire', e.kind)
         /\ OneReady(wire) /\ (e.kind # "ready" \/ ~Told("ready")) => OneReady(wire')
<1>1. wire \in Seq(Markers) BY DEF TypeOK
<1>2. CASE wire' = wire /\ ~connected BY <1>1, <1>2 DEF Told
<1>3. CASE wire' = Append(wire, e) BY <1>1, <1>3, AppendMarkers DEF Told
<1> QED BY <1>2, <1>3 DEF Joins

LEMMA JoinsCorrections ==
  ASSUME TypeOK, NEW e \in Markers, Joins(e), NEW r
  PROVE  /\ e.kind # "applied" /\ LastNew(wire, r) => LastNew(wire', r)
         /\ e.kind = "applied" /\ e.new = r /\ connected => LastNew(wire', r)
         /\ FirstOld(wire, r) /\ (e.kind = "applied" => Told("applied") \/ e.old = r)
              => FirstOld(wire', r)
<1>1. wire \in Seq(Markers) BY DEF TypeOK
<1>2. CASE wire' = wire /\ ~connected BY <1>1, <1>2
<1>3. CASE wire' = Append(wire, e) BY <1>1, <1>3, AppendCorrections DEF Told
<1> QED BY <1>2, <1>3 DEF Joins

LEMMA RespondJoins ==
  ASSUME TypeOK, NEW kind \in Kinds, Respond(kind)
  PROVE  \E e \in Markers : e.kind = kind /\ Joins(e)
<1> DEFINE e == [kind |-> kind, old |-> rd, new |-> rd]
<1>1. rd \in Rds BY DEF TypeOK
<1>2. e \in Markers BY <1>1 DEF Markers, Kinds
<1>3. e.kind = kind OBVIOUS
<1>4. Joins(e) BY DEF Respond, Joins
<1> QED BY <1>2, <1>3, <1>4

LEMMA HearTakes ==
  ASSUME TypeOK, NEW kind, Received(kind)
  PROVE  /\ wire' \in Seq(Markers) /\ wire # <<>> /\ wire' = Tail(wire)
         /\ Head(wire) \in Markers /\ Head(wire).kind = kind
         /\ \A k : Told(k) <=> kind = k \/ Tells(wire', k)
         /\ OneReady(wire) => /\ OneReady(wire')
                              /\ kind = "ready" => ~Tells(wire', "ready")
BY TailMarkers DEF TypeOK, Received, Told

-----------------------------------------------------------------------------
(* The types, and what the screen's fields say of one another *)

QueueType == queue \in Seq(Scripts) /\ phase \in {"start", "wait"}
             /\ (phase = "wait" => /\ queue # <<>>
                                   /\ Head(queue).name \in {"calibrate", "extrude"})
WireType  == wire \in Seq(Markers)
RdType    == rd \in Rds /\ originalRd \in Rds /\ shownRd \in Rds /\ origin \in Rds
FlagType  == /\ timer \in BOOLEAN /\ heater \in BOOLEAN /\ connected \in BOOLEAN
             /\ ready \in BOOLEAN /\ halted \in BOOLEAN
             /\ front \in BOOLEAN /\ active \in BOOLEAN /\ haveOriginal \in BOOLEAN
             /\ discarded \in BOOLEAN /\ overlapped \in BOOLEAN /\ unheard \in BOOLEAN
CountType == stage \in Stages /\ runs \in 0..MaxRuns /\ drops \in 0..MaxDrops

LEMMA TypeParts ==
  TypeOK <=> QueueType /\ WireType /\ RdType /\ FlagType /\ CountType
BY DEF TypeOK, QueueType, WireType, RdType, FlagType, CountType

LEMMA TypePartsNext ==
  TypeOK' <=> QueueType' /\ WireType' /\ RdType' /\ FlagType' /\ CountType'
BY DEF TypeOK, QueueType, WireType, RdType, FlagType, CountType

LEMMA CalibrateTypes == ASSUME TypeOK, Stays, Calibrate PROVE TypeOK' /\ Stays'
<1>1. queue' \in Seq(Scripts)
  BY RunsHead, FinishTakes, TypeParts DEF Calibrate, Finish, QueueType
<1>2. wire' \in Seq(Markers)
  BY RespondJoins, JoinsTells, TypeParts DEF Calibrate, Kinds, WireType
<1>3. QueueType'
  BY <1>1, <1>2, TypeParts DEF Calibrate, Finish, Runs, QueueType, panel, memory,
    history
<1>4. WireType'
  BY <1>1, <1>2, TypeParts DEF Calibrate, Finish, Runs, WireType, panel, memory,
    history
<1>5. RdType'
  BY <1>1, <1>2, TypeParts DEF Calibrate, Finish, Runs, RdType, panel, memory,
    history
<1>6. FlagType'
  BY <1>1, <1>2, TypeParts DEF Calibrate, Finish, Runs, FlagType, panel, memory,
    history
<1>7. CountType'
  BY <1>1, <1>2, TypeParts DEF Calibrate, Finish, Runs, CountType, Stages, panel,
    memory, history
<1>8. Stays'
  BY <1>1, <1>2, TypeParts DEF Calibrate, Finish, Runs, Stays, FlagType, CountType,
    panel, memory, history
<1> QED BY <1>3, <1>4, <1>5, <1>6, <1>7, <1>8, TypePartsNext

LEMMA ExtrudeTypes == ASSUME TypeOK, Stays, Extrude PROVE TypeOK' /\ Stays'
<1>1. queue' \in Seq(Scripts)
  BY RunsHead, FinishTakes, TypeParts DEF Extrude, Finish, QueueType
<1>2. wire' \in Seq(Markers)
  BY RespondJoins, JoinsTells, TypeParts DEF Extrude, Kinds, WireType
<1>3. QueueType'
  BY <1>1, <1>2, TypeParts DEF Extrude, Finish, Runs, QueueType, panel, memory,
    history
<1>4. WireType'
  BY <1>1, <1>2, TypeParts DEF Extrude, Finish, Runs, WireType, panel, memory,
    history
<1>5. RdType'
  BY <1>1, <1>2, TypeParts DEF Extrude, Finish, Runs, RdType, panel, memory, history
<1>6. FlagType'
  BY <1>1, <1>2, TypeParts DEF Extrude, Finish, Runs, FlagType, panel, memory,
    history
<1>7. CountType'
  BY <1>1, <1>2, TypeParts DEF Extrude, Finish, Runs, CountType, Stages, panel,
    memory, history
<1>8. Stays'
  BY <1>1, <1>2, TypeParts DEF Extrude, Finish, Runs, Stays, FlagType, CountType,
    panel, memory, history
<1> QED BY <1>3, <1>4, <1>5, <1>6, <1>7, <1>8, TypePartsNext

LEMMA CancelTypes == ASSUME TypeOK, Stays, Cancel PROVE TypeOK' /\ Stays'
<1>1. queue' \in Seq(Scripts)
  BY RunsHead, FinishTakes, TypeParts DEF Cancel, Finish, QueueType
<1>2. wire' \in Seq(Markers)
  BY RespondJoins, JoinsTells, TypeParts DEF Cancel, Kinds, WireType
<1>3. QueueType'
  BY <1>1, <1>2, TypeParts DEF Cancel, Finish, Runs, QueueType, panel, memory,
    history
<1>4. WireType'
  BY <1>1, <1>2, TypeParts DEF Cancel, Finish, Runs, WireType, panel, memory,
    history
<1>5. RdType'
  BY <1>1, <1>2, TypeParts DEF Cancel, Finish, Runs, RdType, panel, memory, history
<1>6. FlagType'
  BY <1>1, <1>2, TypeParts DEF Cancel, Finish, Runs, FlagType, panel, memory,
    history
<1>7. CountType'
  BY <1>1, <1>2, TypeParts DEF Cancel, Finish, Runs, CountType, Stages, panel,
    memory, history
<1>8. Stays'
  BY <1>1, <1>2, TypeParts DEF Cancel, Finish, Runs, Stays, FlagType, CountType,
    panel, memory, history
<1> QED BY <1>3, <1>4, <1>5, <1>6, <1>7, <1>8, TypePartsNext

LEMMA TimeoutTypes == ASSUME TypeOK, Stays, Timeout PROVE TypeOK' /\ Stays'
<1>1. /\ queue' \in Seq(Scripts)
      /\ queue # <<>> => queue' # <<>> /\ Head(queue') = Head(queue)
  <2>1. [name |-> "timeout", rd |-> 0] \in Scripts
    BY TypeParts, EstepsAssumption DEF Scripts, Rds, EstepsAssumption
  <2> QED BY <2>1, AppendScripts, TypeParts DEF Timeout, QueueType
<1>2. QueueType'
  BY <1>1, TypeParts DEF Timeout, QueueType, link, panel, memory, history
<1>3. WireType'
  BY <1>1, TypeParts DEF Timeout, WireType, link, panel, memory, history
<1>4. RdType' BY <1>1, TypeParts DEF Timeout, RdType, link, panel, memory, history
<1>5. FlagType'
  BY <1>1, TypeParts DEF Timeout, FlagType, link, panel, memory, history
<1>6. CountType'
  BY <1>1, TypeParts DEF Timeout, CountType, Stages, link, panel, memory, history
<1>7. Stays'
  BY <1>1, TypeParts DEF Timeout, Stays, FlagType, CountType, link, panel, memory,
    history
<1> QED BY <1>2, <1>3, <1>4, <1>5, <1>6, <1>7, TypePartsNext

LEMMA ApplyTypes == ASSUME TypeOK, Stays, Apply PROVE TypeOK' /\ Stays'
<1>1. queue' \in Seq(Scripts)
  BY RunsHead, FinishTakes, TypeParts DEF Apply, Finish, QueueType
<1>2. wire' \in Seq(Markers)
  <2>1. CASE Respond("error") BY <2>1, RespondJoins, JoinsTells DEF Kinds
  <2>2. CASE \E new \in {rd, rd + 1} \cap Rds :
               wire' = IF connected
                       THEN Append(wire, [kind |-> "applied", old |-> rd, new |-> new])
                       ELSE wire
    <3>1. PICK new \in Rds :
            wire' = IF connected
                    THEN Append(wire, [kind |-> "applied", old |-> rd, new |-> new])
                    ELSE wire
      BY <2>2
    <3>2. [kind |-> "applied", old |-> rd, new |-> new] \in Markers
      BY TypeParts DEF Markers, RdType
    <3> QED BY <3>1, <3>2, JoinsTells DEF Joins
  <2> QED BY <2>1, <2>2 DEF Apply
<1>3. rd' \in Rds
  BY TypeParts DEF Apply, RdType
<1>4. QueueType'
  BY <1>1, <1>2, <1>3, TypeParts DEF Apply, Finish, Runs, QueueType, panel, memory
<1>5. WireType'
  BY <1>1, <1>2, <1>3, TypeParts DEF Apply, Finish, Runs, WireType, panel, memory
<1>6. RdType'
  BY <1>1, <1>2, <1>3, TypeParts DEF Apply, Finish, Runs, RdType, panel, memory
<1>7. FlagType'
  BY <1>1, <1>2, <1>3, TypeParts DEF Apply, Finish, Runs, FlagType, panel, memory
<1>8. CountType'
  BY <1>1, <1>2, <1>3, TypeParts DEF Apply, Finish, Runs, CountType, Stages, panel,
    memory
<1>9. Stays'
  BY <1>1, <1>2, <1>3, TypeParts DEF Apply, Finish, Runs, Stays, FlagType,
    CountType, panel, memory
<1> QED BY <1>4, <1>5, <1>6, <1>7, <1>8, <1>9, TypePartsNext

LEMMA SetOrCoolTypes == ASSUME TypeOK, Stays, SetOrCool PROVE TypeOK' /\ Stays'
<1>1. queue' \in Seq(Scripts)
  BY RunsHead, FinishTakes, TypeParts DEF SetOrCool, Finish, QueueType
<1>2. rd' \in Rds
  <2>1. Head(queue) \in Scripts BY RunsHead, FinishTakes DEF SetOrCool, Finish
  <2>2. Head(queue).rd \in Rds BY <2>1 DEF Scripts
  <2> QED BY <2>2, TypeParts DEF SetOrCool, RdType
<1>3. QueueType'
  BY <1>1, <1>2, TypeParts DEF SetOrCool, Finish, Runs, QueueType, link, panel,
    memory, history
<1>4. WireType'
  BY <1>1, <1>2, TypeParts DEF SetOrCool, Finish, Runs, WireType, link, panel,
    memory, history
<1>5. RdType'
  BY <1>1, <1>2, TypeParts DEF SetOrCool, Finish, Runs, RdType, link, panel,
    memory, history
<1>6. FlagType'
  BY <1>1, <1>2, TypeParts DEF SetOrCool, Finish, Runs, FlagType, link, panel,
    memory, history
<1>7. CountType'
  BY <1>1, <1>2, TypeParts DEF SetOrCool, Finish, Runs, CountType, Stages, link,
    panel, memory, history
<1>8. Stays'
  BY <1>1, <1>2, TypeParts DEF SetOrCool, Finish, Runs, Stays, FlagType, CountType,
    link, panel, memory, history
<1> QED BY <1>3, <1>4, <1>5, <1>6, <1>7, <1>8, TypePartsNext

LEMMA DropTypes == ASSUME TypeOK, Stays, Drop PROVE TypeOK' /\ Stays'
<1>1. QueueType' BY TypeParts DEF Drop, QueueType, klipper, panel, memory
<1>2. WireType' BY TypeParts DEF Drop, WireType, klipper, panel, memory
<1>3. RdType' BY TypeParts DEF Drop, RdType, klipper, panel, memory
<1>4. FlagType' BY TypeParts DEF Drop, FlagType, klipper, panel, memory
<1>5. CountType'
  BY TypeParts, EstepsAssumption DEF Drop, CountType, Stages, EstepsAssumption,
    klipper, panel, memory
<1>6. Stays'
  BY TypeParts DEF Drop, Stays, FlagType, CountType, klipper, panel, memory
<1> QED BY <1>1, <1>2, <1>3, <1>4, <1>5, <1>6, TypePartsNext

LEMMA ReconnectTypes == ASSUME TypeOK, Stays, Reconnect PROVE TypeOK' /\ Stays'
<1>1. QueueType'
  BY TypeParts DEF Reconnect, QueueType, klipper, panel, memory, history
<1>2. WireType'
  BY TypeParts DEF Reconnect, WireType, klipper, panel, memory, history
<1>3. RdType' BY TypeParts DEF Reconnect, RdType, klipper, panel, memory, history
<1>4. FlagType'
  BY TypeParts DEF Reconnect, FlagType, klipper, panel, memory, history
<1>5. CountType'
  BY TypeParts DEF Reconnect, CountType, Stages, klipper, panel, memory, history
<1>6. Stays'
  BY TypeParts DEF Reconnect, Stays, FlagType, CountType, klipper, panel, memory,
    history
<1> QED BY <1>1, <1>2, <1>3, <1>4, <1>5, <1>6, TypePartsNext

LEMMA HearProgressTypes == ASSUME TypeOK, Stays, HearProgress PROVE TypeOK' /\ Stays'
<1>1. wire' \in Seq(Markers)
  BY HearTakes DEF HearProgress, Hears
<1>2. QueueType'
  BY <1>1, TypeParts DEF HearProgress, Hears, Received, QueueType, klipper, memory,
    history
<1>3. WireType'
  BY <1>1, TypeParts DEF HearProgress, Hears, Received, WireType, klipper, memory,
    history
<1>4. RdType'
  BY <1>1, TypeParts DEF HearProgress, Hears, Received, RdType, klipper, memory,
    history
<1>5. FlagType'
  BY <1>1, TypeParts DEF HearProgress, Hears, Received, FlagType, klipper, memory,
    history
<1>6. CountType'
  BY <1>1, TypeParts DEF HearProgress, Hears, Received, CountType, Stages, klipper,
    memory, history
<1>7. Stays'
  BY <1>1, TypeParts DEF HearProgress, Hears, Received, Stays, FlagType, CountType,
    klipper, memory, history
<1> QED BY <1>2, <1>3, <1>4, <1>5, <1>6, <1>7, TypePartsNext

LEMMA HearCancelledTypes == ASSUME TypeOK, Stays, HearCancelled PROVE TypeOK' /\ Stays'
<1>1. wire' \in Seq(Markers)
  BY HearTakes DEF HearCancelled, Hears
<1>2. QueueType'
  BY <1>1, TypeParts DEF HearCancelled, Received, QueueType, klipper, memory,
    history
<1>3. WireType'
  BY <1>1, TypeParts DEF HearCancelled, Received, WireType, klipper, memory, history
<1>4. RdType'
  BY <1>1, TypeParts DEF HearCancelled, Received, RdType, klipper, memory, history
<1>5. FlagType'
  BY <1>1, TypeParts DEF HearCancelled, Received, FlagType, klipper, memory, history
<1>6. CountType'
  BY <1>1, TypeParts DEF HearCancelled, Received, CountType, Stages, klipper,
    memory, history
<1>7. Stays'
  BY <1>1, TypeParts DEF HearCancelled, Received, Stays, FlagType, CountType,
    klipper, memory, history
<1> QED BY <1>2, <1>3, <1>4, <1>5, <1>6, <1>7, TypePartsNext

LEMMA HearAppliedTypes == ASSUME TypeOK, Stays, HearApplied PROVE TypeOK' /\ Stays'
<1>1. wire' \in Seq(Markers) /\ Head(wire) \in Markers
  BY HearTakes DEF HearApplied
<1>2. Head(wire).old \in Rds /\ Head(wire).new \in Rds
  BY <1>1 DEF Markers
<1>3. QueueType'
  BY <1>1, <1>2, TypeParts DEF HearApplied, Received, QueueType, klipper, memory
<1>4. WireType'
  BY <1>1, <1>2, TypeParts DEF HearApplied, Received, WireType, klipper, memory
<1>5. RdType'
  BY <1>1, <1>2, TypeParts DEF HearApplied, Received, RdType, klipper, memory
<1>6. FlagType'
  BY <1>1, <1>2, TypeParts DEF HearApplied, Received, FlagType, klipper, memory
<1>7. CountType'
  BY <1>1, <1>2, TypeParts DEF HearApplied, Received, CountType, Stages, klipper,
    memory
<1>8. Stays'
  BY <1>1, <1>2, TypeParts DEF HearApplied, Received, Stays, FlagType, CountType,
    klipper, memory
<1> QED BY <1>3, <1>4, <1>5, <1>6, <1>7, <1>8, TypePartsNext

LEMMA ForegroundTypes == ASSUME TypeOK, Stays, Foreground PROVE TypeOK' /\ Stays'
<1>1. QueueType' BY TypeParts DEF Foreground, QueueType, klipper, link
<1>2. WireType' BY TypeParts DEF Foreground, WireType, klipper, link
<1>3. RdType' BY TypeParts DEF Foreground, RdType, klipper, link
<1>4. FlagType' BY TypeParts DEF Foreground, FlagType, klipper, link
<1>5. CountType' BY TypeParts DEF Foreground, CountType, Stages, klipper, link
<1>6. Stays' BY TypeParts DEF Foreground, Stays, FlagType, CountType, klipper, link
<1> QED BY <1>1, <1>2, <1>3, <1>4, <1>5, <1>6, TypePartsNext

LEMMA TapBackTypes == ASSUME TypeOK, Stays, TapBack PROVE TypeOK' /\ Stays'
<1>1. QueueType' BY TypeParts DEF TapBack, QueueType, klipper, link, memory, history
<1>2. WireType' BY TypeParts DEF TapBack, WireType, klipper, link, memory, history
<1>3. RdType' BY TypeParts DEF TapBack, RdType, klipper, link, memory, history
<1>4. FlagType' BY TypeParts DEF TapBack, FlagType, klipper, link, memory, history
<1>5. CountType'
  BY TypeParts DEF TapBack, CountType, Stages, klipper, link, memory, history
<1>6. Stays'
  BY TypeParts DEF TapBack, Stays, FlagType, CountType, klipper, link, memory,
    history
<1> QED BY <1>1, <1>2, <1>3, <1>4, <1>5, <1>6, TypePartsNext

LEMMA ScriptTyped ==
  ASSUME NEW name \in Names
  PROVE  Script(name) \in Scripts /\ Script(name).name = name
BY EstepsAssumption DEF Script, Scripts, Names, Rds, EstepsAssumption

LEMMA TapDoneTypes == ASSUME TypeOK, Stays, TapDone PROVE TypeOK' /\ Stays'
<1>1. /\ queue' \in Seq(Scripts)
      /\ queue # <<>> => queue' # <<>> /\ Head(queue') = Head(queue)
  BY ScriptTyped, SentOne DEF TapDone, Names
<1>2. QueueType' BY <1>1, TypeParts DEF TapDone, QueueType, link, memory, history
<1>3. WireType' BY <1>1, TypeParts DEF TapDone, WireType, link, memory, history
<1>4. RdType' BY <1>1, TypeParts DEF TapDone, RdType, link, memory, history
<1>5. FlagType' BY <1>1, TypeParts DEF TapDone, FlagType, link, memory, history
<1>6. CountType'
  BY <1>1, TypeParts DEF TapDone, CountType, Stages, link, memory, history
<1>7. Stays'
  BY <1>1, TypeParts DEF TapDone, Stays, FlagType, CountType, link, memory, history
<1> QED BY <1>2, <1>3, <1>4, <1>5, <1>6, <1>7, TypePartsNext

(* Discard sends both of its scripts, or, unheard or refused, none.        *)
LEMMA DiscardSends ==
  ASSUME TypeOK, Stays, TapDiscard
  PROVE  /\ queue' \in Seq(Scripts)
         /\ queue # <<>> => queue' # <<>> /\ Head(queue') = Head(queue)
         /\ \A n : Queued(n) => Holds(queue', n)
         /\ \A n : Holds(queue', n) => Queued(n) \/ n = "set" \/ n = "cool"
         /\ connected /\ ready => Holds(queue', "cool") /\ SetsLast(queue', originalRd)
         /\ FirstOnly(queue) => FirstOnly(queue')
<1> DEFINE e == [name |-> "set", rd |-> originalRd]
           f == Script("cool")
           q == Append(queue, e)
<1>1. queue \in Seq(Scripts) /\ originalRd \in Rds BY DEF TypeOK
<1>2. e \in Scripts /\ e.name = "set" /\ e.rd = originalRd BY <1>1 DEF Scripts
<1>3. f \in Scripts /\ f.name = "cool" BY ScriptTyped DEF Names
<1>4. haveOriginal BY DEF TapDiscard, Stays
<1>5. queue' = IF connected /\ ready THEN queue \o (<<e>> \o <<f>>) ELSE queue
  BY <1>4 DEF TapDiscard, Sent
<1> HIDE DEF e, f
<1>6. CASE queue' = queue /\ ~(connected /\ ready) BY <1>1, <1>6 DEF Queued
<1>7. CASE queue' = queue \o (<<e>> \o <<f>>)
  <2>1. queue \o (<<e>> \o <<f>>) = Append(q, f) BY <1>1, <1>2, <1>3
  <2>2. /\ q \in Seq(Scripts) /\ q # <<>>
        /\ queue # <<>> => Head(q) = Head(queue)
        /\ \A n : Holds(q, n) <=> e.name = n \/ Holds(queue, n)
        /\ FirstOnly(queue) => FirstOnly(q)
        /\ SetsLast(q, originalRd)
    BY <1>1, <1>2, AppendScripts, AppendSetsLast
  <2> HIDE DEF q
  <2>3. /\ Append(q, f) \in Seq(Scripts) /\ Append(q, f) # <<>>
        /\ Head(Append(q, f)) = Head(q)
        /\ \A n : Holds(Append(q, f), n) <=> f.name = n \/ Holds(q, n)
        /\ FirstOnly(q) => FirstOnly(Append(q, f))
        /\ SetsLast(Append(q, f), originalRd)
    BY <1>3, <2>2, AppendScripts, AppendSetsLast
  <2> QED BY <1>2, <1>3, <1>7, <2>1, <2>2, <2>3 DEF Queued
<1> QED BY <1>5, <1>6, <1>7

LEMMA TapDiscardTypes == ASSUME TypeOK, Stays, TapDiscard PROVE TypeOK' /\ Stays'
<1>1. /\ queue' \in Seq(Scripts)
      /\ queue # <<>> => queue' # <<>> /\ Head(queue') = Head(queue)
  BY DiscardSends
<1>2. QueueType' BY <1>1, TypeParts DEF TapDiscard, QueueType, link, memory
<1>3. WireType' BY <1>1, TypeParts DEF TapDiscard, WireType, link, memory
<1>4. RdType' BY <1>1, TypeParts DEF TapDiscard, RdType, link, memory
<1>5. FlagType' BY <1>1, TypeParts DEF TapDiscard, FlagType, link, memory
<1>6. CountType' BY <1>1, TypeParts DEF TapDiscard, CountType, Stages, link, memory
<1>7. Stays'
  BY <1>1, TypeParts DEF TapDiscard, Stays, FlagType, CountType, link, memory
<1> QED BY <1>2, <1>3, <1>4, <1>5, <1>6, <1>7, TypePartsNext

LEMMA TapStartTypes == ASSUME TypeOK, Stays, TapStart PROVE TypeOK' /\ Stays'
<1>1. /\ queue' \in Seq(Scripts)
      /\ queue # <<>> => queue' # <<>> /\ Head(queue') = Head(queue)
  BY ScriptTyped, SentOne DEF TapStart, Names
<1>2. QueueType' BY <1>1, TypeParts DEF TapStart, QueueType, link, memory
<1>3. WireType' BY <1>1, TypeParts DEF TapStart, WireType, link, memory
<1>4. RdType' BY <1>1, TypeParts DEF TapStart, RdType, link, memory
<1>5. FlagType' BY <1>1, TypeParts DEF TapStart, FlagType, link, memory
<1>6. CountType'
  BY <1>1, TypeParts, EstepsAssumption DEF TapStart, CountType, Stages,
    EstepsAssumption, link, memory
<1>7. Stays'
  BY <1>1, TypeParts DEF TapStart, Stays, FlagType, CountType, link, memory
<1> QED BY <1>2, <1>3, <1>4, <1>5, <1>6, <1>7, TypePartsNext

LEMMA TapExtrudeTypes == ASSUME TypeOK, Stays, TapExtrude PROVE TypeOK' /\ Stays'
<1>1. /\ queue' \in Seq(Scripts)
      /\ queue # <<>> => queue' # <<>> /\ Head(queue') = Head(queue)
  BY ScriptTyped, SentOne DEF TapExtrude, Names
<1>2. QueueType' BY <1>1, TypeParts DEF TapExtrude, QueueType, link, memory, history
<1>3. WireType' BY <1>1, TypeParts DEF TapExtrude, WireType, link, memory, history
<1>4. RdType' BY <1>1, TypeParts DEF TapExtrude, RdType, link, memory, history
<1>5. FlagType' BY <1>1, TypeParts DEF TapExtrude, FlagType, link, memory, history
<1>6. CountType'
  BY <1>1, TypeParts DEF TapExtrude, CountType, Stages, link, memory, history
<1>7. Stays'
  BY <1>1, TypeParts DEF TapExtrude, Stays, FlagType, CountType, link, memory,
    history
<1> QED BY <1>2, <1>3, <1>4, <1>5, <1>6, <1>7, TypePartsNext

LEMMA TapApplyTypes == ASSUME TypeOK, Stays, TapApply PROVE TypeOK' /\ Stays'
<1>1. /\ queue' \in Seq(Scripts)
      /\ queue # <<>> => queue' # <<>> /\ Head(queue') = Head(queue)
  BY ScriptTyped, SentOne DEF TapApply, Names
<1>2. QueueType' BY <1>1, TypeParts DEF TapApply, QueueType, link, memory, history
<1>3. WireType' BY <1>1, TypeParts DEF TapApply, WireType, link, memory, history
<1>4. RdType' BY <1>1, TypeParts DEF TapApply, RdType, link, memory, history
<1>5. FlagType' BY <1>1, TypeParts DEF TapApply, FlagType, link, memory, history
<1>6. CountType'
  BY <1>1, TypeParts DEF TapApply, CountType, Stages, link, memory, history
<1>7. Stays'
  BY <1>1, TypeParts DEF TapApply, Stays, FlagType, CountType, link, memory, history
<1> QED BY <1>2, <1>3, <1>4, <1>5, <1>6, <1>7, TypePartsNext

LEMMA TapCancelTypes == ASSUME TypeOK, Stays, TapCancel PROVE TypeOK' /\ Stays'
<1>1. /\ queue' \in Seq(Scripts)
      /\ queue # <<>> => queue' # <<>> /\ Head(queue') = Head(queue)
  BY ScriptTyped, SentOne DEF TapCancel, Names
<1>2. QueueType' BY <1>1, TypeParts DEF TapCancel, QueueType, link, memory, history
<1>3. WireType' BY <1>1, TypeParts DEF TapCancel, WireType, link, memory, history
<1>4. RdType' BY <1>1, TypeParts DEF TapCancel, RdType, link, memory, history
<1>5. FlagType' BY <1>1, TypeParts DEF TapCancel, FlagType, link, memory, history
<1>6. CountType'
  BY <1>1, TypeParts DEF TapCancel, CountType, Stages, link, memory, history
<1>7. Stays'
  BY <1>1, TypeParts DEF TapCancel, Stays, FlagType, CountType, link, memory,
    history
<1> QED BY <1>2, <1>3, <1>4, <1>5, <1>6, <1>7, TypePartsNext

LEMMA ShutdownTypes == ASSUME TypeOK, Stays, Shutdown PROVE TypeOK' /\ Stays'
<1>1. QueueType' BY DEF Shutdown, QueueType
<1>2. WireType' BY TypeParts DEF Shutdown, WireType, link
<1>3. RdType' BY TypeParts DEF Shutdown, RdType, panel, memory
<1>4. FlagType' BY TypeParts DEF Shutdown, FlagType, link, panel, memory
<1>5. CountType' BY TypeParts DEF Shutdown, CountType, Stages, link, panel
<1>6. Stays' BY TypeParts DEF Shutdown, Stays, FlagType, link, panel, memory
<1> QED BY <1>1, <1>2, <1>3, <1>4, <1>5, <1>6, TypePartsNext

LEMMA RestartTypes == ASSUME TypeOK, Stays, Restart PROVE TypeOK' /\ Stays'
<1>1. QueueType' BY TypeParts DEF Restart, QueueType
<1>2. WireType' BY TypeParts DEF Restart, WireType, link
<1>3. RdType' BY TypeParts DEF Restart, RdType, panel, memory, history
<1>4. FlagType' BY TypeParts DEF Restart, FlagType, link, panel, memory, history
<1>5. CountType' BY TypeParts DEF Restart, CountType, Stages, link, panel, history
<1>6. Stays' BY TypeParts DEF Restart, Stays, FlagType, link, panel, memory, history
<1> QED BY <1>1, <1>2, <1>3, <1>4, <1>5, <1>6, TypePartsNext

LEMMA UnchangedTypes == ASSUME TypeOK, Stays, UNCHANGED vars PROVE TypeOK' /\ Stays'
BY DEF TypeOK, Stays, vars

-----------------------------------------------------------------------------
(* A Klipper in shutdown has nothing to run and heats nothing: it refuses  *)
(* every script until it is restarted.                                     *)
Down == ~ready => queue = <<>> /\ ~heater /\ ~timer

LEMMA MacrosDown == ASSUME Down, Macros PROVE Down'
<1>1. queue # <<>>
  BY DEF Macros, Calibrate, Extrude, Cancel, Apply, SetOrCool, Runs
<1>2. ready' = ready BY DEF Macros, Calibrate, Extrude, Cancel, Apply, SetOrCool
<1> QED BY <1>1, <1>2 DEF Down

LEMMA TapsDown == ASSUME Down, Taps PROVE Down'
<1> SUFFICES ASSUME ~ready' PROVE queue' = <<>> /\ ~heater' /\ ~timer' BY DEF Down
<1>1. ready' = ready /\ heater' = heater /\ timer' = timer
  BY DEF Taps, Foreground, TapBack, TapDone, TapDiscard, TapStart, TapExtrude,
         TapApply, TapCancel, klipper
<1>2. (\E scripts : Sent(scripts)) \/ queue' = queue
  BY DEF Taps, Foreground, TapBack, TapDone, TapDiscard, TapStart, TapExtrude,
         TapApply, TapCancel, klipper
<1>3. queue' = queue BY <1>1, <1>2 DEF Sent
<1> QED BY <1>1, <1>3 DEF Down

LEMMA NextDown == ASSUME Down, [Next]_vars PROVE Down'
<1>1. CASE Macros BY <1>1, MacrosDown
<1>2. CASE Timeout BY <1>2 DEF Timeout, Down
<1>3. CASE Shutdown BY <1>3 DEF Shutdown, Down
<1>4. CASE Restart BY <1>4 DEF Restart, Down
<1>5. CASE UNCHANGED klipper BY <1>5 DEF klipper, Down
<1>6. CASE Taps BY <1>6, TapsDown
<1>7. Drop \/ Reconnect \/ Hear => UNCHANGED klipper
  BY DEF Drop, Reconnect, Hear, HearProgress, Hears, HearCancelled, HearApplied
<1>8. UNCHANGED vars => UNCHANGED klipper BY DEF vars, klipper
<1> QED BY <1>1, <1>2, <1>3, <1>4, <1>5, <1>6, <1>7, <1>8 DEF Next

-----------------------------------------------------------------------------
(* The heat *)

Alone   == ~overlapped /\ drops = 0
Begins  == Queued("calibrate") \/ Told("ready")
Cools   == Queued("cancel") \/ Queued("timeout") \/ Queued("cool")
Watched == front /\ stage \in {"EXTRUDING", "MEASURE", "RESULT"}

(* A run begins with nothing else under way, and is ready once. *)
Order ==
  /\ FirstOnly(queue) /\ OneReady(wire)
  /\ Queued("calibrate") => ~Told("ready")
  /\ Begins => /\ stage \in {"HEATING", "INTRO"}
               /\ ~Queued("extrude") /\ ~Queued("apply")
               /\ ~Told("progress") /\ ~Told("done") /\ ~Told("applied")

(* A hot nozzle has the timer, a script that cools it or its screen, while *)
(* a run that is ready has not been heard of, while a script that disarms  *)
(* the timer waits, and after that; a run that was cancelled is cold.      *)
Heat ==
  /\ Told("cancelled") => ~heater /\ ~Queued("calibrate")
  /\ heater /\ Told("ready") => timer \/ Cools
  /\ heater /\ Queued("extrude") => Watched \/ Cools
  /\ heater => timer \/ Cools \/ Watched \/ Queued("calibrate")

HeatInv == Alone => Order /\ Heat

LEMMA InitHeat == Init => HeatInv
<1> SUFFICES ASSUME Init PROVE HeatInv OBVIOUS
<1>1. queue = <<>> /\ wire = <<>> /\ heater = FALSE BY DEF Init
<1>2. DOMAIN queue = {} /\ DOMAIN wire = {} BY <1>1, EmptyAt
<1> QED BY <1>1, <1>2 DEF HeatInv, Order, Heat, Begins, FirstOnly, OneReady,
                         Queued, Told, Holds, Tells

LEMMA HeatUntouched ==
  ASSUME HeatInv, UNCHANGED <<queue, wire, timer, heater, front, stage>>,
         UNCHANGED <<drops, overlapped>>
  PROVE  HeatInv'
BY DEF HeatInv, Alone, Order, Heat, Begins, Cools, Watched, Queued, Told

(* A shutdown leaves everything cold, and no script of the run.            *)
LEMMA ShutdownHeat == ASSUME HeatInv, Shutdown PROVE HeatInv'
<1> SUFFICES ASSUME Alone' PROVE Order' /\ Heat' BY DEF HeatInv
<1>1. /\ queue' = <<>> /\ heater' = FALSE /\ wire' = wire /\ stage' = stage
      /\ Order /\ Heat
  BY DEF Shutdown, link, panel, Alone, HeatInv
<1>2. FirstOnly(queue') /\ \A n : ~Holds(queue', n)
  BY <1>1, EmptyAt DEF FirstOnly, Holds
<1> QED BY <1>1, <1>2 DEF Order, Heat, Begins, Queued, Told

LEMMA CalibrateHeat == ASSUME TypeOK, Stays, HeatInv, Calibrate PROVE HeatInv'
<1> SUFFICES ASSUME Alone' PROVE Order' /\ Heat' BY DEF HeatInv
<1>1. /\ queue # <<>> /\ Head(queue).name = "calibrate"
      /\ front' = front /\ stage' = stage /\ Alone /\ Order /\ Heat
  BY RunsHead DEF Calibrate, panel, history, Alone, HeatInv
<1>2. CASE phase = "start"
  <2>1. queue' = queue /\ heater' = TRUE /\ timer' = timer /\ Respond("heating")
    BY <1>2 DEF Calibrate
  <2>2. /\ \A k : Tells(wire', k) => Told(k) \/ k = "heating"
        /\ OneReady(wire')
    BY <1>1, <2>1, RespondJoins, JoinsTells DEF Kinds, Order
  <2>3. Queued("calibrate") BY <1>1, FinishTakes, TailScripts DEF TypeOK, Queued
  <2> QED
    BY <1>1, <2>1, <2>2, <2>3 DEF Order, Heat, Begins, Cools, Watched, Queued, Told
<1>3. CASE phase = "wait"
  <2>1. /\ queue' = Tail(queue) /\ heater' = heater /\ timer' = TRUE /\ Respond("ready")
    BY <1>3 DEF Calibrate, Finish
  <2>2. /\ \A n : Queued(n) <=> "calibrate" = n \/ Holds(queue', n)
        /\ FirstOnly(queue') /\ ~Holds(queue', "calibrate")
    BY <1>1, <2>1, FinishTakes DEF Order
  <2>3. ~Told("ready") BY <1>1, <2>2 DEF Order
  <2>4. /\ \A k : Tells(wire', k) => Told(k) \/ k = "ready"
        /\ OneReady(wire')
    BY <1>1, <2>1, <2>3, RespondJoins, JoinsTells DEF Kinds, Order
  <2> QED
    BY <1>1, <2>1, <2>2, <2>4 DEF Order, Heat, Begins, Cools, Watched, Queued, Told
<1> QED BY <1>2, <1>3 DEF Calibrate

LEMMA ExtrudeHeat == ASSUME TypeOK, Stays, HeatInv, Extrude PROVE HeatInv'
<1> SUFFICES ASSUME Alone' PROVE Order' /\ Heat' BY DEF HeatInv
<1>1. /\ queue # <<>> /\ Head(queue).name = "extrude" /\ heater' = heater
      /\ front' = front /\ stage' = stage /\ Alone /\ Order /\ Heat
  BY RunsHead DEF Extrude, panel, history, Alone, HeatInv
<1>2. Queued("extrude") BY <1>1, TailScripts DEF TypeOK, Queued
<1>3. ~Queued("calibrate") /\ ~Told("ready") BY <1>1, <1>2 DEF Order, Begins
<1>4. \E kind \in {"progress", "done", "error"} : Respond(kind) BY DEF Extrude
<1>5. /\ \A k : Tells(wire', k) => Told(k) \/ k \in {"progress", "done", "error"}
      /\ OneReady(wire')
  BY <1>1, <1>4, RespondJoins, JoinsTells DEF Kinds, Order
<1>6. CASE phase = "start"
  <2>1. queue' = queue /\ timer' = FALSE BY <1>6 DEF Extrude
  <2> QED BY <1>1, <1>2, <1>3, <1>5, <2>1
          DEF Order, Heat, Begins, Cools, Watched, Queued, Told
<1>7. CASE phase = "wait"
  <2>1. queue' = Tail(queue) /\ timer' = timer BY <1>7 DEF Extrude, Finish
  <2>2. /\ \A n : Queued(n) <=> "extrude" = n \/ Holds(queue', n)
        /\ FirstOnly(queue')
    BY <1>1, <2>1, FinishTakes DEF Order
  <2> QED BY <1>1, <1>2, <1>3, <1>5, <2>1, <2>2
          DEF Order, Heat, Begins, Cools, Watched, Queued, Told
<1> QED BY <1>6, <1>7 DEF Extrude

LEMMA CancelHeat == ASSUME TypeOK, Stays, HeatInv, Cancel PROVE HeatInv'
<1> SUFFICES ASSUME Alone' PROVE Order' /\ Heat' BY DEF HeatInv
<1>1. /\ queue # <<>> /\ Head(queue).name # "calibrate" /\ heater' = FALSE
      /\ queue' = Tail(queue) /\ Respond("cancelled")
      /\ front' = front /\ stage' = stage /\ Alone /\ Order /\ Heat
  BY RunsHead DEF Cancel, Finish, panel, history, Alone, HeatInv
<1>2. /\ \A n : Queued(n) <=> Head(queue).name = n \/ Holds(queue', n)
      /\ FirstOnly(queue') /\ ~Holds(queue', "calibrate")
  BY <1>1, FinishTakes DEF Order
<1>3. /\ \A k : Tells(wire', k) => Told(k) \/ k = "cancelled"
      /\ OneReady(wire')
  BY <1>1, RespondJoins, JoinsTells DEF Kinds, Order
<1> QED BY <1>1, <1>2, <1>3 DEF Order, Heat, Begins, Queued, Told

LEMMA TimeoutHeat == ASSUME TypeOK, Stays, HeatInv, Timeout PROVE HeatInv'
<1> SUFFICES ASSUME Alone' PROVE Order' /\ Heat' BY DEF HeatInv
<1>1. /\ queue' = Append(queue, [name |-> "timeout", rd |-> 0])
      /\ heater' = heater /\ wire' = wire
      /\ front' = front /\ stage' = stage /\ Alone /\ Order /\ Heat
  BY DEF Timeout, link, panel, history, Alone, HeatInv
<1>2. [name |-> "timeout", rd |-> 0] \in Scripts
  BY EstepsAssumption DEF Scripts, Rds, EstepsAssumption
<1>3. /\ \A n : Holds(queue', n) <=> Queued(n) \/ n = "timeout"
      /\ FirstOnly(queue')
  BY <1>1, <1>2, AppendScripts DEF TypeOK, Order, Queued
<1> QED BY <1>1, <1>3 DEF Order, Heat, Begins, Cools, Watched, Queued, Told

(* A correction asks for nothing that heats or cools. *)
LEMMA ApplyHeat == ASSUME TypeOK, Stays, HeatInv, Apply PROVE HeatInv'
<1> SUFFICES ASSUME Alone' PROVE Order' /\ Heat' BY DEF HeatInv
<1>1. /\ queue # <<>> /\ Head(queue).name = "apply"
      /\ queue' = Tail(queue) /\ heater' = heater /\ timer' = timer
      /\ front' = front /\ stage' = stage /\ Alone /\ Order /\ Heat
  BY RunsHead DEF Apply, Finish, panel, Alone, HeatInv
<1>2. /\ \A n : Queued(n) <=> "apply" = n \/ Holds(queue', n)
      /\ FirstOnly(queue')
  BY <1>1, FinishTakes DEF Order
<1>3. ~Queued("calibrate") /\ ~Told("ready") BY <1>1, <1>2 DEF Order, Begins
<1>4. \E e \in Markers : (e.kind = "error" \/ e.kind = "applied") /\ Joins(e)
  <2>1. CASE Respond("error") BY <2>1, RespondJoins DEF Kinds
  <2>2. CASE ~Respond("error")
    <3>1. PICK new \in Rds :
            wire' = IF connected
                    THEN Append(wire, [kind |-> "applied", old |-> rd, new |-> new])
                    ELSE wire
      BY <2>2 DEF Apply
    <3>2. [kind |-> "applied", old |-> rd, new |-> new] \in Markers
      BY DEF Markers, TypeOK
    <3> QED BY <3>1, <3>2 DEF Joins
  <2> QED BY <2>1, <2>2
<1>5. /\ \A k : Tells(wire', k) => Told(k) \/ k = "error" \/ k = "applied"
      /\ OneReady(wire')
  BY <1>1, <1>4, JoinsTells DEF Order
<1> QED
  BY <1>1, <1>2, <1>3, <1>5 DEF Order, Heat, Begins, Cools, Watched, Queued, Told

LEMMA SetOrCoolHeat == ASSUME TypeOK, Stays, HeatInv, SetOrCool PROVE HeatInv'
<1> SUFFICES ASSUME Alone' PROVE Order' /\ Heat' BY DEF HeatInv
<1>1. /\ queue # <<>> /\ Head(queue).name \in {"set", "cool"}
      /\ heater' => heater /\ Head(queue).name = "set"
      /\ queue' = Tail(queue) /\ timer' = timer /\ wire' = wire
      /\ front' = front /\ stage' = stage /\ Alone /\ Order /\ Heat
  BY RunsHead DEF SetOrCool, Runs, Finish, link, panel, history, Alone, HeatInv
<1>2. /\ \A n : Queued(n) <=> Head(queue).name = n \/ Holds(queue', n)
      /\ FirstOnly(queue')
  BY <1>1, FinishTakes DEF Order
<1> QED BY <1>1, <1>2 DEF Order, Heat, Begins, Cools, Watched, Queued, Told

LEMMA HearHeat == ASSUME TypeOK, Stays, HeatInv, Hear PROVE HeatInv'
<1> SUFFICES ASSUME Alone' PROVE Order' /\ Heat' BY DEF HeatInv
<1>1. /\ queue' = queue /\ timer' = timer /\ heater' = heater
      /\ front' = front /\ Alone /\ Order /\ Heat
  BY DEF Hear, HearProgress, Hears, HearCancelled, HearApplied, klipper, history,
    Alone,
         HeatInv
<1>2. ASSUME NEW kind, Received(kind),
             \/ stage' = stage
             \/ active /\ kind = "ready" /\ stage' = "MARK"
             \/ active /\ kind = "progress" /\ stage' = "EXTRUDING"
             \/ active /\ kind = "done" /\ stage' = "MEASURE"
             \/ kind = "cancelled" /\ stage' = "INTRO"
             \/ active /\ kind = "applied" /\ stage' = "RESULT"
      PROVE  Order' /\ Heat'
  <2>1. /\ \A k : Told(k) <=> kind = k \/ Tells(wire', k)
        /\ OneReady(wire')
        /\ kind = "ready" => ~Tells(wire', "ready")
    BY <1>1, <1>2, HearTakes DEF Order
  <2>2. Told(kind) BY <2>1
  <2>3. active => front BY DEF Stays
  <2>4. Order'
    BY <1>1, <1>2, <2>1, <2>2 DEF Order, Begins, Queued, Told
  <2>5. Heat'
    BY <1>1, <1>2, <2>1, <2>2, <2>3
       DEF Order, Heat, Begins, Cools, Watched, Queued, Told
  <2> QED BY <2>4, <2>5
<1>3. CASE HearProgress BY <1>2, <1>3 DEF HearProgress, Hears
<1>4. CASE HearCancelled BY <1>2, <1>4 DEF HearCancelled
<1>5. CASE HearApplied BY <1>2, <1>5 DEF HearApplied
<1> QED BY <1>3, <1>4, <1>5 DEF Hear

LEMMA ForegroundHeat == ASSUME TypeOK, Stays, HeatInv, Foreground PROVE HeatInv'
<1> SUFFICES ASSUME Alone' PROVE Order' /\ Heat' BY DEF HeatInv
<1>1. /\ queue' = queue /\ timer' = timer /\ heater' = heater /\ wire' = wire
      /\ ~front /\ stage' = "INTRO" /\ Alone /\ Order /\ Heat
  BY DEF Foreground, klipper, link, Alone, HeatInv
<1> QED BY <1>1 DEF Order, Heat, Begins, Cools, Watched, Queued, Told

LEMMA TapBackHeat == ASSUME TypeOK, Stays, HeatInv, TapBack PROVE HeatInv'
<1> SUFFICES ASSUME Alone' PROVE Order' /\ Heat' BY DEF HeatInv
<1>1. /\ queue' = queue /\ timer' = timer /\ heater' = heater /\ wire' = wire
      /\ stage = "INTRO" /\ stage' = stage /\ Alone /\ Order /\ Heat
  BY DEF TapBack, klipper, link, history, Alone, HeatInv
<1> QED BY <1>1 DEF Order, Heat, Begins, Cools, Watched, Queued, Told

(* What is sent from the RESULT screen cools, so nobody need watch.        *)
LEMMA LeaveHeat ==
  ASSUME TypeOK, Stays, Down, HeatInv, TapDone \/ TapDiscard
  PROVE  HeatInv'
<1> SUFFICES ASSUME Alone' PROVE Order' /\ Heat' BY DEF HeatInv
<1>1. /\ timer' = timer /\ heater' = heater /\ wire' = wire
      /\ stage = "RESULT" /\ stage' = stage /\ Alone /\ Order /\ Heat
  BY DEF TapDone, TapDiscard, link, history, Alone, HeatInv
<1>2. connected BY <1>1 DEF Stays, Alone
<1>3. ~Queued("calibrate") /\ ~Told("ready") BY <1>1 DEF Order, Begins
<1>4. /\ \A n : Queued(n) => Holds(queue', n)
      /\ \A n : Holds(queue', n) => Queued(n) \/ n = "set" \/ n = "cool"
      /\ heater => Holds(queue', "cool")
      /\ FirstOnly(queue')
  <2>1. CASE TapDone
    BY <1>1, <1>2, <2>1, ScriptTyped, SentOne DEF TapDone, Names, Order, Down
  <2>2. CASE TapDiscard BY <1>1, <1>2, <2>2, DiscardSends DEF Order, Down
  <2> QED BY <2>1, <2>2
<1> QED BY <1>1, <1>3, <1>4 DEF Order, Heat, Begins, Cools, Watched, Queued, Told

LEMMA TapStartHeat == ASSUME TypeOK, Stays, Down, HeatInv, TapStart PROVE HeatInv'
<1> SUFFICES ASSUME Alone' PROVE Order' /\ Heat' BY DEF HeatInv
<1>1. /\ timer' = timer /\ heater' = heater /\ wire' = wire
      /\ stage' = "HEATING" /\ Alone /\ Order /\ Heat /\ Quiet
      /\ Sent(<<Script("calibrate")>>)
  BY DEF TapStart, link, Alone, HeatInv
<1>2. connected BY <1>1 DEF Stays, Alone
<1>3. queue = <<>> /\ wire = <<>> BY <1>1 DEF Quiet
<1>4. (\A n : ~Queued(n)) /\ \A k : ~Told(k)
  BY <1>3, EmptyAt DEF Queued, Told, Holds, Tells
<1>5. /\ \A n : Holds(queue', n) => n = "calibrate"
      /\ heater => Holds(queue', "calibrate")
      /\ FirstOnly(queue')
  BY <1>1, <1>2, <1>3, <1>4, ScriptTyped, SentOne DEF Names, Order, Down
<1> QED BY <1>1, <1>4, <1>5 DEF Order, Heat, Begins, Cools, Watched, Queued, Told

LEMMA TapExtrudeHeat == ASSUME TypeOK, Stays, HeatInv, TapExtrude PROVE HeatInv'
<1> SUFFICES ASSUME Alone' PROVE Order' /\ Heat' BY DEF HeatInv
<1>1. /\ timer' = timer /\ heater' = heater /\ wire' = wire
      /\ front /\ front' = front /\ stage = "MARK" /\ stage' = "EXTRUDING"
      /\ Alone /\ Order /\ Heat /\ Sent(<<Script("extrude")>>)
  BY DEF TapExtrude, link, history, Alone, HeatInv
<1>2. ~Queued("calibrate") /\ ~Told("ready") BY <1>1 DEF Order, Begins
<1>3. /\ \A n : Queued(n) => Holds(queue', n)
      /\ \A n : Holds(queue', n) => Queued(n) \/ n = "extrude"
      /\ FirstOnly(queue')
  BY <1>1, ScriptTyped, SentOne DEF Names, Order
<1> QED BY <1>1, <1>2, <1>3 DEF Order, Heat, Begins, Cools, Watched, Queued, Told

LEMMA TapApplyHeat == ASSUME TypeOK, Stays, HeatInv, TapApply PROVE HeatInv'
<1> SUFFICES ASSUME Alone' PROVE Order' /\ Heat' BY DEF HeatInv
<1>1. /\ timer' = timer /\ heater' = heater /\ wire' = wire
      /\ front' = front /\ stage = "MEASURE" /\ stage' = stage
      /\ Alone /\ Order /\ Heat /\ Sent(<<Script("apply")>>)
  BY DEF TapApply, link, history, Alone, HeatInv
<1>2. ~Queued("calibrate") /\ ~Told("ready") BY <1>1 DEF Order, Begins
<1>3. /\ \A n : Queued(n) => Holds(queue', n)
      /\ \A n : Holds(queue', n) => Queued(n) \/ n = "apply"
      /\ FirstOnly(queue')
  BY <1>1, ScriptTyped, SentOne DEF Names, Order
<1> QED BY <1>1, <1>2, <1>3 DEF Order, Heat, Begins, Cools, Watched, Queued, Told

LEMMA TapCancelHeat == ASSUME TypeOK, Stays, Down, HeatInv, TapCancel PROVE HeatInv'
<1> SUFFICES ASSUME Alone' PROVE Order' /\ Heat' BY DEF HeatInv
<1>1. /\ timer' = timer /\ heater' = heater /\ wire' = wire /\ stage' = "INTRO"
      /\ Alone /\ Order /\ Heat /\ Sent(<<Script("cancel")>>)
  BY DEF TapCancel, link, history, Alone, HeatInv
<1>2. connected BY <1>1 DEF Stays, Alone
<1>3. /\ \A n : Queued(n) => Holds(queue', n)
      /\ \A n : Holds(queue', n) => Queued(n) \/ n = "cancel"
      /\ heater => Holds(queue', "cancel")
      /\ FirstOnly(queue')
  BY <1>1, <1>2, ScriptTyped, SentOne DEF Names, Order, Down
<1> QED BY <1>1, <1>3 DEF Order, Heat, Begins, Cools, Watched, Queued, Told

-----------------------------------------------------------------------------
(* The corrections *)

(* On the screen: corrections still under way account for what the panel   *)
(* does not know yet, from the value the visit began with to the present.  *)
Shown == front =>
  /\ ~Queued("set") /\ LastNew(wire, rd)
  /\ haveOriginal => originalRd = origin /\ (Told("applied") \/ shownRd = rd)
  /\ ~haveOriginal => FirstOld(wire, origin) /\ (Told("applied") \/ rd = origin)

(* After Discard: the way back is still queued, or was the last change.    *)
Back == discarded =>
  \/ SetsLast(queue, origin)
  \/ rd = origin /\ ~Queued("apply") /\ ~Queued("set")

RdInv == ~unheard /\ drops = 0 => Shown /\ Back

LEMMA InitRd == Init => RdInv
<1> SUFFICES ASSUME Init PROVE RdInv OBVIOUS
<1>1. front = FALSE /\ discarded = FALSE BY DEF Init
<1> QED BY <1>1 DEF RdInv, Shown, Back

LEMMA RdUntouched ==
  ASSUME RdInv, UNCHANGED <<queue, wire, rd, front, haveOriginal, originalRd, shownRd>>,
         UNCHANGED <<drops, origin, discarded, unheard>>
  PROVE  RdInv'
BY DEF RdInv, Shown, Back, Queued, Told

(* A macro that ends, answers or does neither, and changes no value.       *)
LEMMA MacroRd ==
  ASSUME TypeOK, RdInv, rd' = rd, UNCHANGED <<panel, drops>>,
         UNCHANGED <<origin, discarded, unheard>>,
         wire' = wire \/ \E e \in Markers : e.kind # "applied" /\ Joins(e),
         \/ queue' = queue
         \/ queue # <<>> /\ Head(queue).name # "set" /\ queue' = Tail(queue)
  PROVE  RdInv'
<1> SUFFICES ASSUME ~unheard', drops' = 0 PROVE Shown' /\ Back' BY DEF RdInv
<1>1. Shown /\ Back BY DEF RdInv
<1>2. /\ \A r : LastNew(wire, r) => LastNew(wire', r)
      /\ \A r : FirstOld(wire, r) => FirstOld(wire', r)
      /\ Told("applied") <=> Tells(wire', "applied")
  <2>1. CASE wire' = wire BY <2>1 DEF Told
  <2>2. CASE wire' # wire
    <3>1. PICK e \in Markers : e.kind # "applied" /\ Joins(e) BY <2>2
    <3> QED BY <3>1, JoinsTells, JoinsCorrections
  <2> QED BY <2>1, <2>2
<1>3. /\ \A n : Holds(queue', n) => Queued(n)
      /\ \A r : SetsLast(queue, r) => SetsLast(queue', r)
  <2>1. CASE queue' = queue BY <2>1 DEF Queued
  <2>2. CASE queue' # queue BY <2>2, TailScripts, TailSetsLast DEF TypeOK, Queued
  <2> QED BY <2>1, <2>2
<1> QED BY <1>1, <1>2, <1>3 DEF Shown, Back, Queued, Told, panel, memory

LEMMA CalibrateRd == ASSUME TypeOK, RdInv, Calibrate PROVE RdInv'
<1>1. \E e \in Markers : e.kind # "applied" /\ Joins(e)
  BY RespondJoins DEF Calibrate, Kinds
<1>2. queue' = queue \/ (queue # <<>> /\ Head(queue).name # "set" /\ queue' = Tail(queue))
  BY RunsHead DEF Calibrate, Finish
<1> QED BY <1>1, <1>2, MacroRd DEF Calibrate, history

LEMMA ExtrudeRd == ASSUME TypeOK, RdInv, Extrude PROVE RdInv'
<1>1. \E e \in Markers : e.kind # "applied" /\ Joins(e)
  BY RespondJoins DEF Extrude, Kinds
<1>2. queue' = queue \/ (queue # <<>> /\ Head(queue).name # "set" /\ queue' = Tail(queue))
  BY RunsHead DEF Extrude, Finish
<1> QED BY <1>1, <1>2, MacroRd DEF Extrude, history

LEMMA CancelRd == ASSUME TypeOK, RdInv, Cancel PROVE RdInv'
<1>1. \E e \in Markers : e.kind # "applied" /\ Joins(e)
  BY RespondJoins DEF Cancel, Kinds
<1>2. queue # <<>> /\ Head(queue).name # "set" /\ queue' = Tail(queue)
  BY RunsHead DEF Cancel, Finish
<1> QED BY <1>1, <1>2, MacroRd DEF Cancel, history

LEMMA TimeoutRd == ASSUME TypeOK, RdInv, Timeout PROVE RdInv'
<1>1. [name |-> "timeout", rd |-> 0] \in Scripts
  BY EstepsAssumption DEF Scripts, Rds, EstepsAssumption
<1>2. /\ \A n : Holds(queue', n) <=> Queued(n) \/ n = "timeout"
      /\ \A r : SetsLast(queue, r) => SetsLast(queue', r)
  BY <1>1, AppendScripts, AppendSetsLast DEF TypeOK, Timeout, Queued
<1>3. /\ UNCHANGED <<wire, rd, front, haveOriginal, originalRd, shownRd>>
      /\ UNCHANGED <<drops, origin, discarded, unheard>>
  BY DEF Timeout, link, panel, memory, history
<1> QED BY <1>2, <1>3 DEF RdInv, Shown, Back, Queued, Told

LEMMA ApplyRd == ASSUME TypeOK, Stays, RdInv, Apply PROVE RdInv'
<1>1. queue # <<>> /\ Head(queue).name = "apply" /\ queue' = Tail(queue)
  BY RunsHead DEF Apply, Finish
<1>2. UNCHANGED <<panel, drops>> /\ UNCHANGED <<origin, discarded>> BY DEF Apply
<1>3. CASE Respond("error") /\ UNCHANGED <<rd, unheard>>
  <2>1. \E e \in Markers : e.kind # "applied" /\ Joins(e)
    BY <1>3, RespondJoins DEF Kinds
  <2> QED BY <1>1, <1>2, <1>3, <2>1, MacroRd
<1>4. CASE ~(Respond("error") /\ UNCHANGED <<rd, unheard>>)
  <2> SUFFICES ASSUME ~unheard', drops' = 0 PROVE Shown' /\ Back' BY DEF RdInv
  <2>1. PICK new \in {rd, rd + 1} \cap Rds :
          /\ rd' = new
          /\ wire' = IF connected
                     THEN Append(wire, [kind |-> "applied", old |-> rd, new |-> new])
                     ELSE wire
          /\ unheard' = (unheard \/ ~connected)
    BY <1>4, Zenon DEF Apply
  <2> DEFINE e == [kind |-> "applied", old |-> rd, new |-> new]
  <2>2. e \in Markers /\ e.kind = "applied" /\ e.old = rd /\ e.new = rd' /\ Joins(e)
    BY <2>1 DEF Markers, TypeOK, Joins
  <2> HIDE DEF e
  <2>3. ~unheard /\ connected /\ Shown /\ Back BY <1>2, <2>1 DEF RdInv
  <2>4. /\ LastNew(wire', rd') /\ Tells(wire', "applied")
        /\ \A r : FirstOld(wire, r) /\ (Told("applied") \/ rd = r) => FirstOld(wire', r)
    BY <2>2, <2>3, JoinsTells, JoinsCorrections
  <2>5. /\ Queued("apply")
        /\ \A n : Holds(queue', n) => Queued(n)
        /\ \A r : SetsLast(queue, r) => SetsLast(queue', r)
    BY <1>1, TailScripts, TailSetsLast DEF TypeOK, Queued
  <2> QED BY <1>2, <2>3, <2>4, <2>5 DEF Shown, Back, Queued, Told, panel, memory
<1> QED BY <1>3, <1>4

LEMMA SetOrCoolRd == ASSUME TypeOK, Stays, RdInv, SetOrCool PROVE RdInv'
<1>1. /\ queue # <<>> /\ Head(queue).name \in {"set", "cool"} /\ queue' = Tail(queue)
      /\ rd' = IF Head(queue).name = "set" THEN Head(queue).rd ELSE rd
      /\ UNCHANGED <<panel, wire, drops>> /\ UNCHANGED <<origin, discarded, unheard>>
  BY RunsHead DEF SetOrCool, Runs, Finish, link, history
<1>2. CASE Head(queue).name # "set" BY <1>1, <1>2, MacroRd
<1>3. CASE Head(queue).name = "set"
  <2> SUFFICES ASSUME ~unheard', drops' = 0 PROVE Shown' /\ Back' BY DEF RdInv
  <2>1. Shown /\ Back BY <1>1 DEF RdInv
  <2>2. Queued("set") /\ \A n : Holds(queue', n) => Queued(n)
    BY <1>1, <1>3, TailScripts DEF TypeOK, Queued
  <2>3. Shown' BY <1>1, <2>1, <2>2 DEF Shown, panel
  <2>4. ASSUME discarded PROVE SetsLast(queue, origin) BY <2>1, <2>2, <2>4 DEF Back
  <2>5. ASSUME discarded
        PROVE  \/ SetsLast(queue', origin)
               \/ rd' = origin /\ ~Holds(queue', "apply") /\ ~Holds(queue', "set")
    BY <1>1, <1>3, <2>4, <2>5, TailSetsLast DEF TypeOK
  <2>6. Back' BY <1>1, <2>5 DEF Back, Queued
  <2> QED BY <2>3, <2>6
<1> QED BY <1>2, <1>3

LEMMA DropRd == ASSUME TypeOK, RdInv, Drop PROVE RdInv'
<1>1. drops \in Nat /\ drops' = drops + 1 BY EstepsAssumption DEF TypeOK, Drop
<1>2. drops' # 0 BY <1>1
<1> QED BY <1>2 DEF RdInv

(* What waited is gone; a way back that was among it counts no more.       *)
LEMMA ShutdownRd == ASSUME RdInv, Shutdown PROVE RdInv'
<1> SUFFICES ASSUME ~unheard', drops' = 0 PROVE Shown' /\ Back' BY DEF RdInv
<1>1. /\ queue' = <<>> /\ Shown /\ Back
      /\ discarded' => discarded /\ ~Queued("set")
      /\ UNCHANGED <<wire, rd, front, haveOriginal, originalRd, shownRd, origin>>
  BY DEF Shutdown, link, panel, memory, RdInv, Queued, Holds
<1>2. \A n : ~Holds(queue', n) BY <1>1, EmptyAt DEF Holds
<1>3. SetsLast(queue, origin) => Queued("set") BY DEF SetsLast, Queued, Holds
<1> QED BY <1>1, <1>2, <1>3 DEF Shown, Back, Queued, Told

(* Markers of anything but a correction leave the values alone. *)
LEMMA HearOtherRd ==
  ASSUME TypeOK, RdInv, NEW kind, kind # "applied", Received(kind),
         UNCHANGED <<queue, rd, front, haveOriginal, originalRd, shownRd>>,
         UNCHANGED <<drops, origin, discarded, unheard>>
  PROVE  RdInv'
<1>1. /\ wire \in Seq(Markers) /\ wire # <<>> /\ wire' = Tail(wire)
      /\ Head(wire).kind # "applied"
      /\ Told("applied") <=> Tells(wire', "applied")
  BY HearTakes DEF TypeOK
<1>2. /\ \A r : LastNew(wire, r) => LastNew(wire', r)
      /\ \A r : FirstOld(wire, r) => FirstOld(wire', r)
  BY <1>1, TailCorrections
<1> QED BY <1>1, <1>2 DEF RdInv, Shown, Back, Queued, Told

LEMMA HearAppliedRd == ASSUME TypeOK, Stays, RdInv, HearApplied PROVE RdInv'
<1> SUFFICES ASSUME ~unheard', drops' = 0 PROVE Shown' /\ Back' BY DEF RdInv
<1>1. /\ active /\ unheard' = unheard /\ haveOriginal' = TRUE
      /\ originalRd' = (IF haveOriginal THEN originalRd ELSE Head(wire).old)
      /\ shownRd' = Head(wire).new
      /\ UNCHANGED <<queue, rd, front, drops, origin, discarded>>
  BY DEF HearApplied, klipper
<1>2. Shown /\ Back /\ front BY <1>1 DEF RdInv, Stays
<1>3. Back' BY <1>1, <1>2 DEF Back, Queued
<1>4. /\ wire \in Seq(Markers) /\ wire # <<>> /\ wire' = Tail(wire)
      /\ Head(wire).kind = "applied"
  BY HearTakes DEF TypeOK, HearApplied
<1>5. /\ LastNew(wire, rd) => LastNew(wire', rd)
      /\ LastNew(wire, rd) => Tells(wire', "applied") \/ Head(wire).new = rd
      /\ FirstOld(wire, origin) => Head(wire).old = origin
  BY <1>4, TailCorrections
<1>6. Shown' BY <1>1, <1>2, <1>5 DEF Shown, Queued, Told
<1> QED BY <1>3, <1>6

(* A visit begins with nothing of another under way, or says so.           *)
LEMMA ForegroundRd == ASSUME TypeOK, Stays, RdInv, Foreground PROVE RdInv'
<1> SUFFICES ASSUME ~unheard', drops' = 0 PROVE Shown' /\ Back' BY DEF RdInv
<1>1. /\ haveOriginal' = FALSE /\ origin' = rd /\ discarded' = FALSE
      /\ unheard' = \/ \E i \in DOMAIN queue : queue[i].name \in {"apply", "set"}
                    \/ \E i \in DOMAIN wire : wire[i].kind = "applied"
      /\ UNCHANGED <<queue, wire, rd>>
  BY DEF Foreground, klipper, link
<1>2. ~Queued("set") /\ ~Told("applied") BY <1>1 DEF Queued, Told, Holds, Tells
<1>3. LastNew(wire, rd) /\ FirstOld(wire, rd)
  BY <1>2 DEF LastNew, FirstOld, Told, Tells
<1> QED BY <1>1, <1>2, <1>3 DEF Shown, Back, Queued, Told

LEMMA LeaveRd == ASSUME Stays, RdInv, TapBack \/ TapDone PROVE RdInv'
<1>1. front /\ front' = FALSE /\ discarded' = discarded
  BY DEF TapBack, TapDone, history
<1>2. ~discarded BY <1>1 DEF Stays
<1> QED BY <1>1, <1>2 DEF RdInv, Shown, Back

LEMMA TapDiscardRd == ASSUME TypeOK, Stays, RdInv, TapDiscard PROVE RdInv'
<1> SUFFICES ASSUME ~unheard', drops' = 0 PROVE Shown' /\ Back' BY DEF RdInv
<1>1. /\ front /\ stage = "RESULT" /\ front' = FALSE
      /\ origin' = origin /\ drops' = drops /\ unheard' = unheard
  BY DEF TapDiscard, link
<1>2. connected /\ haveOriginal BY <1>1 DEF Stays
<1>3. originalRd = origin BY <1>1, <1>2 DEF RdInv, Shown
<1>4. discarded' => SetsLast(queue', originalRd) BY <1>2, DiscardSends DEF TapDiscard
<1> QED BY <1>1, <1>3, <1>4 DEF Shown, Back

(* A script that sets nothing is sent from the screen. *)
LEMMA TapSendsRd ==
  ASSUME TypeOK, Stays, RdInv, TapStart \/ TapExtrude \/ TapApply \/ TapCancel
  PROVE  RdInv'
<1>1. PICK name \in Names \ {"set"} : Sent(<<Script(name)>>)
  BY DEF TapStart, TapExtrude, TapApply, TapCancel, Names
<1>2. /\ front /\ UNCHANGED <<wire, rd, front, haveOriginal, originalRd, shownRd>>
      /\ UNCHANGED <<drops, origin, discarded, unheard>>
  BY DEF TapStart, TapExtrude, TapApply, TapCancel, link, memory, history
<1>3. ~discarded BY <1>2 DEF Stays
<1>4. Holds(queue', "set") => Queued("set") BY <1>1, ScriptTyped, SentOne
<1> QED BY <1>2, <1>3, <1>4 DEF RdInv, Shown, Back, Queued, Told

-----------------------------------------------------------------------------
(* The theorems *)

IInv == TypeOK /\ Stays /\ Down /\ HeatInv /\ RdInv

LEMMA InitInv == Init => IInv
<1> SUFFICES ASSUME Init PROVE IInv OBVIOUS
<1>1. queue = <<>> /\ wire = <<>> BY DEF Init
<1>2. QueueType /\ WireType BY <1>1 DEF QueueType, WireType, Init
<1>3. FlagType BY DEF FlagType, Init
<1>4. 0 \in Rds /\ 0 \in 0..MaxRuns /\ 0 \in 0..MaxDrops
  BY EstepsAssumption DEF Rds, EstepsAssumption
<1>5. rd = 0 /\ originalRd = 0 /\ shownRd = 0 /\ origin = 0 BY DEF Init
<1>6. RdType BY <1>4, <1>5 DEF RdType
<1>7. CountType BY <1>4 DEF CountType, Init, Stages
<1>8. Stays /\ Down BY DEF Stays, Down, Init
<1> QED BY <1>2, <1>3, <1>6, <1>7, <1>8, TypeParts, InitHeat, InitRd DEF IInv

LEMMA MacrosPreserve == ASSUME IInv, Macros PROVE IInv'
<1> USE DEF IInv
<1>0. Down' BY NextDown DEF Next
<1>1. CASE Calibrate BY <1>0, <1>1, CalibrateTypes, CalibrateHeat, CalibrateRd
<1>2. CASE Extrude BY <1>0, <1>2, ExtrudeTypes, ExtrudeHeat, ExtrudeRd
<1>3. CASE Cancel BY <1>0, <1>3, CancelTypes, CancelHeat, CancelRd
<1>4. CASE Apply BY <1>0, <1>4, ApplyTypes, ApplyHeat, ApplyRd
<1>5. CASE SetOrCool BY <1>0, <1>5, SetOrCoolTypes, SetOrCoolHeat, SetOrCoolRd
<1> QED BY <1>1, <1>2, <1>3, <1>4, <1>5 DEF Macros

LEMMA HearPreserves == ASSUME IInv, Hear PROVE IInv'
<1> USE DEF IInv
<1>0. Down' BY NextDown DEF Next
<1>1. HeatInv' BY HearHeat
<1>2. CASE HearProgress
  <2>1. RdInv'
    BY <1>2, HearOtherRd DEF HearProgress, Hears, klipper, memory, history
  <2> QED BY <1>0, <1>1, <1>2, <2>1, HearProgressTypes
<1>3. CASE HearCancelled
  <2>1. RdInv' BY <1>3, HearOtherRd DEF HearCancelled, klipper, memory, history
  <2> QED BY <1>0, <1>1, <1>3, <2>1, HearCancelledTypes
<1>4. CASE HearApplied BY <1>0, <1>1, <1>4, HearAppliedTypes, HearAppliedRd
<1> QED BY <1>2, <1>3, <1>4 DEF Hear

LEMMA TapsPreserve == ASSUME IInv, Taps PROVE IInv'
<1> USE DEF IInv
<1>0. Down' BY NextDown DEF Next
<1>1. CASE Foreground BY <1>0, <1>1, ForegroundTypes, ForegroundHeat, ForegroundRd
<1>2. CASE TapBack BY <1>0, <1>2, TapBackTypes, TapBackHeat, LeaveRd
<1>3. CASE TapDone BY <1>0, <1>3, TapDoneTypes, LeaveHeat, LeaveRd
<1>4. CASE TapDiscard BY <1>0, <1>4, TapDiscardTypes, LeaveHeat, TapDiscardRd
<1>5. CASE TapStart BY <1>0, <1>5, TapStartTypes, TapStartHeat, TapSendsRd
<1>6. CASE TapExtrude BY <1>0, <1>6, TapExtrudeTypes, TapExtrudeHeat, TapSendsRd
<1>7. CASE TapApply BY <1>0, <1>7, TapApplyTypes, TapApplyHeat, TapSendsRd
<1>8. CASE TapCancel BY <1>0, <1>8, TapCancelTypes, TapCancelHeat, TapSendsRd
<1> QED BY <1>1, <1>2, <1>3, <1>4, <1>5, <1>6, <1>7, <1>8 DEF Taps

LEMMA NextPreserves == ASSUME IInv, [Next]_vars PROVE IInv'
<1> USE DEF IInv
<1>0. Down' BY NextDown DEF Next
<1>1. CASE Macros BY <1>1, MacrosPreserve
<1>2. CASE Timeout BY <1>0, <1>2, TimeoutTypes, TimeoutHeat, TimeoutRd
<1>3. CASE Drop
  <2>1. drops \in Nat /\ drops' = drops + 1
    BY <1>3, EstepsAssumption DEF TypeOK, Drop
  <2>2. HeatInv' BY <2>1 DEF HeatInv, Alone
  <2> QED BY <1>0, <1>3, <2>2, DropTypes, DropRd
<1>4. CASE Reconnect
  <2>1. HeatInv' BY <1>4, HeatUntouched DEF Reconnect, klipper, panel, history
  <2>2. RdInv' BY <1>4, RdUntouched DEF Reconnect, klipper, panel, memory, history
  <2> QED BY <1>0, <1>4, <2>1, <2>2, ReconnectTypes
<1>5. CASE Hear BY <1>5, HearPreserves
<1>6. CASE Taps BY <1>6, TapsPreserve
<1>7. CASE Shutdown BY <1>0, <1>7, ShutdownTypes, ShutdownHeat, ShutdownRd
<1>8. CASE Restart
  <2>1. HeatInv' BY <1>8, HeatUntouched DEF Restart, link, panel, history
  <2>2. RdInv' BY <1>8, RdUntouched DEF Restart, link, panel, memory, history
  <2> QED BY <1>0, <1>8, <2>1, <2>2, RestartTypes
<1>9. CASE UNCHANGED vars
  <2>1. HeatInv' /\ RdInv' BY <1>9, HeatUntouched, RdUntouched DEF vars
  <2> QED BY <1>0, <1>9, <2>1, UnchangedTypes
<1> QED BY <1>1, <1>2, <1>3, <1>4, <1>5, <1>6, <1>7, <1>8, <1>9 DEF Next

LEMMA Invariant == Spec => []IInv
<1>1. IInv /\ [Next]_vars => IInv' BY NextPreserves
<1> QED BY <1>1, InitInv, PTL DEF Spec

(* However often a calibration is cancelled, timed out, discarded or left  *)
(* and begun again, and whatever is still queued or on its way when the    *)
(* next tap comes, the hotend is not left on with nobody to turn it off,   *)
(* unless a run was started over the scripts of another or the connection  *)
(* was lost (esteps_calibration.cfg:26-29).                                *)
THEOREM HotendIsWatched == Spec => []OnlyOverlapLeavesHot
<1>1. IInv => OnlyOverlapLeavesHot
  <2> SUFFICES ASSUME HeatInv, Quiet, heater, ~overlapped, ~(drops > 0), TypeOK
               PROVE  Guarded
    BY DEF IInv, OnlyOverlapLeavesHot
  <2>1. Alone BY EstepsAssumption DEF Alone, TypeOK, EstepsAssumption
  <2>2. \A n : ~Queued(n) BY EmptyAt DEF Quiet, Queued, Holds
  <2> QED BY <2>1, <2>2 DEF HeatInv, Heat, Cools, Watched, Guarded
<1> QED BY <1>1, Invariant, PTL

(* The RESULT screen shows the rotation_distance Klipper has, and Discard  *)
(* brings back the one the visit began with, after any number of           *)
(* corrections, while none of them escaped the panel                       *)
(* (esteps_calibration_panel.cpp:485-515, 581-588).                        *)
THEOREM ResultAndDiscardAreRight == Spec => []RightUnlessUnheard
<1>1. IInv => RightUnlessUnheard
  <2> SUFFICES ASSUME Stays, RdInv, Quiet, ~unheard, drops = 0
               PROVE  /\ front /\ stage = "RESULT" => shownRd = rd
                      /\ discarded /\ ~front => rd = origin
    BY DEF IInv, RightUnlessUnheard
  <2>1. /\ DOMAIN queue = {} /\ DOMAIN wire = {} BY EmptyAt DEF Quiet
  <2>2. ~Told("applied") /\ ~SetsLast(queue, origin)
    BY <2>1 DEF Told, Tells, SetsLast
  <2>3. Shown /\ Back BY DEF RdInv
  <2> QED BY <2>2, <2>3 DEF Shown, Back, Stays
<1> QED BY <1>1, Invariant, PTL

(* The queue, the wire and every field keep to their types.                *)
THEOREM EstepsTypes == Spec => []TypeOK
<1>1. IInv => TypeOK BY DEF IInv
<1> QED BY <1>1, Invariant, PTL
=============================================================================
