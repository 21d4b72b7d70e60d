------------------------- MODULE Connection_proofs -------------------------
(***************************************************************************)
(* Proofs about the two sides of a connection: the JSON-RPC client, for    *)
(* any set of threads and calls and any number of connection losses, and   *)
(* the handshake that follows each onopen.  Of the handshake, for any      *)
(* objects, restarts, connection losses and readings: once a panel that is *)
(* subscribed has heard everything, State is the printer's                 *)
(* (StateIsThePrinters), and the screen tells the truth about it           *)
(* (OnlyRefusalOrOvertakingMisleads).  Both speak of a quiet link; the     *)
(* invariants say of a link that is not which message, or which request,   *)
(* is going to put right what is not right yet.                            *)
(***************************************************************************)
EXTENDS KWebSocketClient, InitPanel, TLAPS

(* The JSON-RPC client *)

InFlight == requests \cup replies
Busy(t)  == pc[t] # "idle"

(* A thread inside send_jsonrpc is sending one call, its own. *)
ThreadInv ==
  /\ \A t \in Threads : Busy(t) => call[t] \in Calls /\ fate[call[t]] = "sending"
  /\ \A t \in Threads : pc[t] \in {"find", "insert"} => call[t] \in WithCallback
  /\ \A t, u \in Threads : t # u /\ Busy(t) /\ Busy(u) =>
       call[t] # call[u] /\ call[t] \in overlapped

(* Ids handed out are below the member, and handed out once. *)
IdInv ==
  /\ \A t \in Threads : pc[t] = "send" => rid[t] \in Nat /\ rid[t] < id
  /\ \A r \in InFlight : r.id < id
  /\ \A t, u \in Threads :
       t # u /\ pc[t] = "send" /\ pc[u] = "send" => rid[t] # rid[u]
  /\ \A t \in Threads, r \in InFlight : pc[t] = "send" => rid[t] # r.id
  /\ DistinctIds

(* What is in flight has been sent. *)
SentInv == \A r \in InFlight : fate[r.call] = "sent"

(* An entry under the id that will be taken next belongs to a thread about *)
(* to take it; an entry under an id already taken belongs to the request   *)
(* that took it, unless sends overlapped.                                  *)
TableInv ==
  /\ \A i \in DOMAIN callbacks :
       /\ i <= id
       /\ i = id => \E t \in Threads : pc[t] = "take" /\ call[t] = callbacks[i]
  /\ \A t \in Threads :
       pc[t] = "send" /\ rid[t] \in DOMAIN callbacks =>
         callbacks[rid[t]] = call[t] \/ callbacks[rid[t]] \in overlapped
  /\ \A r \in InFlight :
       r.id \in DOMAIN callbacks =>
         callbacks[r.id] = r.call \/ callbacks[r.id] \in overlapped

IInv ==
  TypeOK /\ ThreadInv /\ IdInv /\ SentInv /\ TableInv /\ OnlyOverlapMixesUp

-----------------------------------------------------------------------------
(* Every action keeps the invariant. *)

(* The initial state satisfies the invariant. *)
LEMMA InitIInv == Init => IInv
  <1> SUFFICES ASSUME Init PROVE IInv
    OBVIOUS
  <1> USE ThreadsAssumption DEF Init
  <1>1. TypeOK
    <2>1. DOMAIN callbacks = {}
      OBVIOUS
    <2>2. id \in Nat /\ closes \in 0..MaxCloses
      OBVIOUS
    <2> QED BY <2>1, <2>2 DEF TypeOK
  <1>2. ThreadInv /\ TableInv /\ SentInv
    BY DEF ThreadInv, TableInv, SentInv, Busy, InFlight
  <1>3. IdInv /\ OnlyOverlapMixesUp
    BY DEF IdInv, DistinctIds, OnlyOverlapMixesUp, InFlight
  <1> QED BY <1>1, <1>2, <1>3 DEF IInv

(* Entering send_jsonrpc keeps the invariant. *)
LEMMA BeginIInv ==
  ASSUME IInv, NEW t \in Threads, NEW c \in Calls, Begin(t, c)
  PROVE  IInv'
  <1> USE ThreadsAssumption DEF IInv, Begin, table, network
  <1>1. TypeOK'
    BY DEF TypeOK, Others, ThreadInv, Busy
  <1>2. ThreadInv'
    BY DEF TypeOK, Others, ThreadInv, Busy
  <1>3. IdInv'
    BY DEF TypeOK, IdInv, InFlight, DistinctIds
  <1>4. TableInv'
    BY DEF TypeOK, TableInv, InFlight, ThreadInv, Busy
  <1>5. OnlyOverlapMixesUp'
    BY DEF TypeOK, OnlyOverlapMixesUp
  <1>9. SentInv'
    BY DEF TypeOK, SentInv, InFlight, Message
  <1> QED BY <1>1, <1>2, <1>3, <1>4, <1>5, <1>9

(* callbacks.find keeps it: the call it refuses met another thread's entry. *)
LEMMA FindIdIInv ==
  ASSUME IInv, NEW t \in Threads, FindId(t)
  PROVE  IInv'
  <1> USE ThreadsAssumption DEF IInv, FindId, Return, table, network
  <1>0. call[t] \in Calls /\ call[t] \in WithCallback /\ fate[call[t]] = "sending"
    BY DEF ThreadInv, Busy
  <1>1. TypeOK'
    BY <1>0 DEF TypeOK
  <1>2. ThreadInv'
    BY <1>0 DEF TypeOK, ThreadInv, Busy
  <1>3. IdInv'
    BY DEF TypeOK, IdInv, InFlight, DistinctIds
  <1>4. TableInv'
    BY DEF TypeOK, TableInv, InFlight
  <1>5. OnlyOverlapMixesUp'
    <2>1. CASE id \in DOMAIN callbacks
      <3>1. PICK u \in Threads : pc[u] = "take"
        BY <2>1 DEF TableInv
      <3>2. call[t] \in overlapped
        BY <3>1 DEF ThreadInv, Busy
      <3> QED BY <2>1, <3>2, <1>0 DEF TypeOK, OnlyOverlapMixesUp
    <2>2. CASE id \notin DOMAIN callbacks
      BY <2>2 DEF OnlyOverlapMixesUp
    <2> QED BY <2>1, <2>2
  <1>9. SentInv'
    BY <1>0 DEF TypeOK, SentInv, InFlight, Message
  <1> QED BY <1>1, <1>2, <1>3, <1>4, <1>5, <1>9

(* The inserted entry is under the id the inserting thread is about to take. *)
LEMMA InsertCallbackIInv ==
  ASSUME IInv, NEW t \in Threads, InsertCallback(t)
  PROVE  IInv'
  <1> USE ThreadsAssumption DEF IInv, InsertCallback, network, history
  <1>0. /\ call[t] \in Calls /\ call[t] \in WithCallback
        /\ id \in Nat /\ DOMAIN callbacks \subseteq Nat
    BY DEF ThreadInv, Busy, TypeOK
  <1>1. /\ DOMAIN callbacks' = DOMAIN callbacks \cup {id}
        /\ \A i \in DOMAIN callbacks : callbacks'[i] = callbacks[i]
        /\ id \notin DOMAIN callbacks => callbacks'[id] = call[t]
    OBVIOUS
  <1>2. TypeOK'
    BY <1>0, <1>1 DEF TypeOK
  <1>3. ThreadInv' /\ IdInv' /\ OnlyOverlapMixesUp'
    BY <1>0 DEF TypeOK, ThreadInv, IdInv, DistinctIds, OnlyOverlapMixesUp,
            InFlight, Busy
  <1>4. TableInv'
    <2>1. \A i \in DOMAIN callbacks' :
            /\ i <= id
            /\ i = id => \E u \in Threads : pc'[u] = "take" /\ call[u] = callbacks'[i]
      BY <1>0, <1>1 DEF TypeOK, TableInv
    <2>2. \A u \in Threads : pc'[u] = "send" => pc[u] = "send" /\ rid[u] # id
      BY <1>0 DEF TypeOK, IdInv
    <2>3. \A r \in InFlight : r.id # id
      BY <1>0 DEF IdInv, TypeOK, Message
    <2>4. \A u \in Threads :
            pc'[u] = "send" /\ rid[u] \in DOMAIN callbacks' =>
              callbacks'[rid[u]] = call[u] \/ callbacks'[rid[u]] \in overlapped
      BY <1>1, <2>2 DEF TableInv
    <2>5. \A r \in InFlight :
            r.id \in DOMAIN callbacks' =>
              callbacks'[r.id] = r.call \/ callbacks'[r.id] \in overlapped
      <3> SUFFICES ASSUME NEW r \in InFlight, r.id \in DOMAIN callbacks'
                   PROVE  callbacks'[r.id] = r.call \/ callbacks'[r.id] \in overlapped
        OBVIOUS
      <3>1. r.id \in DOMAIN callbacks /\ callbacks'[r.id] = callbacks[r.id]
        BY <1>1, <2>3
      <3> QED BY <3>1 DEF TableInv
    <2>6. /\ InFlight' = InFlight
          /\ id' = id /\ call' = call /\ rid' = rid /\ overlapped' = overlapped
      BY DEF InFlight
    <2> HIDE DEF IInv, InsertCallback, network, history
    <2> QED BY ONLY <2>1, <2>4, <2>5, <2>6 DEF TableInv
  <1>9. SentInv'
    BY DEF TypeOK, SentInv, InFlight, Message
  <1> QED BY <1>2, <1>3, <1>4, <1>9

(* The entry a thread meets under the id it takes is its own or that of a  *)
(* thread still inside send_jsonrpc.                                       *)
LEMMA TakeIdIInv ==
  ASSUME IInv, NEW t \in Threads, TakeId(t)
  PROVE  IInv'
  <1> USE ThreadsAssumption DEF IInv, TakeId, network, history
  <1>0. call[t] \in Calls /\ id \in Nat /\ DOMAIN callbacks \subseteq Nat
    BY DEF ThreadInv, Busy, TypeOK
  <1>1. TypeOK'
    BY <1>0 DEF TypeOK
  <1>2. ThreadInv' /\ OnlyOverlapMixesUp'
    BY <1>0 DEF TypeOK, ThreadInv, OnlyOverlapMixesUp, Busy
  <1>3. IdInv'
    <2>1. \A r \in InFlight : r.id \in Nat
      BY DEF InFlight, TypeOK, Message
    <2> QED BY <1>0, <2>1 DEF TypeOK, IdInv, DistinctIds, InFlight
  <1>4. TableInv'
    <2>1. \A i \in DOMAIN callbacks : i <= id' /\ i # id'
      BY <1>0 DEF TableInv
    <2>2. id \in DOMAIN callbacks =>
            callbacks[id] = call[t] \/ callbacks[id] \in overlapped
      BY DEF TableInv, ThreadInv, Busy
    <2>3. \A u \in Threads :
            pc'[u] = "send" /\ rid'[u] \in DOMAIN callbacks =>
              callbacks[rid'[u]] = call[u] \/ callbacks[rid'[u]] \in overlapped
      BY <2>2 DEF TableInv, TypeOK
    <2> QED BY <2>1, <2>3 DEF TableInv, InFlight
  <1>9. SentInv'
    BY DEF TypeOK, SentInv, InFlight, Message
  <1> QED BY <1>1, <1>2, <1>3, <1>4, <1>9

(* What is known of the id a thread holds becomes known of its request. *)
LEMMA SendRequestIInv ==
  ASSUME IInv, NEW t \in Threads, SendRequest(t)
  PROVE  IInv'
  <1> USE ThreadsAssumption DEF IInv, SendRequest, Return, table
  <1>0. call[t] \in Calls /\ fate[call[t]] = "sending" /\ rid[t] \in Nat
    BY DEF ThreadInv, IdInv, Busy
  <1> DEFINE new == [id |-> rid[t], call |-> call[t]]
  <1>1. InFlight' \subseteq InFlight \cup {new}
    BY DEF InFlight
  <1>2. TypeOK'
    BY <1>0 DEF TypeOK, Message
  <1>3. ThreadInv'
    BY <1>0 DEF TypeOK, ThreadInv, Busy
  <1>4. IdInv'
    <2>1. \A u \in Threads : pc'[u] = "send" => u # t /\ pc[u] = "send" /\ rid'[u] = rid[u]
      BY DEF TypeOK
    <2>2. \A r \in InFlight' : r.id < id
      BY <1>1 DEF IdInv
    <2>3. \A u \in Threads, r \in InFlight' : pc'[u] = "send" => rid[u] # r.id
      BY <1>1, <2>1 DEF IdInv
    <2>4. \A r1, r2 \in InFlight' : r1.id = r2.id => r1 = r2
      BY <1>1 DEF IdInv, DistinctIds, InFlight
    <2> QED BY <2>1, <2>2, <2>3, <2>4 DEF IdInv, DistinctIds, InFlight
  <1>5. TableInv'
    <2>1. \A u \in Threads : pc'[u] = "send" =>
            pc[u] = "send" /\ rid'[u] = rid[u] /\ call'[u] = call[u]
      BY DEF TypeOK
    <2>2. \A u \in Threads : pc[u] = "take" => pc'[u] = "take" /\ call'[u] = call[u]
      BY DEF TypeOK
    <2>3. \A r \in InFlight' :
            r.id \in DOMAIN callbacks =>
              callbacks[r.id] = r.call \/ callbacks[r.id] \in overlapped
      BY <1>1 DEF TableInv
    <2>4. \A i \in DOMAIN callbacks :
            /\ i <= id
            /\ i = id => \E u \in Threads : pc'[u] = "take" /\ call'[u] = callbacks[i]
      BY <2>2 DEF TableInv
    <2> QED BY <2>1, <2>3, <2>4 DEF TableInv, InFlight
  <1>6. OnlyOverlapMixesUp'
    BY <1>0 DEF TypeOK, OnlyOverlapMixesUp
  <1>9. SentInv'
    BY <1>0, <1>1 DEF TypeOK, SentInv, InFlight, Message
  <1> QED BY <1>2, <1>3, <1>4, <1>5, <1>6, <1>9

(* Moonraker's answer carries the id and the call of the request. *)
LEMMA AnswerIInv ==
  ASSUME IInv, NEW r \in requests, Answer(r)
  PROVE  IInv'
  <1> USE DEF IInv, Answer, table, history
  <1>1. InFlight' = InFlight
    BY DEF InFlight
  <1>2. TypeOK'
    BY DEF TypeOK
  <1>3. ThreadInv' /\ OnlyOverlapMixesUp'
    BY DEF ThreadInv, OnlyOverlapMixesUp, Busy
  <1>4. IdInv' /\ TableInv'
    BY <1>1 DEF IdInv, TableInv, DistinctIds, InFlight
  <1>9. SentInv'
    BY DEF TypeOK, SentInv, InFlight, Message
  <1> QED BY <1>2, <1>3, <1>4, <1>9

(* The callback found under the reply's id is the owner's or overlapped. *)
LEMMA RunCallbackIInv ==
  ASSUME IInv, NEW r \in replies, RunCallback(r)
  PROVE  IInv'
  <1> USE DEF IInv, RunCallback, table
  <1>1. InFlight' \subseteq InFlight /\ r \in InFlight /\ r.id \in Nat /\ r.call \in Calls
    BY DEF InFlight, TypeOK, Message
  <1>2. r.id \in DOMAIN callbacks => callbacks[r.id] \in Calls
    BY ThreadsAssumption DEF TypeOK
  <1>3. TypeOK'
    BY <1>1, <1>2 DEF TypeOK
  <1>4. ThreadInv'
    BY DEF ThreadInv, Busy
  <1>5. IdInv' /\ TableInv'
    BY <1>1 DEF IdInv, TableInv, DistinctIds, InFlight
  <1>6. OnlyOverlapMixesUp'
    BY <1>1 DEF OnlyOverlapMixesUp, TableInv
  <1>9. SentInv'
    BY <1>1 DEF TypeOK, SentInv, InFlight, Message
  <1> QED BY <1>3, <1>4, <1>5, <1>6, <1>9

LEMMA FewerEntries ==
  ASSUME TableInv, UNCHANGED <<id, pc, call, rid, requests, replies, overlapped>>,
         DOMAIN callbacks' \subseteq DOMAIN callbacks,
         \A i \in DOMAIN callbacks' : callbacks'[i] = callbacks[i]
  PROVE  TableInv'
  <1>1. InFlight' = InFlight
    BY DEF InFlight
  <1>2. \A i \in DOMAIN callbacks' :
          /\ i <= id
          /\ i = id => \E t \in Threads : pc[t] = "take" /\ call[t] = callbacks'[i]
    BY DEF TableInv
  <1>3. \A t \in Threads :
          pc[t] = "send" /\ rid[t] \in DOMAIN callbacks' =>
            callbacks'[rid[t]] = call[t] \/ callbacks'[rid[t]] \in overlapped
    BY DEF TableInv
  <1>4. \A r \in InFlight :
          r.id \in DOMAIN callbacks' =>
            callbacks'[r.id] = r.call \/ callbacks'[r.id] \in overlapped
    BY DEF TableInv
  <1> QED BY <1>1, <1>2, <1>3, <1>4 DEF TableInv

(* Erasing an entry takes nothing away from what is known of the others. *)
LEMMA EraseCallbackIInv ==
  ASSUME IInv, EraseCallback
  PROVE  IInv'
  <1> USE DEF IInv, EraseCallback, network, history
  <1>1. /\ DOMAIN callbacks' \subseteq DOMAIN callbacks
        /\ \A i \in DOMAIN callbacks' : callbacks'[i] = callbacks[i]
    BY DEF Restrict
  <1>2. TypeOK'
    BY <1>1 DEF TypeOK
  <1>3. ThreadInv' /\ IdInv' /\ OnlyOverlapMixesUp'
    BY DEF ThreadInv, IdInv, DistinctIds, OnlyOverlapMixesUp, InFlight, Busy
  <1>4. TableInv'
    BY <1>1, FewerEntries
  <1>9. SentInv'
    BY DEF TypeOK, SentInv, InFlight, Message
  <1> QED BY <1>2, <1>3, <1>4, <1>9

(* Opening and closing the connection leave ids and table as they are. *)
LEMMA OpenIInv == IInv /\ Open => IInv'
  BY DEF IInv, Open, table, history, TypeOK, ThreadInv, IdInv, TableInv,
         DistinctIds, OnlyOverlapMixesUp, SentInv, InFlight, Busy

LEMMA CloseIInv ==
  ASSUME IInv, Close
  PROVE  IInv'
  <1> USE DEF IInv, Close, table
  <1>1. InFlight' = {}
    BY DEF InFlight
  <1>2. TypeOK'
    <2>1. closes' \in 0..MaxCloses
      BY ThreadsAssumption DEF TypeOK
    <2>2. fate' \in [Calls -> {"new", "sending", "dropped", "sent", "lost"}]
      BY DEF TypeOK
    <2> QED BY <2>1, <2>2 DEF TypeOK
  <1>3. ThreadInv'
    <2>1. \A c \in Calls : fate[c] = "sending" => fate'[c] = "sending"
      BY DEF SentInv, InFlight
    <2> QED BY <2>1 DEF ThreadInv, Busy
  <1>4. IdInv' /\ TableInv'
    BY <1>1 DEF IdInv, TableInv, DistinctIds, InFlight
  <1>5. OnlyOverlapMixesUp'
    BY DEF OnlyOverlapMixesUp
  <1>9. SentInv'
    BY <1>1 DEF TypeOK, SentInv, InFlight, Message
  <1> QED BY <1>2, <1>3, <1>4, <1>5, <1>9

LEMMA NextIInv == IInv /\ [Next]_vars => IInv'
  <1> SUFFICES ASSUME IInv, [Next]_vars PROVE IInv'
    OBVIOUS
  <1>1. ASSUME NEW t \in Threads, Step(t) PROVE IInv'
    BY <1>1, FindIdIInv, InsertCallbackIInv, TakeIdIInv, SendRequestIInv DEF Step
  <1>2. ASSUME NEW t \in Threads, NEW c \in Calls, Begin(t, c) PROVE IInv'
    BY <1>2, BeginIInv
  <1>3. ASSUME NEW r \in requests, Answer(r) PROVE IInv'
    BY <1>3, AnswerIInv
  <1>4. ASSUME NEW r \in replies, RunCallback(r) PROVE IInv'
    BY <1>4, RunCallbackIInv
  <1>5. EraseCallback \/ Open \/ Close => IInv'
    BY EraseCallbackIInv, OpenIInv, CloseIInv
  <1>6. UNCHANGED vars => IInv'
    BY DEF vars, IInv, TypeOK, ThreadInv, IdInv, SentInv, TableInv,
           DistinctIds, OnlyOverlapMixesUp, InFlight, Busy
  <1> QED BY <1>1, <1>2, <1>3, <1>4, <1>5, <1>6 DEF Next

(* Every variable keeps its type, in every interleaving of any threads.    *)
THEOREM TypeCorrect == Spec => []TypeOK
  <1>1. IInv => TypeOK
    BY DEF IInv
  <1> QED BY <1>1, InitIInv, NextIInv, PTL DEF Spec

(* Ids in flight are distinct however the threads interleave and however   *)
(* often the connection is lost.                                           *)
THEOREM IdsAreDistinct == Spec => []DistinctIds
  <1>1. IInv => DistinctIds
    BY DEF IInv, IdInv
  <1> QED BY <1>1, InitIInv, NextIInv, PTL DEF Spec

(* Only overlapping sends can hand a reply to the wrong callback or get a  *)
(* call refused.                                                           *)
THEOREM MixUpsNeedOverlap == Spec => []OnlyOverlapMixesUp
  <1>1. IInv => OnlyOverlapMixesUp
    BY DEF IInv
  <1> QED BY <1>1, InitIInv, NextIInv, PTL DEF Spec

-----------------------------------------------------------------------------
(* The client implements RpcPromise.  On top of the invariant above, which *)
(* says that what is in the table is right, this needs that what must be   *)
(* in it is there: the callback of a call that no other send overlapped    *)
(* waits under the id of its request until the reply came, and runs once.  *)

(* The calls with a callback that something is promised of.                *)
Kept(c) == c \in WithCallback /\ c \notin overlapped

(* Their entry is there from the insert to the erase after the callback.   *)
EntriesKept ==
  /\ \A t \in Threads : pc[t] = "take" /\ Kept(call[t]) =>
       id \in DOMAIN callbacks /\ callbacks[id] = call[t]
  /\ \A t \in Threads : pc[t] = "send" /\ Kept(call[t]) =>
       rid[t] \in DOMAIN callbacks /\ callbacks[rid[t]] = call[t]
  /\ \A r \in InFlight : Kept(r.call) =>
       r.id \in DOMAIN callbacks /\ callbacks[r.id] = r.call

(* The entry about to be erased is that of a request that is over.         *)
HandlingInv ==
  handling # None =>
    /\ handling < id
    /\ \A r \in InFlight : r.id # handling
    /\ \A t \in Threads : pc[t] = "send" => rid[t] # handling

(* A call is under way once, ...                                           *)
OnceInv ==
  /\ requests \cap replies = {}
  /\ \A r1, r2 \in InFlight : r1.call = r2.call => r1 = r2

(* ... and no more once its callback has run.                              *)
RanInv ==
  \A x \in ran : Kept(x.cb) =>
    /\ fate[x.cb] \in {"sent", "lost"}
    /\ \A r \in InFlight : r.call # x.cb

PInv == IInv /\ EntriesKept /\ HandlingInv /\ OnceInv /\ RanInv

-----------------------------------------------------------------------------
(* Every action keeps the invariant. *)

LEMMA InitPInv == Init => PInv
  <1> SUFFICES ASSUME Init PROVE PInv
    OBVIOUS
  <1>1. IInv
    BY InitIInv
  <1>2. EntriesKept /\ HandlingInv /\ OnceInv /\ RanInv
    BY DEF Init, EntriesKept, HandlingInv, OnceInv, RanInv, InFlight
  <1> QED BY <1>1, <1>2 DEF PInv

(* A send that begins has nothing in the table or on the wire.             *)
LEMMA BeginPInv ==
  ASSUME PInv, NEW t \in Threads, NEW c \in Calls, Begin(t, c)
  PROVE  PInv'
  <1> USE DEF PInv
  <1>1. IInv'
    BY BeginIInv
  <1>2. InFlight' = InFlight /\ (\A d : Kept(d)' => Kept(d))
    BY DEF Begin, network, InFlight, Kept
  <1>3. EntriesKept'
    <2>1. \A u \in Threads \ {t} : pc'[u] = pc[u] /\ call'[u] = call[u]
      BY DEF Begin, IInv, TypeOK
    <2>2. pc'[t] \in {"find", "take"} /\ call'[t] = c
      BY DEF Begin, IInv, TypeOK
    <2>3. Kept(c) => pc'[t] = "find"
      BY DEF Begin, Kept, IInv, TypeOK
    <2>4. Kept(call[t])' => Kept(c)
      BY <1>2, <2>2 DEF Kept
    <2>5. UNCHANGED <<id, callbacks, rid>>
      BY DEF Begin, table
    <2>6. \A u \in Threads : Kept(call[u])' => Kept(call'[u])
      BY <1>2 DEF Kept
    <2>7. \A r \in InFlight : Kept(r.call)' => Kept(r.call)
      BY <1>2 DEF Kept
    <2> QED BY <1>2, <2>1, <2>2, <2>3, <2>4, <2>5, <2>6, <2>7 DEF EntriesKept
  <1>4. HandlingInv'
    BY <1>2 DEF HandlingInv, Begin, table, IInv, TypeOK
  <1>5. OnceInv'
    BY <1>2 DEF OnceInv, Begin, network
  <1>6. RanInv'
    BY <1>2 DEF RanInv, Begin, IInv, TypeOK
  <1> QED BY <1>1, <1>3, <1>4, <1>5, <1>6

LEMMA FindIdPInv ==
  ASSUME PInv, NEW t \in Threads, FindId(t)
  PROVE  PInv'
  <1> USE DEF PInv
  <1>1. IInv'
    BY FindIdIInv
  <1>2. UNCHANGED <<id, callbacks, requests, replies, handling, ran, overlapped>>
    BY DEF FindId, table, network
  <1>3. InFlight' = InFlight /\ (\A d : Kept(d)' <=> Kept(d))
    BY <1>2 DEF InFlight, Kept
  <1>4. \A u \in Threads : pc'[u] \in {"take", "send"} =>
          pc'[u] = pc[u] /\ call'[u] = call[u] /\ rid'[u] = rid[u]
    BY DEF FindId, Return, IInv, TypeOK
  <1>5. EntriesKept'
    <2>1. \A u \in Threads : pc'[u] \in {"take", "send"} => (Kept(call[u])' <=> Kept(call[u]))
      BY <1>2, <1>4 DEF Kept
    <2>2. \A r \in InFlight : Kept(r.call)' <=> Kept(r.call)
      BY <1>2 DEF Kept
    <2> QED BY <1>2, <1>3, <1>4, <2>1, <2>2 DEF EntriesKept
  <1>6. HandlingInv'
    BY <1>2, <1>3, <1>4 DEF HandlingInv
  <1>7. OnceInv'
    BY <1>2, <1>3 DEF OnceInv
  <1>8. RanInv'
    <2>1. call[t] \in Calls /\ fate[call[t]] = "sending"
      BY DEF FindId, IInv, ThreadInv, Busy
    <2>2. \A d \in Calls : fate[d] # "sending" => fate'[d] = fate[d]
      BY <2>1 DEF FindId, IInv, TypeOK
    <2>3. \A x \in ran : x.cb \in Calls
      BY DEF IInv, TypeOK
    <2>4. \A x \in ran : Kept(x.cb)' <=> Kept(x.cb)
      BY <1>2 DEF Kept
    <2> QED BY <1>2, <1>3, <2>2, <2>3, <2>4 DEF RanInv
  <1> QED BY <1>1, <1>5, <1>6, <1>7, <1>8

(* The id is free but for a thread that overlaps, so the entry goes in.    *)
LEMMA InsertCallbackPInv ==
  ASSUME PInv, NEW t \in Threads, InsertCallback(t)
  PROVE  PInv'
  <1> USE DEF PInv
  <1>1. IInv'
    BY InsertCallbackIInv
  <1>2. UNCHANGED <<id, call, rid, requests, replies, handling, fate, ran, overlapped>>
    BY DEF InsertCallback, network, history
  <1>3. InFlight' = InFlight
    BY <1>2 DEF InFlight
  <1>4. /\ DOMAIN callbacks' = DOMAIN callbacks \cup {id}
        /\ \A i \in DOMAIN callbacks : callbacks'[i] = callbacks[i]
        /\ id \notin DOMAIN callbacks => callbacks'[id] = call[t]
    BY DEF InsertCallback
  <1>5. /\ pc[t] = "insert" /\ pc'[t] = "take"
        /\ \A u \in Threads \ {t} : pc'[u] = pc[u]
    BY DEF InsertCallback, IInv, TypeOK
  <1>6. Kept(call[t]) => id \notin DOMAIN callbacks
    BY <1>5 DEF IInv, TableInv, ThreadInv, Busy, Kept
  <1>7. EntriesKept'
    <2>1. \A u \in Threads : Kept(call[u])' <=> Kept(call[u])
      BY <1>2 DEF Kept
    <2>2. \A r \in InFlight : Kept(r.call)' <=> Kept(r.call)
      BY <1>2 DEF Kept
    <2>3. \A u \in Threads : pc'[u] = "take" /\ Kept(call[u]) =>
            id \in DOMAIN callbacks' /\ callbacks'[id] = call[u]
      BY <1>4, <1>5, <1>6 DEF EntriesKept
    <2>4. \A u \in Threads : pc'[u] = "send" /\ Kept(call[u]) =>
            rid[u] \in DOMAIN callbacks' /\ callbacks'[rid[u]] = call[u]
      BY <1>4, <1>5 DEF EntriesKept
    <2>5. \A r \in InFlight : Kept(r.call) =>
            r.id \in DOMAIN callbacks' /\ callbacks'[r.id] = r.call
      BY <1>4 DEF EntriesKept
    <2> QED BY <1>2, <1>3, <2>1, <2>2, <2>3, <2>4, <2>5 DEF EntriesKept
  <1>8. HandlingInv' /\ OnceInv'
    BY <1>2, <1>3, <1>5 DEF HandlingInv, OnceInv
  <1>9. RanInv'
    BY <1>2, <1>3 DEF RanInv, Kept
  <1> QED BY <1>1, <1>7, <1>8, <1>9

(* Another thread that was about to take this id loses its entry to the    *)
(* counter, but then the two overlap.                                      *)
LEMMA TakeIdPInv ==
  ASSUME PInv, NEW t \in Threads, TakeId(t)
  PROVE  PInv'
  <1> USE DEF PInv
  <1>1. IInv'
    BY TakeIdIInv
  <1>2. UNCHANGED <<callbacks, call, requests, replies, handling, fate, ran, overlapped>>
    BY DEF TakeId, network, history
  <1>3. InFlight' = InFlight
    BY <1>2 DEF InFlight
  <1>4. /\ pc[t] = "take" /\ pc'[t] = "send" /\ rid'[t] = id
        /\ \A u \in Threads \ {t} : pc'[u] = pc[u] /\ rid'[u] = rid[u]
        /\ id' = id + 1
    BY DEF TakeId, IInv, TypeOK
  <1>5. EntriesKept'
    <2>1. \A u \in Threads : Kept(call[u])' <=> Kept(call[u])
      BY <1>2 DEF Kept
    <2>2. \A r \in InFlight : Kept(r.call)' <=> Kept(r.call)
      BY <1>2 DEF Kept
    <2>3. \A u \in Threads \ {t} : pc[u] = "take" => ~Kept(call[u])
      BY <1>4 DEF IInv, ThreadInv, Busy, Kept
    <2> QED BY <1>2, <1>3, <1>4, <2>1, <2>2, <2>3 DEF EntriesKept
  <1>6. HandlingInv'
    <2>1. id \in Nat /\ handling \in Nat \cup {None}
      BY DEF IInv, TypeOK
    <2> QED BY <1>2, <1>3, <1>4, <2>1 DEF HandlingInv
  <1>7. OnceInv'
    BY <1>2, <1>3 DEF OnceInv
  <1>8. RanInv'
    BY <1>2, <1>3 DEF RanInv, Kept
  <1> QED BY <1>1, <1>5, <1>6, <1>7, <1>8

LEMMA SendRequestPInv ==
  ASSUME PInv, NEW t \in Threads, SendRequest(t)
  PROVE  PInv'
  <1> USE DEF PInv
  <1> DEFINE new == [id |-> rid[t], call |-> call[t]]
  <1>1. IInv'
    BY SendRequestIInv
  <1>2. UNCHANGED <<id, callbacks, replies, handling, ran, overlapped>>
    BY DEF SendRequest, table
  <1>3. /\ pc[t] = "send" /\ pc'[t] = "idle"
        /\ \A u \in Threads \ {t} :
             pc'[u] = pc[u] /\ call'[u] = call[u] /\ rid'[u] = rid[u]
    BY DEF SendRequest, Return, IInv, TypeOK
  <1>4. call[t] \in Calls /\ fate[call[t]] = "sending"
    BY <1>3 DEF IInv, ThreadInv, Busy
  <1>5. requests' \subseteq requests \cup {new} /\ InFlight' \subseteq InFlight \cup {new}
    BY <1>2 DEF SendRequest, InFlight
  <1>6. \A r \in InFlight : r.call # call[t] /\ r.id # rid[t]
    BY <1>3, <1>4 DEF IInv, SentInv, IdInv
  <1>7. EntriesKept'
    <2>1. \A u \in Threads \ {t} : Kept(call[u])' <=> Kept(call[u])
      BY <1>2, <1>3 DEF Kept
    <2>2. \A r : Kept(r.call)' <=> Kept(r.call)
      BY <1>2 DEF Kept
    <2>3. Kept(new.call) => new.id \in DOMAIN callbacks /\ callbacks[new.id] = new.call
      BY <1>3 DEF EntriesKept
    <2>4. \A r \in InFlight \cup {new} : Kept(r.call) =>
            r.id \in DOMAIN callbacks /\ callbacks[r.id] = r.call
      BY <2>3 DEF EntriesKept
    <2> HIDE DEF new
    <2> QED BY <1>2, <1>3, <1>5, <2>1, <2>2, <2>4 DEF EntriesKept
  <1>8. HandlingInv'
    BY <1>2, <1>3, <1>5 DEF HandlingInv
  <1>9. OnceInv'
    <2>1. new \notin replies
      BY <1>6 DEF InFlight
    <2>2. requests' \cap replies' = {}
      BY <1>2, <1>5, <2>1 DEF OnceInv
    <2>3. \A r1, r2 \in InFlight' : r1.call = r2.call => r1 = r2
      BY <1>5, <1>6 DEF OnceInv
    <2> QED BY <2>2, <2>3 DEF OnceInv
  <1>10. RanInv'
    <2>1. \A d \in Calls : fate[d] # "sending" => fate'[d] = fate[d]
      BY <1>4 DEF SendRequest, IInv, TypeOK
    <2>2. \A x \in ran : x.cb \in Calls
      BY DEF IInv, TypeOK
    <2>3. \A x \in ran : Kept(x.cb)' <=> Kept(x.cb)
      BY <1>2 DEF Kept
    <2> QED BY <1>2, <1>4, <1>5, <2>1, <2>2, <2>3 DEF RanInv
  <1> QED BY <1>1, <1>7, <1>8, <1>9, <1>10

LEMMA AnswerPInv ==
  ASSUME PInv, NEW r \in requests, Answer(r)
  PROVE  PInv'
  <1> USE DEF PInv
  <1>1. IInv'
    BY AnswerIInv
  <1>2. /\ UNCHANGED <<id, callbacks, pc, call, rid, handling, fate, ran, overlapped>>
        /\ InFlight' = InFlight /\ requests' \cap replies' = requests \cap replies
    BY DEF Answer, table, history, InFlight, OnceInv
  <1>3. EntriesKept' /\ HandlingInv' /\ OnceInv' /\ RanInv'
    BY <1>2 DEF EntriesKept, HandlingInv, OnceInv, RanInv, Kept
  <1> QED BY <1>1, <1>3

(* A callback that runs is that of the request answered, which was under   *)
(* way once and is no more.                                                *)
LEMMA RunCallbackPInv ==
  ASSUME PInv, NEW r \in replies, RunCallback(r)
  PROVE  PInv'
  <1> USE DEF PInv
  <1>1. IInv'
    BY RunCallbackIInv
  <1>2. UNCHANGED <<id, callbacks, pc, call, rid, requests, fate, overlapped>>
    BY DEF RunCallback, table
  <1>3. InFlight' = InFlight \ {r} /\ r \in InFlight
    BY <1>2 DEF RunCallback, InFlight, OnceInv
  <1>4. handling' = handling \/ handling' = r.id
    BY DEF RunCallback
  <1>5. EntriesKept'
    BY <1>2, <1>3 DEF EntriesKept, Kept
  <1>6. HandlingInv'
    <2>1. \A q \in InFlight' : q.id # r.id
      BY <1>3 DEF IInv, IdInv, DistinctIds, InFlight
    <2>2. r.id < id /\ \A t \in Threads : pc[t] = "send" => rid[t] # r.id
      BY <1>3 DEF IInv, IdInv
    <2> QED BY <1>2, <1>3, <1>4, <2>1, <2>2 DEF HandlingInv
  <1>7. OnceInv'
    BY <1>2, <1>3 DEF OnceInv, RunCallback
  <1>8. RanInv'
    <2>1. \A x \in ran' \ ran : Kept(x.cb) => x.cb = r.call
      BY <1>3 DEF RunCallback, IInv, TableInv, Kept
    <2>2. fate[r.call] = "sent" /\ \A q \in InFlight' : q.call # r.call
      BY <1>3 DEF IInv, SentInv, OnceInv
    <2>3. \A x : Kept(x.cb)' <=> Kept(x.cb)
      BY <1>2 DEF Kept
    <2> QED BY <1>2, <1>3, <2>1, <2>2, <2>3 DEF RanInv
  <1> QED BY <1>1, <1>5, <1>6, <1>7, <1>8

LEMMA EraseCallbackPInv ==
  ASSUME PInv, EraseCallback
  PROVE  PInv'
  <1> USE DEF PInv
  <1>1. IInv'
    BY EraseCallbackIInv
  <1>2. UNCHANGED <<id, pc, call, rid, requests, replies, fate, ran, overlapped>>
    BY DEF EraseCallback, network, history
  <1>3. /\ DOMAIN callbacks' = DOMAIN callbacks \ {handling}
        /\ \A i \in DOMAIN callbacks' : callbacks'[i] = callbacks[i]
        /\ handling # None /\ handling' = None
    BY DEF EraseCallback, Restrict
  <1>4. handling # id
    BY <1>3 DEF HandlingInv, IInv, TypeOK
  <1>5. InFlight' = InFlight
    BY <1>2 DEF InFlight
  <1>6. EntriesKept'
    BY <1>2, <1>3, <1>4, <1>5 DEF EntriesKept, HandlingInv, Kept
  <1>7. HandlingInv' /\ OnceInv' /\ RanInv'
    BY <1>2, <1>3, <1>5 DEF HandlingInv, OnceInv, RanInv, Kept
  <1> QED BY <1>1, <1>6, <1>7

LEMMA OpenPInv ==
  ASSUME PInv, Open
  PROVE  PInv'
  <1>1. IInv'
    BY OpenIInv DEF PInv
  <1>2. UNCHANGED <<id, callbacks, pc, call, rid, requests, replies, handling,
                    fate, ran, overlapped>>
    BY DEF Open, table, history
  <1> QED BY <1>1, <1>2 DEF PInv, EntriesKept, HandlingInv, OnceInv, RanInv,
                            Kept, InFlight

LEMMA ClosePInv ==
  ASSUME PInv, Close
  PROVE  PInv'
  <1> USE DEF PInv
  <1>1. IInv'
    BY CloseIInv
  <1>2. /\ UNCHANGED <<id, callbacks, pc, call, rid, handling, ran, overlapped>>
        /\ InFlight' = {} /\ requests' = {}
    BY DEF Close, table, InFlight
  <1>3. EntriesKept' /\ HandlingInv' /\ OnceInv'
    BY <1>2 DEF EntriesKept, HandlingInv, OnceInv, Kept
  <1>4. RanInv'
    <2>1. \A c \in Calls : fate'[c] \in {"lost", fate[c]}
      BY DEF Close
    <2>2. \A x \in ran : x.cb \in Calls
      BY DEF IInv, TypeOK
    <2> QED BY <1>2, <2>1, <2>2 DEF RanInv, Kept
  <1> QED BY <1>1, <1>3, <1>4

LEMMA NextPInv == ASSUME PInv, [Next]_vars PROVE PInv'
  <1>1. ASSUME NEW t \in Threads, Step(t) PROVE PInv'
    BY <1>1, FindIdPInv, InsertCallbackPInv, TakeIdPInv, SendRequestPInv DEF Step
  <1>2. ASSUME NEW t \in Threads, NEW c \in Calls, Begin(t, c) PROVE PInv'
    BY <1>2, BeginPInv
  <1>3. ASSUME NEW r \in requests, Answer(r) PROVE PInv'
    BY <1>3, AnswerPInv
  <1>4. ASSUME NEW r \in replies, RunCallback(r) PROVE PInv'
    BY <1>4, RunCallbackPInv
  <1>5. CASE EraseCallback \/ Open \/ Close
    BY <1>5, EraseCallbackPInv, OpenPInv, ClosePInv
  <1>6. CASE UNCHANGED vars
    <2>1. IInv'
      BY <1>6, NextIInv DEF PInv
    <2> QED BY <1>6, <2>1 DEF PInv, EntriesKept, HandlingInv, OnceInv, RanInv,
                              Kept, InFlight, vars
  <1> QED BY <1>1, <1>2, <1>3, <1>4, <1>5, <1>6 DEF Next

-----------------------------------------------------------------------------
(* Every action is a step of RpcPromise or a stutter. *)

Progress == [c \in WithCallback |-> ProgressOf(c)]

(* What is behind each stage of a call that something is promised of.      *)
LEMMA Stages ==
  ASSUME PInv, NEW c \in WithCallback, Kept(c)
  PROVE  /\ fate[c] = "new" => ProgressOf(c) = "unsent"
         /\ fate[c] = "sending" => ProgressOf(c) = "asked"
         /\ \A r \in requests : r.call = c => ProgressOf(c) = "asked"
         /\ \A r \in replies : r.call = c => ProgressOf(c) = "served"
  <1> USE DEF PInv
  <1>1. c \in Calls
    BY ThreadsAssumption
  <1>2. \A r \in replies : r.call = c => fate[c] = "sent"
    BY DEF IInv, SentInv, InFlight
  <1>3. fate[c] \in {"new", "sending"} => ~Ran(c)
    BY DEF RanInv, Ran
  <1>4. \A r \in InFlight : r.call = c => ~Ran(c) /\ fate[c] = "sent"
    BY DEF RanInv, Ran, IInv, SentInv
  <1>5. \A r \in requests : r.call = c => ~ \E q \in replies : q.call = c
    BY DEF OnceInv, InFlight
  <1>6. fate[c] = "new" => ProgressOf(c) = "unsent"
    BY <1>3 DEF ProgressOf, Kept
  <1>7. fate[c] = "sending" => ProgressOf(c) = "asked"
    BY <1>2, <1>3 DEF ProgressOf, Kept
  <1>8. \A r \in requests : r.call = c => ProgressOf(c) = "asked"
    BY <1>4, <1>5 DEF ProgressOf, Kept, InFlight
  <1>9. \A r \in replies : r.call = c => ProgressOf(c) = "served"
    BY <1>4 DEF ProgressOf, Kept, InFlight
  <1> QED BY <1>6, <1>7, <1>8, <1>9

(* What progress depends on.                                               *)
LEMMA SameProgress ==
  ASSUME NEW c \in WithCallback,
         \/ c \in overlapped /\ c \in overlapped'
         \/ /\ c \in overlapped' <=> c \in overlapped
            /\ fate'[c] = fate[c] /\ (Ran(c)' <=> Ran(c))
            /\ (\E r \in replies' : r.call = c) <=> (\E r \in replies : r.call = c)
  PROVE  ProgressOf(c)' = ProgressOf(c)
  BY DEF ProgressOf

(* Nobody moves, one call does, or some do.                                *)
LEMMA NobodyMoves ==
  ASSUME \A c \in WithCallback : ProgressOf(c)' = ProgressOf(c)
  PROVE  Progress' = Progress
  BY DEF Progress

LEMMA OneMoves ==
  ASSUME NEW c \in WithCallback, NEW to, ProgressOf(c)' = to,
         \A d \in WithCallback \ {c} : ProgressOf(d)' = ProgressOf(d)
  PROVE  Progress' = [Progress EXCEPT ![c] = to]
  BY DEF Progress

LEMMA SomeMove ==
  ASSUME NEW S \in SUBSET WithCallback, NEW to, \A c \in S : ProgressOf(c)' = to,
         \A d \in WithCallback \ S : ProgressOf(d)' = ProgressOf(d)
  PROVE  Progress' = [c \in WithCallback |-> IF c \in S THEN to ELSE Progress[c]]
  BY DEF Progress

(* The steps that no caller sees.                                          *)
LEMMA HiddenSteps ==
  ASSUME PInv, NEW t \in Threads,
         \/ FindId(t) \/ InsertCallback(t) \/ TakeId(t) \/ EraseCallback
         \/ Open \/ UNCHANGED vars
  PROVE  Progress' = Progress
  <1>1. CASE FindId(t)
    <2>1. UNCHANGED <<replies, ran, overlapped>>
      BY <1>1 DEF FindId, network
    <2>2. call[t] \in Calls
      BY <1>1 DEF FindId, PInv, IInv, ThreadInv, Busy
    <2>3. \A c \in Calls : fate'[c] = fate[c] \/ fate'[c] = "dropped"
      BY <1>1, <2>2 DEF FindId, PInv, IInv, TypeOK
    <2>4. \A c \in Calls : fate'[c] = "dropped" => c \in overlapped'
      BY <1>1, FindIdIInv DEF PInv, IInv, OnlyOverlapMixesUp
    <2>5. \A c \in WithCallback : ProgressOf(c)' = ProgressOf(c)
      BY <2>1, <2>3, <2>4, SameProgress, ThreadsAssumption DEF Ran
    <2> QED BY <2>5, NobodyMoves
  <1>2. CASE InsertCallback(t) \/ TakeId(t) \/ EraseCallback \/ Open \/ UNCHANGED vars
    <2>1. UNCHANGED <<fate, replies, ran, overlapped>>
      BY <1>2 DEF InsertCallback, TakeId, EraseCallback, Open, vars, network, history
    <2>2. \A c \in WithCallback : ProgressOf(c)' = ProgressOf(c)
      BY <2>1, SameProgress DEF Ran
    <2> QED BY <2>2, NobodyMoves
  <1> QED BY <1>1, <1>2

(* A caller asks; or sends overlap, and nothing is promised of them.       *)
LEMMA BeginAsks ==
  ASSUME PInv, NEW t \in Threads, NEW c \in Calls, Begin(t, c)
  PROVE  Promise!Next \/ Progress' = Progress
  <1>1. UNCHANGED <<replies, ran>> /\ fate[c] = "new" /\ fate'[c] = "sending"
    BY DEF Begin, network, PInv, IInv, TypeOK
  <1>2. \A d \in Calls \ {c} : fate'[d] = fate[d]
    BY DEF Begin, PInv, IInv, TypeOK
  <1>3. \A d \in WithCallback : d \in Calls
    BY ThreadsAssumption
  <1>4. CASE overlapped' = overlapped
    <2>1. \A d \in WithCallback : d # c \/ c \in overlapped => ProgressOf(d)' = ProgressOf(d)
      BY <1>1, <1>2, <1>3, <1>4, SameProgress DEF Ran
    <2>2. CASE Kept(c)
      <3>1. ProgressOf(c) = "unsent" /\ ProgressOf(c)' = "asked"
        <4>1. Kept(c)' BY <1>4, <2>2 DEF Kept
        <4>2. PInv' BY BeginPInv
        <4>3. ProgressOf(c) = "unsent" BY <1>1, <2>2, Stages DEF Kept
        <4>4. ~Ran(c)
          BY <1>1, <2>2 DEF PInv, RanInv, Ran
        <4>5. \A r \in replies : r.call # c
          BY <1>1 DEF PInv, IInv, SentInv, InFlight
        <4>6. ProgressOf(c)' = "asked"
          BY <1>1, <4>1, <4>4, <4>5 DEF ProgressOf, Ran, Kept
        <4> QED BY <4>3, <4>6
      <3>2. c \in WithCallback /\ Progress[c] = "unsent"
        BY <2>2, <3>1 DEF Progress, Kept
      <3>3. Progress' = [Progress EXCEPT ![c] = "asked"]
        BY <2>1, <3>1, <3>2, OneMoves
      <3>4. Promise!Ask(c)
        BY <3>2, <3>3 DEF Promise!Ask, Promise!Idle, Promise!Move, Progress
      <3> QED BY <3>2, <3>4 DEF Promise!Next
    <2>3. CASE ~Kept(c)
      BY <2>1, <2>3, NobodyMoves DEF Kept
    <2> QED BY <2>2, <2>3
  <1>5. CASE overlapped' # overlapped
    <2> DEFINE S == {d \in WithCallback : d \in overlapped' /\ d \notin overlapped}
    <2>1. overlapped' = overlapped \cup Others(t) \cup {c}
      BY <1>5 DEF Begin
    <2>2. \A d \in Others(t) : d \in Calls /\ fate[d] = "sending"
      BY DEF Others, PInv, IInv, ThreadInv, Busy
    <2>3. \A d \in S : Kept(d) /\ fate[d] \in {"new", "sending"}
      BY <1>1, <2>1, <2>2 DEF Kept
    <2>4. \A d \in S : ProgressOf(d) \in {"unsent", "asked"}
      BY <2>3, Stages
    <2>5. \A d \in S : ProgressOf(d)' = "unpromised"
      BY DEF ProgressOf
    <2>6. \A d \in WithCallback \ S : ProgressOf(d)' = ProgressOf(d)
      BY <1>1, <1>2, <1>3, <2>1, SameProgress DEF Ran
    <2>7. Promise!Clash(S)
      BY <2>4, <2>5, <2>6, SomeMove DEF Promise!Clash, Progress
    <2> QED BY <2>7 DEF Promise!Next
  <1> QED BY <1>4, <1>5

(* A request that meets no connection is lost.                             *)
LEMMA SendRequestLoses ==
  ASSUME PInv, NEW t \in Threads, SendRequest(t)
  PROVE  Promise!Next \/ Progress' = Progress
  <1>1. UNCHANGED <<replies, ran, overlapped>>
    BY DEF SendRequest
  <1>2. PICK c \in Calls : c = call[t] /\ fate[c] = "sending"
    BY DEF SendRequest, PInv, IInv, ThreadInv, Busy
  <1>3. /\ fate'[c] = IF connected THEN "sent" ELSE "lost"
        /\ \A d \in Calls \ {c} : fate'[d] = fate[d]
    BY <1>2 DEF SendRequest, PInv, IInv, TypeOK
  <1>4. \A d \in WithCallback : d # c \/ d \in overlapped => ProgressOf(d)' = ProgressOf(d)
    BY <1>1, <1>3, SameProgress, ThreadsAssumption DEF Ran
  <1>5. CASE ~Kept(c)
    BY <1>4, <1>5, NobodyMoves DEF Kept
  <1>6. CASE Kept(c)
    <2>1. ProgressOf(c) = "asked"
      BY <1>2, <1>6, Stages DEF Kept
    <2>2. ~Ran(c)
      BY <1>2, <1>6 DEF PInv, RanInv, Ran
    <2>3. \A r \in replies : r.call # c
      BY <1>2 DEF PInv, IInv, SentInv, InFlight
    <2>4. CASE connected
      <3>1. ProgressOf(c)' = "asked"
        BY <1>1, <1>3, <1>6, <2>2, <2>3, <2>4 DEF ProgressOf, Ran, Kept
      <3> QED BY <1>4, <2>1, <3>1, NobodyMoves
    <2>5. CASE ~connected
      <3>1. ProgressOf(c)' = "lost"
        BY <1>1, <1>3, <1>6, <2>2, <2>5 DEF ProgressOf, Ran, Kept
      <3>2. {c} \in SUBSET WithCallback
        BY <1>6 DEF Kept
      <3>3. Progress' = [d \in WithCallback |-> IF d \in {c} THEN "lost" ELSE Progress[d]]
        BY <1>4, <3>1, <3>2, SomeMove
      <3>4. Promise!Lose({c})
        BY <2>1, <3>2, <3>3 DEF Promise!Lose, Progress
      <3> QED BY <3>2, <3>4 DEF Promise!Next
    <2> QED BY <2>4, <2>5
  <1> QED BY <1>5, <1>6

LEMMA AnswerServes ==
  ASSUME PInv, NEW r \in requests, Answer(r)
  PROVE  Promise!Next \/ Progress' = Progress
  <1> DEFINE c == r.call
  <1>1. UNCHANGED <<fate, ran, overlapped>> /\ replies' = replies \cup {r}
    BY DEF Answer, history
  <1>2. \A d \in WithCallback : d # c \/ d \in overlapped => ProgressOf(d)' = ProgressOf(d)
    BY <1>1, SameProgress DEF Ran
  <1>3. CASE ~Kept(c)
    BY <1>2, <1>3, NobodyMoves DEF Kept
  <1>4. CASE Kept(c)
    <2>1. PInv' /\ Kept(c)' /\ c \in WithCallback
      BY <1>1, <1>4, AnswerPInv DEF Kept
    <2>2. ProgressOf(c) = "asked"
      BY <1>4, <2>1, Stages
    <2>3. ProgressOf(c)' = "served"
      <3>1. ~Ran(c) /\ fate[c] = "sent"
        BY <1>4 DEF PInv, RanInv, Ran, IInv, SentInv, InFlight
      <3> QED BY <1>1, <2>1, <3>1 DEF ProgressOf, Ran, Kept
    <2> HIDE DEF c
    <2>4. Promise!Serve(c)
      BY <1>2, <2>1, <2>2, <2>3, OneMoves DEF Promise!Serve, Promise!Move, Progress
    <2> QED BY <2>1, <2>4 DEF Promise!Next
  <1> QED BY <1>3, <1>4

(* The callback that runs is the one of the request answered.              *)
LEMMA RunCallbackCompletes ==
  ASSUME PInv, NEW r \in replies, RunCallback(r)
  PROVE  Promise!Next \/ Progress' = Progress
  <1> DEFINE c == r.call
  <1>1. UNCHANGED <<fate, overlapped>> /\ replies' = replies \ {r} /\ r \in InFlight
    BY DEF RunCallback, InFlight
  <1>2. \A x \in ran' : x \in ran \/ x.cb = c \/ x.cb \in overlapped
    BY <1>1 DEF RunCallback, PInv, IInv, TableInv
  <1>3. ran \subseteq ran'
    BY DEF RunCallback
  <1>4. \A d \in WithCallback : d # c \/ d \in overlapped => ProgressOf(d)' = ProgressOf(d)
    <2>1. \A d \in WithCallback : d # c /\ d \notin overlapped => (Ran(d)' <=> Ran(d))
      BY <1>2, <1>3 DEF Ran
    <2>2. \A d \in WithCallback : d # c =>
            ((\E q \in replies' : q.call = d) <=> (\E q \in replies : q.call = d))
      BY <1>1
    <2> QED BY <1>1, <2>1, <2>2, SameProgress
  <1>5. CASE ~Kept(c)
    BY <1>4, <1>5, NobodyMoves DEF Kept
  <1>6. CASE Kept(c)
    <2>1. c \in WithCallback /\ ProgressOf(c) = "served"
      BY <1>6, Stages DEF Kept
    <2>2. r.id \in DOMAIN callbacks /\ callbacks[r.id] = c
      BY <1>1, <1>6 DEF PInv, EntriesKept
    <2>3. [cb |-> c, reply |-> r.call] \in ran'
      BY <2>2 DEF RunCallback
    <2>4. Ran(c)'
      BY <2>3 DEF Ran
    <2>5. ProgressOf(c)' = "completed"
      BY <1>1, <1>6, <2>4 DEF ProgressOf, Kept
    <2> HIDE DEF c
    <2>6. Promise!Complete(c)
      BY <1>4, <2>1, <2>5, OneMoves DEF Promise!Complete, Promise!Move, Progress
    <2> QED BY <2>1, <2>6 DEF Promise!Next
  <1> QED BY <1>5, <1>6

(* A lost connection loses the calls that were under way on it, and no     *)
(* other.                                                                  *)
LEMMA CloseLoses ==
  ASSUME PInv, Close
  PROVE  Promise!Next \/ Progress' = Progress
  <1> DEFINE S == {c \in WithCallback : Kept(c) /\ \E r \in InFlight : r.call = c}
  <1>1. UNCHANGED <<ran, overlapped>> /\ replies' = {}
    BY DEF Close
  <1>2. \A c \in Calls : fate'[c] = IF \E r \in InFlight : r.call = c THEN "lost" ELSE fate[c]
    BY DEF Close, InFlight
  <1>3. \A c \in S : ProgressOf(c) \in {"asked", "served"}
    BY Stages DEF InFlight
  <1>4. \A c \in S : ProgressOf(c)' = "lost"
    <2>1. \A c \in S : ~Ran(c)
      BY DEF PInv, RanInv, Ran
    <2>2. \A c \in S : fate'[c] = "lost" /\ c \notin overlapped'
      BY <1>1, <1>2, ThreadsAssumption DEF Kept
    <2> QED BY <1>1, <2>1, <2>2 DEF ProgressOf, Ran
  <1>5. \A c \in WithCallback \ S : ProgressOf(c)' = ProgressOf(c)
    <2> SUFFICES ASSUME NEW c \in WithCallback \ S PROVE ProgressOf(c)' = ProgressOf(c)
      OBVIOUS
    <2>1. CASE c \in overlapped
      BY <1>1, <2>1, SameProgress
    <2>2. CASE c \notin overlapped
      <3>1. ~ \E r \in InFlight : r.call = c
        BY <2>2 DEF Kept
      <3>2. fate'[c] = fate[c]
        BY <1>2, <3>1, ThreadsAssumption
      <3>3. ~ \E r \in replies : r.call = c
        BY <3>1 DEF InFlight
      <3> QED BY <1>1, <3>2, <3>3, SameProgress DEF Ran
    <2> QED BY <2>1, <2>2
  <1> HIDE DEF S
  <1>6. S \in SUBSET WithCallback
    BY DEF S
  <1>7. Promise!Lose(S)
    BY <1>3, <1>4, <1>5, <1>6, SomeMove DEF Promise!Lose, Progress
  <1> QED BY <1>6, <1>7 DEF Promise!Next

(* The client implements RpcPromise: the callback of a call that no other  *)
(* send overlapped runs once, after Moonraker answered that very call, or  *)
(* its connection was lost (websocket_client.cpp:46-60, 108-137, 166-186). *)
THEOREM ImplementsPromise == Spec => KeepsPromise
  <1>1. Init => Promise!Init
    <2> SUFFICES ASSUME Init PROVE Promise!Init
      OBVIOUS
    <2>1. \A c \in WithCallback : ProgressOf(c) = "unsent"
      BY ThreadsAssumption DEF Init, ProgressOf, Ran
    <2> QED BY <2>1 DEF Promise!Init
  <1>2. ASSUME PInv, [Next]_vars PROVE [Promise!Next]_Progress
    <2>1. ASSUME NEW t \in Threads, Step(t) PROVE Promise!Next \/ Progress' = Progress
      BY <1>2, <2>1, HiddenSteps, SendRequestLoses DEF Step
    <2>2. ASSUME NEW t \in Threads, NEW c \in Calls, Begin(t, c)
          PROVE  Promise!Next \/ Progress' = Progress
      BY <1>2, <2>2, BeginAsks
    <2>3. ASSUME NEW r \in requests, Answer(r) PROVE Promise!Next \/ Progress' = Progress
      BY <1>2, <2>3, AnswerServes
    <2>4. ASSUME NEW r \in replies, RunCallback(r) PROVE Promise!Next \/ Progress' = Progress
      BY <1>2, <2>4, RunCallbackCompletes
    <2>5. CASE EraseCallback \/ Open \/ UNCHANGED vars
      BY <1>2, <2>5, HiddenSteps, ThreadsAssumption
    <2>6. CASE Close
      BY <1>2, <2>6, CloseLoses
    <2> QED BY <1>2, <2>1, <2>2, <2>3, <2>4, <2>5, <2>6 DEF Next
  <1> QED BY <1>1, <1>2, InitPInv, NextPInv, PTL
          DEF Spec, KeepsPromise, Promise!Spec, Progress

-----------------------------------------------------------------------------
(* The handshake *)

Msg == [kind : Kinds \cup {"update", "disconnected", "ready"},
        ok : BOOLEAN, objects : SUBSET Objects, reading : Nat]

Types ==
  /\ wire \in Seq(Msg) /\ objects \subseteq Objects /\ objects # {}
  /\ klippy \in {"up", "down"} /\ reading \in Nat
  /\ \A r \in pending : r.kind \in Kinds
  /\ state \in [objs : SUBSET Objects, status : SUBSET Objects,
                reading : Nat, settings : BOOLEAN]

(* A link that is down carries nothing, and its overlay is up; who is      *)
(* subscribed is so to a Klipper that is up.                               *)
Linked ==
  /\ ~online => wire = <<>> /\ pending = {} /\ overlay
  /\ subscribed => online /\ klippy = "up"

(* Places on the wire; place 0 is State, where everything has arrived.     *)
Is(i, kind)   == i \in DOMAIN wire /\ wire[i].kind = kind
IsOk(i, kind) == Is(i, kind) /\ wire[i].ok
OnWire(kind)  == \E i \in DOMAIN wire : Is(i, kind)
ReadyAfter(i) == \E k \in DOMAIN wire : k > i /\ wire[k].kind = "ready"
Asked(kind)   == \E r \in pending : r.kind = kind

(* What no restart will sweep away is about the objects there are.         *)
Current ==
  /\ \A i \in DOMAIN wire :
       (IsOk(i, "list") \/ IsOk(i, "subscribe")) /\ ~ReadyAfter(i) =>
         wire[i].objects = objects
  /\ online /\ ~ReadyAfter(0) =>
       state.objs \in {{}, objects} /\ state.status \in {{}, objects}

(* An object list is there, or one will come.                              *)
ListComing == \/ ReadyAfter(0) \/ Asked("list")
              \/ \E i \in DOMAIN wire : IsOk(i, "list")
Listed == online /\ klippy = "up" => state.objs = objects \/ ListComing

(* The snapshot of a subscription has arrived, or will.                    *)
Delivered == subscribed =>
  \/ ~ReadyAfter(0) /\ state.status = objects
  \/ \E i \in DOMAIN wire : IsOk(i, "subscribe") /\ ~ReadyAfter(i)

(* The last reading on its way is the one that was reported last.          *)
Carries(i) == IsOk(i, "subscribe") \/ Is(i, "update")
LastCarrier(i) == Carries(i) /\ \A k \in DOMAIN wire : k > i => ~Carries(k)
Followed == subscribed =>
  /\ \A i \in DOMAIN wire : LastCarrier(i) => wire[i].reading = reported
  /\ (\A i \in DOMAIN wire : ~Carries(i)) => state.reading = reported

StateInv == Types /\ Linked /\ Current /\ Listed /\ Delivered /\ Followed

(* A Klipper that is up gets a subscription, unless it has one.            *)
SnapshotComing == ListComing \/ Asked("subscribe")
Subscribing == online /\ klippy = "up" /\ ~subscribed => SnapshotComing

(* One that is down is covered, or will be, or was refused.                *)
Covered == online /\ klippy = "down" =>
  /\ ~ReadyAfter(0)
  /\ overlay \/ refused \/ OnWire("disconnected")
  /\ \A i \in DOMAIN wire : IsOk(i, "subscribe") =>
       \E k \in DOMAIN wire : k > i /\ Is(k, "disconnected")

(* The settings are there, or will be; ...                                 *)
Configured == online /\ klippy = "up" =>
  \/ state.settings \/ ListComing \/ Asked("settings")
  \/ OnWire("settings")

(* ... and unless the last snapshot overtook them, before it.              *)
LastSnapshot(i) == Is(i, "subscribe") /\ \A k \in DOMAIN wire : k > i => ~Is(k, "subscribe")
Pinned == subscribed /\ ~overtaken /\ ~SnapshotComing =>
  /\ \A i \in DOMAIN wire : LastSnapshot(i) =>
       state.settings \/ \E k \in DOMAIN wire : k < i /\ Is(k, "settings")
  /\ (\A i \in DOMAIN wire : ~Is(i, "subscribe")) => macros = "favorites"

TruthInv == Subscribing /\ Covered /\ Configured /\ Pinned

PanelIInv == StateInv /\ TruthInv

-----------------------------------------------------------------------------
(* Places *)

LEMMA AppendPlaces ==
  ASSUME wire \in Seq(Msg), NEW m \in Msg, wire' = Append(wire, m)
  PROVE  /\ wire' \in Seq(Msg) /\ Len(wire) \in Nat
         /\ DOMAIN wire = 1..Len(wire) /\ DOMAIN wire' = 1..(Len(wire) + 1)
         /\ \A i \in DOMAIN wire : wire'[i] = wire[i]
         /\ wire'[Len(wire) + 1] = m
         /\ \A i \in 0..Len(wire) : ReadyAfter(i)' <=> ReadyAfter(i) \/ m.kind = "ready"
<1>1. /\ wire' \in Seq(Msg) /\ Len(wire) \in Nat
      /\ DOMAIN wire = 1..Len(wire) /\ DOMAIN wire' = 1..(Len(wire) + 1)
      /\ \A i \in DOMAIN wire : wire'[i] = wire[i]
      /\ wire'[Len(wire) + 1] = m
  OBVIOUS
<1>2. ASSUME NEW i \in 0..Len(wire)
      PROVE  ReadyAfter(i)' <=> ReadyAfter(i) \/ m.kind = "ready"
  <2>1. ReadyAfter(i) => ReadyAfter(i)' BY <1>1 DEF ReadyAfter
  <2>2. m.kind = "ready" => ReadyAfter(i)' BY <1>1 DEF ReadyAfter
  <2>3. ReadyAfter(i)' /\ m.kind # "ready" => ReadyAfter(i) BY <1>1 DEF ReadyAfter
  <2> QED BY <2>1, <2>2, <2>3
<1> QED BY <1>1, <1>2

LEMMA PopPlaces ==
  ASSUME wire \in Seq(Msg), wire # <<>>, wire' = Tail(wire)
  PROVE  /\ wire' \in Seq(Msg) /\ 1 \in DOMAIN wire
         /\ Head(wire) = wire[1] /\ wire[1] \in Msg
         /\ \A i \in DOMAIN wire' :
              i \in Nat /\ i >= 1 /\ i + 1 \in DOMAIN wire /\ wire'[i] = wire[i + 1]
         /\ \A i \in DOMAIN wire : i \in Nat /\ i >= 1 /\
              (i # 1 => i - 1 \in DOMAIN wire' /\ wire'[i - 1] = wire[i])
         /\ \A i \in Nat : ReadyAfter(i)' <=> ReadyAfter(i + 1)
         /\ ReadyAfter(0) <=> wire[1].kind = "ready" \/ ReadyAfter(1)
<1>1. /\ wire' \in Seq(Msg) /\ Len(wire) \in Nat /\ Len(wire) >= 1
      /\ DOMAIN wire = 1..Len(wire) /\ DOMAIN wire' = 1..(Len(wire) - 1)
      /\ Head(wire) = wire[1]
      /\ \A i \in 1..(Len(wire) - 1) : wire'[i] = wire[i + 1]
  OBVIOUS
<1>2. \A i \in DOMAIN wire : i \in Nat /\ i >= 1 /\
        (i # 1 => i - 1 \in DOMAIN wire' /\ wire'[i - 1] = wire[i])
  <2> SUFFICES ASSUME NEW i \in 1..Len(wire)
               PROVE  i # 1 => i - 1 \in DOMAIN wire' /\ wire'[i - 1] = wire[i]
    BY <1>1
  <2>1. i # 1 => i - 1 \in 1..(Len(wire) - 1) /\ (i - 1) + 1 = i BY <1>1
  <2> QED BY <1>1, <2>1
<1>3. \A i \in DOMAIN wire' :
        i \in Nat /\ i >= 1 /\ i + 1 \in DOMAIN wire /\ wire'[i] = wire[i + 1]
  BY <1>1
<1>4. ASSUME NEW i \in Nat PROVE ReadyAfter(i)' <=> ReadyAfter(i + 1)
  <2>1. ReadyAfter(i)' => ReadyAfter(i + 1) BY <1>3 DEF ReadyAfter
  <2>2. ASSUME ReadyAfter(i + 1) PROVE ReadyAfter(i)'
    <3>1. PICK k \in DOMAIN wire : k > i + 1 /\ wire[k].kind = "ready"
      BY <2>2 DEF ReadyAfter
    <3>2. k - 1 \in DOMAIN wire' /\ wire'[k - 1] = wire[k] /\ k - 1 > i
      BY <3>1, <1>2
    <3> QED BY <3>1, <3>2 DEF ReadyAfter
  <2> QED BY <2>1, <2>2
<1>5. ReadyAfter(0) <=> wire[1].kind = "ready" \/ ReadyAfter(1)
  BY <1>1 DEF ReadyAfter
<1>6. wire' \in Seq(Msg) /\ 1 \in DOMAIN wire /\ Head(wire) = wire[1] /\ wire[1] \in Msg
  BY <1>1
<1> QED BY <1>2, <1>3, <1>4, <1>5, <1>6, Zenon

(* A link that is down keeps no promise, and need not.                     *)
LEMMA OffLine ==
  ASSUME Types', ~online', ~subscribed', wire' = <<>>, pending' = {}, overlay'
  PROVE  PanelIInv'
<1>1. DOMAIN wire' = {} OBVIOUS
<1> QED BY <1>1 DEF PanelIInv, StateInv, TruthInv, Linked, Current, Listed, Delivered,
  Followed, Subscribing, Covered, Configured, Pinned

LEMMA WrittenIsMsg ==
  ASSUME Types, NEW kind \in Kinds \cup {"update", "disconnected", "ready"},
         NEW ok \in BOOLEAN
  PROVE  Written(kind, ok) \in Msg
BY DEF Types, Written, Msg

(* What is on the wire stays there when a message joins it; ...            *)
LEMMA WritingKeeps ==
  ASSUME Types, NEW m \in Msg, wire' = Append(wire, m), m.kind # "ready"
  PROVE  /\ \A i \in 0..Len(wire) : ReadyAfter(i)' <=> ReadyAfter(i)
         /\ \A i, kind : Is(i, kind) => Is(i, kind)' /\ wire'[i] = wire[i] /\ i \in 1..Len(wire)
         /\ \A i, kind : Is(i, kind)' =>
              Is(i, kind) \/ (i = Len(wire) + 1 /\ m.kind = kind)
         /\ \A i, kind : IsOk(i, kind) => IsOk(i, kind)'
         /\ \A i, kind : IsOk(i, kind)' =>
              IsOk(i, kind) \/ (i = Len(wire) + 1 /\ m.kind = kind /\ m.ok)
         /\ \A kind : OnWire(kind) => OnWire(kind)'
         /\ OnWire(m.kind)'
         /\ pending' = pending /\ ListComing => ListComing'
<1>1. wire \in Seq(Msg) BY DEF Types
<1>2. \A i \in 0..Len(wire) : ReadyAfter(i)' <=> ReadyAfter(i)
  BY <1>1, AppendPlaces
<1>3. /\ \A i, kind : Is(i, kind) => Is(i, kind)' /\ wire'[i] = wire[i] /\ i \in 1..Len(wire)
      /\ \A i, kind : IsOk(i, kind) => IsOk(i, kind)'
  BY <1>1, AppendPlaces DEF Is, IsOk
<1>4. /\ \A i, kind : Is(i, kind)' =>
           Is(i, kind) \/ (i = Len(wire) + 1 /\ m.kind = kind)
      /\ \A i, kind : IsOk(i, kind)' =>
           IsOk(i, kind) \/ (i = Len(wire) + 1 /\ m.kind = kind /\ m.ok)
  BY <1>1, AppendPlaces DEF Is, IsOk
<1>5. \A kind : OnWire(kind) => OnWire(kind)' BY <1>3 DEF OnWire, Is
<1>6. OnWire(m.kind)' BY <1>1, AppendPlaces DEF OnWire, Is
<1>7. pending' = pending /\ ListComing => ListComing'
  <2>1. ReadyAfter(0) => ReadyAfter(0)' BY <1>1, <1>2, AppendPlaces
  <2>2. (\E i \in DOMAIN wire : IsOk(i, "list")) =>
          \E i \in DOMAIN wire' : IsOk(i, "list")'
    BY <1>3 DEF IsOk, Is
  <2> QED BY <2>1, <2>2 DEF ListComing, Asked
<1> QED BY <1>2, <1>3, <1>4, <1>5, <1>6, <1>7

(* What a message about the objects there are joins stays current.         *)
LEMMA WritingCurrent ==
  ASSUME Types, Current, NEW m \in Msg, wire' = Append(wire, m), m.kind # "ready",
         online, UNCHANGED <<state, objects>>,
         m.kind \in {"list", "subscribe"} /\ m.ok => m.objects = objects
  PROVE  Current'
<1>1. /\ Len(wire) \in Nat /\ wire'[Len(wire) + 1] = m
  BY AppendPlaces DEF Types
<1>2. /\ \A i \in 0..Len(wire) : ReadyAfter(i)' <=> ReadyAfter(i)
      /\ \A i, kind : Is(i, kind) => Is(i, kind)' /\ wire'[i] = wire[i] /\ i \in 1..Len(wire)
      /\ \A i, kind : IsOk(i, kind)' =>
            IsOk(i, kind) \/ (i = Len(wire) + 1 /\ m.kind = kind /\ m.ok)
  BY WritingKeeps
<1>3. ASSUME NEW i \in DOMAIN wire', IsOk(i, "list")' \/ IsOk(i, "subscribe")', ~ReadyAfter(i)'
      PROVE  wire'[i].objects = objects'
  <2>1. CASE IsOk(i, "list") \/ IsOk(i, "subscribe")
    <3>1. i \in 1..Len(wire) /\ i \in DOMAIN wire /\ wire'[i] = wire[i]
      BY <2>1, <1>2 DEF IsOk, Is
    <3> QED BY <2>1, <3>1, <1>2, <1>3 DEF Current
  <2>2. CASE ~(IsOk(i, "list") \/ IsOk(i, "subscribe"))
    <3>1. i = Len(wire) + 1 /\ m.kind \in {"list", "subscribe"} /\ m.ok
      BY <2>2, <1>3, <1>2
    <3> QED BY <3>1, <1>1
  <2> QED BY <2>1, <2>2
<1>4. ReadyAfter(0)' <=> ReadyAfter(0) BY <1>1, <1>2
<1> QED BY <1>3, <1>4 DEF Current

(* What a subscription has been promised it still is.                      *)
LEMMA WritingDelivered ==
  ASSUME Types, Delivered, NEW m \in Msg, wire' = Append(wire, m), m.kind # "ready",
         subscribed, UNCHANGED <<state, objects>>
  PROVE  Delivered'
<1>1. /\ \A i \in 0..Len(wire) : ReadyAfter(i)' <=> ReadyAfter(i)
      /\ \A i, kind : Is(i, kind) => Is(i, kind)' /\ wire'[i] = wire[i] /\ i \in 1..Len(wire)
      /\ \A i, kind : IsOk(i, kind) => IsOk(i, kind)'
  BY WritingKeeps
<1>2. CASE ~ReadyAfter(0) /\ state.status = objects
  <2>1. 0 \in 0..Len(wire) BY DEF Types
  <2> QED BY <1>2, <2>1, <1>1 DEF Delivered
<1>3. CASE \E i \in DOMAIN wire : IsOk(i, "subscribe") /\ ~ReadyAfter(i)
  <2>1. PICK i \in DOMAIN wire : IsOk(i, "subscribe") /\ ~ReadyAfter(i) BY <1>3
  <2>2. IsOk(i, "subscribe")' /\ i \in 1..Len(wire) BY <2>1, <1>1 DEF IsOk
  <2> QED BY <2>1, <2>2, <1>1 DEF Delivered, IsOk, Is
<1> QED BY <1>2, <1>3 DEF Delivered

LEMMA WritingPinned ==
  ASSUME Types, Pinned, NEW m \in Msg, wire' = Append(wire, m),
         m.kind \notin {"ready", "subscribe"}, subscribed, ~overtaken,
         ~SnapshotComing, UNCHANGED <<state, macros>>
  PROVE  Pinned'
<1>1. /\ \A i, kind : Is(i, kind) => Is(i, kind)' /\ wire'[i] = wire[i] /\ i \in 1..Len(wire)
      /\ \A i, kind : Is(i, kind)' =>
            Is(i, kind) \/ (i = Len(wire) + 1 /\ m.kind = kind)
  BY WritingKeeps
<1>2. /\ \A i \in DOMAIN wire : LastSnapshot(i) =>
           state.settings \/ \E k \in DOMAIN wire : k < i /\ Is(k, "settings")
      /\ (\A i \in DOMAIN wire : ~Is(i, "subscribe")) => macros = "favorites"
  BY DEF Pinned
<1>3. ASSUME NEW i \in DOMAIN wire', LastSnapshot(i)'
      PROVE  state'.settings \/ \E k \in DOMAIN wire' : k < i /\ Is(k, "settings")'
  <2>1. Is(i, "subscribe") /\ i \in DOMAIN wire BY <1>3, <1>1 DEF LastSnapshot, Is
  <2>2. LastSnapshot(i)
    <3>1. ASSUME NEW k \in DOMAIN wire, k > i, Is(k, "subscribe") PROVE FALSE
      BY <3>1, <1>3, <1>1 DEF LastSnapshot, Is
    <3> QED BY <2>1, <3>1 DEF LastSnapshot
  <2> QED BY <2>1, <2>2, <1>1, <1>2 DEF Is
<1>4. (\A i \in DOMAIN wire' : ~Is(i, "subscribe")') => macros' = "favorites"
  BY <1>1, <1>2 DEF Is
<1> QED BY <1>3, <1>4 DEF Pinned

(* ... and moves up one place when the first has arrived.                  *)
LEMMA ArrivalKeeps ==
  ASSUME Types, wire # <<>>, wire' = Tail(wire), pending \subseteq pending'
  PROVE  /\ 1 \in DOMAIN wire /\ Head(wire) = wire[1] /\ wire[1] \in Msg
         /\ wire' \in Seq(Msg)
         /\ \A i \in Nat : ReadyAfter(i)' <=> ReadyAfter(i + 1)
         /\ wire[1].kind # "ready" => (ReadyAfter(0)' <=> ReadyAfter(0))
         /\ \A i, kind : Is(i, kind)' =>
              i \in Nat /\ i >= 1 /\ Is(i + 1, kind) /\ wire'[i] = wire[i + 1]
         /\ \A i, kind : Is(i, kind) /\ i # 1 =>
              i \in Nat /\ i >= 1 /\ Is(i - 1, kind)'
         /\ \A i, kind : IsOk(i, kind)' => IsOk(i + 1, kind)
         /\ \A i, kind : IsOk(i, kind) /\ i # 1 => IsOk(i - 1, kind)'
         /\ \A kind : OnWire(kind) /\ wire[1].kind # kind => OnWire(kind)'
         /\ wire[1].kind # "ready" /\ ~IsOk(1, "list") =>
              (ListComing => ListComing') /\ (SnapshotComing => SnapshotComing')
<1>1. wire \in Seq(Msg) BY DEF Types
<1>2. /\ 1 \in DOMAIN wire /\ Head(wire) = wire[1] /\ wire[1] \in Msg
      /\ wire' \in Seq(Msg)
      /\ \A i \in Nat : ReadyAfter(i)' <=> ReadyAfter(i + 1)
  BY <1>1, PopPlaces
<1>3. wire[1].kind # "ready" => (ReadyAfter(0)' <=> ReadyAfter(0)) BY <1>1, PopPlaces
<1>4. /\ \A i, kind : Is(i, kind)' =>
           i \in Nat /\ i >= 1 /\ Is(i + 1, kind) /\ wire'[i] = wire[i + 1]
      /\ \A i, kind : IsOk(i, kind)' => IsOk(i + 1, kind)
  BY <1>1, PopPlaces DEF Is, IsOk
<1>5. /\ \A i, kind : Is(i, kind) /\ i # 1 => i \in Nat /\ i >= 1 /\ Is(i - 1, kind)'
      /\ \A i, kind : IsOk(i, kind) /\ i # 1 => IsOk(i - 1, kind)'
  BY <1>1, PopPlaces DEF Is, IsOk
<1>6. ASSUME NEW kind, OnWire(kind), wire[1].kind # kind PROVE OnWire(kind)'
  <2>1. PICK i \in DOMAIN wire : Is(i, kind) BY <1>6 DEF OnWire
  <2>2. i # 1 BY <2>1, <1>6 DEF Is
  <2>3. Is(i - 1, kind)' BY <2>1, <2>2, <1>5
  <2> QED BY <2>3 DEF OnWire, Is
<1>7. ASSUME ListComing, wire[1].kind # "ready", ~IsOk(1, "list") PROVE ListComing'
  <2>1. CASE ReadyAfter(0) BY <2>1, <1>3, <1>7 DEF ListComing
  <2>2. CASE Asked("list") BY <2>2 DEF ListComing, Asked
  <2>3. CASE \E i \in DOMAIN wire : IsOk(i, "list")
    <3>1. PICK i \in DOMAIN wire : IsOk(i, "list") BY <2>3
    <3>2. IsOk(i - 1, "list")' BY <3>1, <1>7, <1>5
    <3> QED BY <3>2 DEF ListComing, IsOk, Is
  <2> QED BY <1>7, <2>1, <2>2, <2>3 DEF ListComing
<1>8. ASSUME SnapshotComing, wire[1].kind # "ready", ~IsOk(1, "list") PROVE SnapshotComing'
  BY <1>8, <1>7 DEF SnapshotComing, Asked
<1> QED BY <1>2, <1>3, <1>4, <1>5, <1>6, <1>7, <1>8, Zenon

(* What the first message leaves behind.                                   *)
LEMMA ArrivalCurrent ==
  ASSUME Types, Current, wire # <<>>, wire' = Tail(wire), pending \subseteq pending',
         UNCHANGED objects
  PROVE  \A i \in DOMAIN wire' :
           (IsOk(i, "list")' \/ IsOk(i, "subscribe")') /\ ~ReadyAfter(i)' =>
             wire'[i].objects = objects'
<1> SUFFICES ASSUME NEW i \in DOMAIN wire', IsOk(i, "list")' \/ IsOk(i, "subscribe")',
                    ~ReadyAfter(i)'
             PROVE  wire'[i].objects = objects
  OBVIOUS
<1>1. i \in Nat /\ wire'[i] = wire[i + 1] /\ (IsOk(i + 1, "list") \/ IsOk(i + 1, "subscribe"))
  BY ArrivalKeeps DEF IsOk
<1>2. ~ReadyAfter(i + 1) BY <1>1, ArrivalKeeps
<1>3. i + 1 \in DOMAIN wire BY <1>1 DEF IsOk, Is
<1> QED BY <1>1, <1>2, <1>3 DEF Current

LEMMA ArrivalDelivered ==
  ASSUME Types, Delivered, wire # <<>>, wire' = Tail(wire), pending \subseteq pending',
         subscribed, ~IsOk(1, "subscribe"), wire[1].kind # "ready",
         state'.status = state.status, UNCHANGED objects
  PROVE  Delivered'
<1>1. CASE ~ReadyAfter(0) /\ state.status = objects
  BY <1>1, ArrivalKeeps DEF Delivered
<1>2. CASE \E i \in DOMAIN wire : IsOk(i, "subscribe") /\ ~ReadyAfter(i)
  <2>1. PICK i \in DOMAIN wire : IsOk(i, "subscribe") /\ ~ReadyAfter(i) BY <1>2
  <2>2. i # 1 BY <2>1
  <2>3. i - 1 \in Nat /\ (i - 1) + 1 = i BY <2>1, <2>2, ArrivalKeeps DEF IsOk
  <2>4. IsOk(i - 1, "subscribe")' BY <2>1, <2>2, ArrivalKeeps
  <2>5. ~ReadyAfter(i - 1)' BY <2>1, <2>3, ArrivalKeeps
  <2> QED BY <2>4, <2>5 DEF Delivered, IsOk, Is
<1> QED BY <1>1, <1>2 DEF Delivered

LEMMA ArrivalFollowed ==
  ASSUME Types, Followed, wire # <<>>, wire' = Tail(wire), pending \subseteq pending',
         subscribed, UNCHANGED reported
  PROVE  /\ \A i \in DOMAIN wire' : LastCarrier(i)' => wire'[i].reading = reported'
         /\ (\A i \in DOMAIN wire' : ~Carries(i)') =>
              IF Carries(1) THEN wire[1].reading = reported ELSE state.reading = reported
<1>1. /\ \A i : Carries(i)' => i \in Nat /\ i >= 1 /\ Carries(i + 1) /\ wire'[i] = wire[i + 1]
      /\ \A i : Carries(i) /\ i # 1 => i \in Nat /\ i >= 1 /\ Carries(i - 1)'
  BY ArrivalKeeps DEF Carries, IsOk
<1>2. /\ \A i : Carries(i) => i \in DOMAIN wire
      /\ \A i : Carries(i)' => i \in DOMAIN wire'
  BY DEF Carries, IsOk, Is
<1>3. ASSUME NEW i \in DOMAIN wire', LastCarrier(i)' PROVE wire'[i].reading = reported'
  <2>1. i \in Nat /\ i >= 1 /\ Carries(i + 1) /\ wire'[i] = wire[i + 1]
    BY <1>1, <1>3 DEF LastCarrier
  <2>2. ASSUME NEW k \in DOMAIN wire, k > i + 1, Carries(k) PROVE FALSE
    <3>1. k # 1 BY <2>1, <2>2
    <3>2. k \in Nat /\ Carries(k - 1)' BY <3>1, <2>2, <1>1
    <3>3. k - 1 > i /\ k - 1 \in DOMAIN wire' BY <3>2, <2>1, <2>2, <1>2
    <3> QED BY <3>2, <3>3, <1>3 DEF LastCarrier
  <2>3. LastCarrier(i + 1) BY <2>1, <2>2 DEF LastCarrier
  <2> QED BY <2>1, <2>3, <1>2 DEF Followed
<1>4. ASSUME \A i \in DOMAIN wire' : ~Carries(i)'
      PROVE  IF Carries(1) THEN wire[1].reading = reported ELSE state.reading = reported
  <2>1. \A i : Carries(i) => i = 1 BY <1>1, <1>2, <1>4
  <2>2. CASE Carries(1)
    <3>1. LastCarrier(1) BY <2>1, <2>2 DEF LastCarrier
    <3> QED BY <2>2, <3>1, <1>2 DEF Followed
  <2>3. CASE ~Carries(1) BY <2>1, <2>3 DEF Followed
  <2> QED BY <2>2, <2>3
<1> QED BY <1>3, <1>4

LEMMA ArrivalCovered ==
  ASSUME Types, Covered, wire # <<>>, wire' = Tail(wire), pending \subseteq pending',
         online, klippy = "down"
  PROVE  /\ wire[1].kind # "ready" /\ ~ReadyAfter(0)'
         /\ \A i \in DOMAIN wire' : IsOk(i, "subscribe")' =>
              \E k \in DOMAIN wire' : k > i /\ Is(k, "disconnected")'
<1>1. wire[1].kind # "ready" /\ ~ReadyAfter(0)
  BY PopPlaces DEF Covered, Types
<1>2. ASSUME NEW i \in DOMAIN wire', IsOk(i, "subscribe")'
      PROVE  \E k \in DOMAIN wire' : k > i /\ Is(k, "disconnected")'
  <2>1. i \in Nat /\ i >= 1 /\ IsOk(i + 1, "subscribe") BY <1>2, ArrivalKeeps DEF IsOk
  <2>2. PICK k \in DOMAIN wire : k > i + 1 /\ Is(k, "disconnected")
    BY <2>1 DEF Covered, IsOk, Is
  <2>3. k # 1 BY <2>1, <2>2
  <2>4. k \in Nat /\ Is(k - 1, "disconnected")' BY <2>2, <2>3, ArrivalKeeps
  <2>5. k - 1 > i /\ k - 1 \in DOMAIN wire' BY <2>1, <2>2, <2>4 DEF Is
  <2> QED BY <2>4, <2>5
<1> QED BY <1>1, <1>2, ArrivalKeeps

LEMMA ArrivalPinned ==
  ASSUME Types, Pinned, wire # <<>>, wire' = Tail(wire), pending \subseteq pending',
         subscribed, ~overtaken, ~SnapshotComing
  PROVE  /\ \A i \in DOMAIN wire' : LastSnapshot(i)' =>
              \/ state.settings \/ wire[1].kind = "settings"
              \/ \E k \in DOMAIN wire' : k < i /\ Is(k, "settings")'
         /\ (\A i \in DOMAIN wire' : ~Is(i, "subscribe")') =>
              IF wire[1].kind = "subscribe" THEN state.settings ELSE macros = "favorites"
<1>1. /\ \A i, kind : Is(i, kind)' =>
           i \in Nat /\ i >= 1 /\ Is(i + 1, kind) /\ wire'[i] = wire[i + 1]
      /\ \A i, kind : Is(i, kind) /\ i # 1 =>
           i \in Nat /\ i >= 1 /\ Is(i - 1, kind)'
      /\ 1 \in DOMAIN wire
  BY ArrivalKeeps
<1>2. /\ \A i, kind : Is(i, kind) => i \in DOMAIN wire
      /\ \A i, kind : Is(i, kind)' => i \in DOMAIN wire'
  BY DEF Is
<1>3. /\ \A i \in DOMAIN wire : LastSnapshot(i) =>
           state.settings \/ \E k \in DOMAIN wire : k < i /\ Is(k, "settings")
      /\ (\A i \in DOMAIN wire : ~Is(i, "subscribe")) => macros = "favorites"
  BY DEF Pinned
<1>4. ASSUME NEW i \in DOMAIN wire', LastSnapshot(i)', ~state.settings, wire[1].kind # "settings"
      PROVE  \E k \in DOMAIN wire' : k < i /\ Is(k, "settings")'
  <2>1. i \in Nat /\ i >= 1 /\ Is(i + 1, "subscribe") BY <1>1, <1>4 DEF LastSnapshot
  <2>2. ASSUME NEW k \in DOMAIN wire, k > i + 1, Is(k, "subscribe") PROVE FALSE
    <3>1. k # 1 BY <2>1, <2>2
    <3>2. k \in Nat /\ Is(k - 1, "subscribe")' BY <3>1, <2>2, <1>1
    <3>3. k - 1 > i /\ k - 1 \in DOMAIN wire' BY <3>2, <2>1, <2>2, <1>2
    <3> QED BY <3>2, <3>3, <1>4 DEF LastSnapshot
  <2>3. LastSnapshot(i + 1) BY <2>1, <2>2 DEF LastSnapshot
  <2>4. PICK k \in DOMAIN wire : k < i + 1 /\ Is(k, "settings") BY <2>1, <2>3, <1>2, <1>3, <1>4
  <2>5. k # 1 BY <2>4, <1>4 DEF Is
  <2>6. k \in Nat /\ Is(k - 1, "settings")' BY <2>4, <2>5, <1>1
  <2>7. k - 1 < i /\ k - 1 \in DOMAIN wire' BY <2>1, <2>4, <2>6, <1>2
  <2> QED BY <2>6, <2>7
<1>5. ASSUME \A i \in DOMAIN wire' : ~Is(i, "subscribe")'
      PROVE  IF wire[1].kind = "subscribe" THEN state.settings ELSE macros = "favorites"
  <2>1. \A i : Is(i, "subscribe") => i = 1 BY <1>1, <1>2, <1>5
  <2>2. CASE wire[1].kind = "subscribe"
    <3>1. LastSnapshot(1) BY <2>1, <2>2, <1>1 DEF LastSnapshot, Is
    <3>2. ~\E k \in DOMAIN wire : k < 1 /\ Is(k, "settings")
      <4>1. \A k \in DOMAIN wire : k = 1 \/ k >= 1 BY <1>1 DEF Is, Types
      <4> QED BY <4>1 DEF Types
    <3> QED BY <2>2, <3>1, <3>2, <1>1, <1>3
  <2>3. CASE wire[1].kind # "subscribe"
    <3>1. \A i \in DOMAIN wire : ~Is(i, "subscribe") BY <2>1, <2>3 DEF Is
    <3> QED BY <3>1, <2>3, <1>3
  <2> QED BY <2>2, <2>3
<1> QED BY <1>4, <1>5

-----------------------------------------------------------------------------
(* Klipper and Moonraker *)

LEMMA KlippyDownKeeps == ASSUME PanelIInv, KlippyDown PROVE PanelIInv'
<1> DEFINE m == Written("disconnected", TRUE)
<1> USE DEF PanelIInv, StateInv, TruthInv
<1>t. m \in Msg /\ m.kind = "disconnected" BY WrittenIsMsg DEF Written
<1>1. CASE ~online
  <2>1. wire' = <<>> /\ pending' = {} /\ overlay' /\ ~online' /\ ~subscribed'
    BY <1>1 DEF KlippyDown, Write, Linked
  <2>2. Types' BY <2>1 DEF KlippyDown, Types
  <2> QED BY <2>1, <2>2, OffLine
<1>2. CASE online
  <2>1. wire' = Append(wire, m) /\ online' /\ ~subscribed' /\ klippy' = "down"
        /\ UNCHANGED <<objects, state, pending, reading>>
    BY <1>2 DEF KlippyDown, Write
  <2>2. /\ Len(wire) \in Nat /\ wire' \in Seq(Msg)
        /\ \A i \in 0..Len(wire) : ReadyAfter(i)' <=> ReadyAfter(i)
        /\ \A i, kind : Is(i, kind) => Is(i, kind)' /\ wire'[i] = wire[i] /\ i \in 1..Len(wire)
        /\ \A i, kind : IsOk(i, kind)' =>
              IsOk(i, kind) \/ (i = Len(wire) + 1 /\ kind = "disconnected")
        /\ OnWire("disconnected")'
    <3>1. /\ Len(wire) \in Nat /\ wire' \in Seq(Msg) BY <2>1, <1>t, AppendPlaces DEF Types
    <3> HIDE DEF m
    <3> QED BY <3>1, <2>1, <1>t, WritingKeeps
  <2> PICK n \in Nat : n = Len(wire) + 1 BY <2>2
  <2>8. n \in DOMAIN wire' /\ Is(n, "disconnected")'
    <3> HIDE DEF m
    <3>1. n \in DOMAIN wire' /\ wire'[n] = m
      BY <2>1, <1>t, AppendPlaces DEF Types
    <3> QED BY <3>1, <1>t DEF Is
  <2>3. ~ReadyAfter(0) BY DEF KlippyDown, UnderWay, ReadyAfter
  <2>4. Types' BY <2>1, <2>2 DEF Types
  <2>5. Linked' BY <2>1 DEF Linked
  <2>6. Current' BY <2>1, <1>t, <1>2, WritingCurrent
  <2>7. Covered'
    <3>1. ~ReadyAfter(0)' BY <2>2, <2>3
    <3>2. ASSUME NEW i \in DOMAIN wire', IsOk(i, "subscribe")'
          PROVE  \E k \in DOMAIN wire' : k > i /\ Is(k, "disconnected")'
      <4>1. IsOk(i, "subscribe") BY <2>2, <3>2
      <4>2. i \in 1..Len(wire) BY <4>1, <2>2 DEF IsOk
      <4> QED BY <4>2, <2>2, <2>8 DEF Is
    <3> QED BY <2>2, <3>1, <3>2 DEF Covered
  <2> QED BY <2>1, <2>4, <2>5, <2>6, <2>7
      DEF Listed, Delivered, Followed, Subscribing, Configured, Pinned
<1> QED BY <1>1, <1>2

LEMMA KlippyReadyKeeps == ASSUME PanelIInv, KlippyReady PROVE PanelIInv'
<1> DEFINE m == [kind |-> "ready", ok |-> TRUE, objects |-> objects, reading |-> reading]
<1> USE DEF PanelIInv, StateInv, TruthInv
<1>t. m \in Msg /\ m.kind = "ready" BY DEF Types, Msg
<1>s. ~subscribed /\ ~subscribed' BY DEF KlippyReady, Linked
<1>o. objects' \subseteq Objects /\ objects' # {}
  <2>1. objects' \in SUBSET Objects /\ objects' \notin {{}} BY DEF KlippyReady
  <2> QED BY <2>1
<1>1. CASE ~online
  <2>1. wire' = <<>> /\ pending' = {} /\ overlay' /\ ~online'
    BY <1>1 DEF KlippyReady, Write, Linked
  <2>3. objects' \subseteq Objects /\ objects' # {} BY <1>o
  <2>4. UNCHANGED <<reading, pending, state>> /\ klippy' = "up" BY DEF KlippyReady
  <2>2. Types' BY <2>1, <2>3, <2>4 DEF Types
  <2> QED BY <2>1, <2>2, <1>s, OffLine
<1>2. CASE online
  <2>1. wire' = Append(wire, m) /\ online' /\ klippy' = "up"
        /\ UNCHANGED <<state, pending, reading>>
        /\ objects' \subseteq Objects /\ objects' # {}
    BY <1>2, <1>o DEF KlippyReady, Write, Written
  <2>2. /\ Len(wire) \in Nat /\ wire' \in Seq(Msg)
        /\ DOMAIN wire' = 1..(Len(wire) + 1) /\ wire'[Len(wire) + 1] = m
        /\ \A i \in 0..Len(wire) : ReadyAfter(i)'
    BY <2>1, <1>t, AppendPlaces DEF Types
  <2>3. ReadyAfter(0)' /\ ListComing' /\ SnapshotComing'
    BY <2>2 DEF ListComing, SnapshotComing
  <2>4. Types' BY <2>1, <2>2 DEF Types
  <2>5. Linked' BY <2>1, <1>s DEF Linked
  <2>6. Current'
    <3>1. ASSUME NEW i \in DOMAIN wire', IsOk(i, "list")' \/ IsOk(i, "subscribe")'
          PROVE  ReadyAfter(i)'
      <4>1. i \in 1..(Len(wire) + 1) BY <2>2
      <4>2. i # Len(wire) + 1 BY <3>1, <2>2, <1>t DEF IsOk, Is
      <4> QED BY <4>1, <4>2, <2>2
    <3> QED BY <3>1, <2>3 DEF Current
  <2> QED BY <2>1, <2>3, <2>4, <2>5, <2>6, <1>s
      DEF Listed, Delivered, Followed, Subscribing, Covered, Configured, Pinned
<1> QED BY <1>1, <1>2

LEMMA ReadingChangesKeeps == ASSUME PanelIInv, ReadingChanges PROVE PanelIInv'
<1> USE DEF PanelIInv, StateInv, TruthInv
<1>1. UNCHANGED <<wire, online, subscribed, klippy, objects, pending, state,
                  reported, overlay, refused, macros, overtaken>> /\ reading' = reading + 1
  BY DEF ReadingChanges, link, counts
<1>2. Types' BY <1>1 DEF Types
<1>3. Linked' BY <1>1 DEF Linked
<1>4. Current' BY <1>1 DEF Current, IsOk, Is, ReadyAfter
<1>5. Listed' BY <1>1 DEF Listed, ListComing, Asked, IsOk, Is, ReadyAfter
<1>6. Delivered' BY <1>1 DEF Delivered, IsOk, Is, ReadyAfter
<1>7. Followed' BY <1>1 DEF Followed, LastCarrier, Carries, IsOk, Is
<1>8. Subscribing' BY <1>1 DEF Subscribing, SnapshotComing, ListComing, Asked, IsOk, Is, ReadyAfter
<1>9. Covered' BY <1>1 DEF Covered, OnWire, IsOk, Is, ReadyAfter
<1>10. Configured' BY <1>1 DEF Configured, OnWire, ListComing, Asked, IsOk, Is, ReadyAfter
<1>11. Pinned'
  BY <1>1 DEF Pinned, LastSnapshot, SnapshotComing, ListComing, Asked, IsOk, Is, ReadyAfter
<1> QED BY <1>2, <1>3, <1>4, <1>5, <1>6, <1>7, <1>8, <1>9, <1>10, <1>11

(* A report of the reading, which every subscriber gets.                   *)
LEMMA StatusTickKeeps == ASSUME PanelIInv, StatusTick PROVE PanelIInv'
<1> DEFINE m == [kind |-> "update", ok |-> TRUE, objects |-> objects, reading |-> reading]
<1> USE DEF PanelIInv, StateInv, TruthInv
<1>t. m \in Msg /\ m.kind = "update" /\ m.reading = reading BY DEF Types, Msg
<1>1. wire' = Append(wire, m) /\ online /\ subscribed /\ klippy = "up" /\ reported' = reading
      /\ UNCHANGED <<state, pending, reading, objects, klippy, online, subscribed,
                     overlay, refused, macros, overtaken>>
  BY DEF StatusTick, Write, Written, Linked, printer, counts
<1>2. /\ Len(wire) \in Nat /\ wire' \in Seq(Msg)
      /\ DOMAIN wire' = 1..(Len(wire) + 1) /\ wire'[Len(wire) + 1] = m
  BY <1>1, <1>t, AppendPlaces DEF Types
<1>3. /\ \A i \in 0..Len(wire) : ReadyAfter(i)' <=> ReadyAfter(i)
      /\ \A i, kind : Is(i, kind) => Is(i, kind)' /\ wire'[i] = wire[i] /\ i \in 1..Len(wire)
      /\ \A i, kind : Is(i, kind)' =>
            Is(i, kind) \/ (i = Len(wire) + 1 /\ kind = "update")
      /\ \A i, kind : IsOk(i, kind) => IsOk(i, kind)'
      /\ \A i, kind : IsOk(i, kind)' =>
            IsOk(i, kind) \/ (i = Len(wire) + 1 /\ kind = "update")
      /\ \A kind : OnWire(kind) => OnWire(kind)'
      /\ ListComing => ListComing'
  BY <1>1, <1>t, WritingKeeps
<1>4. SnapshotComing => SnapshotComing' BY <1>1, <1>3 DEF SnapshotComing, Asked
<1>5. ReadyAfter(0)' <=> ReadyAfter(0) BY <1>2, <1>3
<1>6. Types' BY <1>1, <1>2 DEF Types
<1>7. Linked' BY <1>1 DEF Linked
<1>8. Current' BY <1>1, <1>t, WritingCurrent
<1>9. Listed' BY <1>1, <1>3 DEF Listed
<1>10. Delivered' BY <1>1, <1>t, WritingDelivered
<1>11. Followed'
  <2> HIDE DEF m
  <2> PICK n \in Nat : n = Len(wire) + 1 BY <1>2
  <2>1. n \in DOMAIN wire' /\ wire'[n].kind = "update" BY <1>2, <1>t
  <2>2. Carries(n)' BY <2>1 DEF Carries, Is
  <2>3. ASSUME NEW i \in DOMAIN wire', LastCarrier(i)' PROVE wire'[i].reading = reported'
    <3>1. ~(n > i) BY <2>1, <2>2, <2>3 DEF LastCarrier
    <3>2. i = Len(wire) + 1 BY <3>1, <1>2
    <3> QED BY <3>2, <1>1, <1>2, <1>t
  <2> QED BY <2>1, <2>2, <2>3 DEF Followed
<1>12. Subscribing' /\ Covered' BY <1>1 DEF Subscribing, Covered
<1>13. Configured' BY <1>1, <1>3 DEF Configured, Asked
<1>14. Pinned'
  <2> SUFFICES ASSUME ~overtaken', ~SnapshotComing' PROVE Pinned' BY DEF Pinned
  <2> QED BY <1>1, <1>t, <1>4, WritingPinned
<1> QED BY <1>6, <1>7, <1>8, <1>9, <1>10, <1>11, <1>12, <1>13, <1>14

(* A request is answered.                                                  *)
LEMMA AnswerKeeps == ASSUME PanelIInv, NEW r \in pending, AnswerRequest(r) PROVE PanelIInv'
<1> DEFINE ok == r.kind = "settings" \/ klippy = "up"
           m == Written(r.kind, ok)
<1> USE DEF PanelIInv, StateInv, TruthInv
<1>k. r.kind \in Kinds BY DEF Types
<1>t. m \in Msg /\ m.kind = r.kind /\ m.ok = ok /\ m.objects = objects /\ m.reading = reading
      /\ m.kind \notin {"ready", "disconnected", "update"}
  <2>1. ok \in BOOLEAN OBVIOUS
  <2>2. m \in Msg BY <2>1, <1>k, WrittenIsMsg
  <2>3. m.kind = r.kind /\ m.ok = ok /\ m.objects = objects /\ m.reading = reading
    BY DEF Written
  <2> QED BY <2>2, <2>3, <1>k DEF Kinds
<1>c. online BY DEF Linked
<1>1. wire' = Append(wire, m) /\ pending' = pending \ {r}
      /\ UNCHANGED <<state, reading, objects, klippy, online, overlay, refused, macros>>
  BY <1>c DEF AnswerRequest, Write, printer
<1>b. /\ r.kind = "subscribe" /\ klippy = "up" => subscribed' = TRUE /\ reported' = reading
      /\ ~(r.kind = "subscribe" /\ klippy = "up") => UNCHANGED <<subscribed, reported>>
      /\ overtaken' = IF r.kind = "subscribe" THEN Asked("settings") ELSE overtaken
  BY DEF AnswerRequest, Asked
<1> HIDE DEF m
<1>2. /\ Len(wire) \in Nat /\ wire' \in Seq(Msg)
      /\ DOMAIN wire' = 1..(Len(wire) + 1) /\ wire'[Len(wire) + 1] = m
      /\ \A i \in DOMAIN wire : wire'[i] = wire[i]
  BY <1>1, <1>t, AppendPlaces DEF Types
<1>3. /\ \A i \in 0..Len(wire) : ReadyAfter(i)' <=> ReadyAfter(i)
      /\ \A i, kind : Is(i, kind) => Is(i, kind)' /\ wire'[i] = wire[i] /\ i \in 1..Len(wire)
      /\ \A i, kind : Is(i, kind)' =>
            Is(i, kind) \/ (i = Len(wire) + 1 /\ m.kind = kind)
      /\ \A i, kind : IsOk(i, kind) => IsOk(i, kind)'
      /\ \A i, kind : IsOk(i, kind)' =>
            IsOk(i, kind) \/ (i = Len(wire) + 1 /\ m.kind = kind /\ m.ok)
      /\ \A kind : OnWire(kind) => OnWire(kind)'
      /\ OnWire(r.kind)'
  BY <1>1, <1>t, WritingKeeps
<1> PICK n \in Nat : n = Len(wire) + 1 BY <1>2
<1>4. n \in DOMAIN wire' /\ wire'[n] = m BY <1>2
<1>5. ReadyAfter(0)' <=> ReadyAfter(0) BY <1>2, <1>3
<1>6. \A kind : Asked(kind) => Asked(kind)' \/ r.kind = kind BY <1>1 DEF Asked
(* A list that was asked for is on the wire now.                           *)
<1>7. klippy = "up" /\ ListComing => ListComing'
  <2>1. r.kind = "list" /\ klippy = "up" => ListComing'
    <3> SUFFICES ASSUME r.kind = "list", klippy = "up" PROVE ListComing' OBVIOUS
    <3>1. IsOk(n, "list")' BY <1>4, <1>t DEF IsOk, Is
    <3> QED BY <3>1, <1>4 DEF ListComing
  <2>2. (\E i \in DOMAIN wire : IsOk(i, "list")) => \E i \in DOMAIN wire' : IsOk(i, "list")'
    BY <1>3 DEF IsOk, Is
  <2> QED BY <2>1, <2>2, <1>5, <1>6 DEF ListComing
<1>8. Types' BY <1>1, <1>2 DEF Types
<1>9. Linked' BY <1>1, <1>b, <1>c DEF Linked
<1>10. Current' BY <1>1, <1>c, <1>t, WritingCurrent
<1>11. Listed' BY <1>1, <1>7 DEF Listed
<1>12. Delivered'
  <2>1. CASE r.kind = "subscribe" /\ klippy = "up"
    <3>1. IsOk(n, "subscribe")' BY <2>1, <1>4, <1>t DEF IsOk, Is
    <3>2. ~ReadyAfter(n)' BY <1>2 DEF ReadyAfter
    <3> QED BY <3>1, <3>2, <1>4 DEF Delivered
  <2>2. CASE ~(r.kind = "subscribe" /\ klippy = "up")
    <3>1. CASE subscribed BY <3>1, <1>1, <1>t, WritingDelivered
    <3>2. CASE ~subscribed BY <3>2, <2>2, <1>b DEF Delivered
    <3> QED BY <3>1, <3>2
  <2> QED BY <2>1, <2>2
<1>13. Followed'
  <2>1. CASE r.kind = "subscribe" /\ klippy = "up"
    <3>1. Carries(n)' BY <2>1, <1>4, <1>t DEF Carries, IsOk, Is
    <3>2. ASSUME NEW i \in DOMAIN wire', LastCarrier(i)' PROVE wire'[i].reading = reported'
      <4>1. ~(n > i) BY <3>1, <3>2, <1>4 DEF LastCarrier
      <4>2. i = Len(wire) + 1 BY <4>1, <1>2
      <4> QED BY <4>2, <2>1, <1>b, <1>2, <1>t
    <3> QED BY <3>1, <3>2, <1>4 DEF Followed
  <2>2. CASE ~(r.kind = "subscribe" /\ klippy = "up") /\ subscribed'
    <3>1. subscribed /\ klippy = "up" /\ r.kind # "subscribe" /\ reported' = reported
      BY <2>2, <1>b DEF Linked
    <3>2. \A i : Carries(i) <=> Carries(i)' BY <3>1, <1>3, <1>t DEF Carries
    <3>3. \A i : Carries(i) => i \in DOMAIN wire /\ i \in DOMAIN wire' BY <3>2, <1>3 DEF Carries, IsOk, Is
    <3>4. ASSUME NEW i \in DOMAIN wire', LastCarrier(i)' PROVE wire'[i].reading = reported'
      <4>1. LastCarrier(i) /\ i \in DOMAIN wire BY <3>2, <3>3, <3>4 DEF LastCarrier
      <4> QED BY <4>1, <3>1, <1>2 DEF Followed
    <3>5. (\A i \in DOMAIN wire' : ~Carries(i)') => state'.reading = reported'
      BY <3>1, <3>2, <3>3, <1>1 DEF Followed
    <3> QED BY <3>4, <3>5 DEF Followed
  <2> QED BY <2>1, <2>2 DEF Followed
<1>14. Subscribing'
  <2> SUFFICES ASSUME klippy = "up", ~subscribed' PROVE SnapshotComing' BY <1>1 DEF Subscribing
  <2>1. r.kind # "subscribe" /\ ~subscribed BY <1>b
  <2>2. ListComing \/ Asked("subscribe") BY <2>1, <1>c DEF Subscribing, SnapshotComing
  <2> QED BY <2>1, <2>2, <1>6, <1>7 DEF SnapshotComing
<1>15. Covered'
  <2> SUFFICES ASSUME klippy = "down" PROVE Covered' BY <1>1 DEF Covered
  <2>1. ~ReadyAfter(0) /\ (overlay \/ refused \/ OnWire("disconnected")) BY <1>c DEF Covered
  <2>2. ASSUME NEW i \in DOMAIN wire', IsOk(i, "subscribe")'
        PROVE  \E k \in DOMAIN wire' : k > i /\ Is(k, "disconnected")'
    <3>1. IsOk(i, "subscribe") /\ i \in DOMAIN wire BY <2>2, <1>3, <1>t DEF IsOk, Is
    <3>2. PICK k \in DOMAIN wire : k > i /\ Is(k, "disconnected") BY <3>1, <1>c DEF Covered
    <3> QED BY <3>2, <1>3 DEF Is
  <2> QED BY <2>1, <2>2, <1>1, <1>3, <1>5 DEF Covered
<1>16. Configured'
  <2> SUFFICES ASSUME klippy = "up"
               PROVE  state.settings \/ ListComing' \/ Asked("settings")' \/ OnWire("settings")'
    BY <1>1 DEF Configured
  <2>1. state.settings \/ ListComing \/ Asked("settings") \/ OnWire("settings")
    BY <1>c DEF Configured
  <2> QED BY <2>1, <1>t, <1>3, <1>6, <1>7
<1>17. Pinned'
  <2> SUFFICES ASSUME subscribed', ~overtaken', ~SnapshotComing' PROVE Pinned' BY DEF Pinned
  <2>1. klippy = "up" BY <1>b DEF Linked
  <2>2. ~ListComing BY <2>1, <1>7 DEF SnapshotComing
  <2>3. CASE r.kind # "subscribe"
    <3>1. subscribed /\ ~overtaken BY <2>3, <1>b
    <3>2. ~SnapshotComing BY <2>2, <2>3, <1>6 DEF SnapshotComing
    <3> QED BY <3>1, <3>2, <2>3, <1>1, <1>t, WritingPinned
  <2>4. CASE r.kind = "subscribe"
    <3>1. ~Asked("settings") BY <2>4, <1>b
    <3>2. state.settings \/ OnWire("settings") BY <3>1, <2>1, <2>2, <1>c DEF Configured
    <3>3. Is(n, "subscribe")' BY <2>4, <1>4, <1>t DEF Is
    <3>4. ASSUME NEW i \in DOMAIN wire', LastSnapshot(i)'
          PROVE  state'.settings \/ \E k \in DOMAIN wire' : k < i /\ Is(k, "settings")'
      <4>1. ~(n > i) BY <3>3, <3>4, <1>4 DEF LastSnapshot
      <4>2. i = Len(wire) + 1 BY <4>1, <1>2
      <4>3. CASE state.settings BY <4>3, <1>1
      <4>4. CASE OnWire("settings")
        <5>1. PICK k \in DOMAIN wire : Is(k, "settings") BY <4>4 DEF OnWire
        <5>2. Is(k, "settings")' /\ k \in 1..Len(wire) BY <5>1, <1>3
        <5> QED BY <5>2, <4>2, <1>2 DEF Is
      <4> QED BY <4>3, <4>4, <3>2
    <3> QED BY <3>3, <3>4, <1>4 DEF Pinned
  <2> QED BY <2>3, <2>4
<1> QED BY <1>8, <1>9, <1>10, <1>11, <1>12, <1>13, <1>14, <1>15, <1>16, <1>17

-----------------------------------------------------------------------------
(* The event loop *)

LEMMA OnOpenKeeps == ASSUME PanelIInv, OnOpen PROVE PanelIInv'
<1> USE DEF PanelIInv, StateInv, TruthInv
<1>1. ~online /\ wire = <<>> /\ pending = {} /\ overlay /\ ~subscribed BY DEF OnOpen, Linked
<1>2. /\ wire' = <<>> /\ online' /\ ~subscribed' /\ overlay' /\ state' = Empty
      /\ pending' = [kind : {"list"}, n : {handshakes + 1}]
      /\ UNCHANGED <<klippy, objects, reading>>
  BY <1>1 DEF OnOpen, Connected, printer
<1>3. DOMAIN wire' = {} BY <1>2
<1>4. Asked("list")'
  <2>1. [kind |-> "list", n |-> handshakes + 1] \in pending' BY <1>2
  <2> QED BY <2>1 DEF Asked
<1>5. ListComing' /\ SnapshotComing' BY <1>4 DEF ListComing, SnapshotComing
<1>6. Types'
  <2>1. \A r \in pending' : r.kind \in Kinds BY <1>2 DEF Kinds
  <2>2. state' \in [objs : SUBSET Objects, status : SUBSET Objects,
                    reading : Nat, settings : BOOLEAN]
    BY <1>2 DEF Empty
  <2> QED BY <1>2, <2>1, <2>2 DEF Types
<1>7. Linked' BY <1>2 DEF Linked
<1>8. Current'
  <2>1. state'.objs = {} /\ state'.status = {} BY <1>2 DEF Empty
  <2> QED BY <2>1, <1>3 DEF Current
<1>9. Covered' BY <1>2, <1>3 DEF Covered, ReadyAfter
<1> QED BY <1>2, <1>5, <1>6, <1>7, <1>8, <1>9
    DEF Listed, Delivered, Followed, Subscribing, Configured, Pinned

LEMMA OnCloseKeeps == ASSUME PanelIInv, OnClose PROVE PanelIInv'
<1>1. wire' = <<>> /\ pending' = {} /\ overlay' /\ ~online' /\ ~subscribed'
      /\ UNCHANGED <<klippy, objects, reading, state>>
  BY DEF OnClose, printer
<1>2. Types' BY <1>1 DEF PanelIInv, StateInv, Types
<1> QED BY <1>1, <1>2, OffLine

(* What a handler makes of the first message, whichever it is: an object   *)
(* list is stored and the rest asked for, a snapshot or an update read, a  *)
(* snapshot shown and a disconnect covered.                                *)
LEMMA HandlingKeeps ==
  ASSUME PanelIInv, wire # <<>>, wire' = Tail(wire), wire[1].kind # "ready",
         UNCHANGED <<klippy, objects, reading, reported, subscribed, online, overtaken>>,
         pending \subseteq pending', \A r \in pending' : r.kind \in Kinds,
         state' \in [objs : SUBSET Objects, status : SUBSET Objects,
                    reading : Nat, settings : BOOLEAN],
         state'.objs = IF IsOk(1, "list") THEN wire[1].objects ELSE state.objs,
         IsOk(1, "list") => Asked("settings")' /\ Asked("subscribe")',
         state'.status = IF IsOk(1, "subscribe") THEN state.status \cup wire[1].objects
                         ELSE state.status,
         state'.reading = IF Carries(1) THEN wire[1].reading ELSE state.reading,
         state'.settings = IF Is(1, "settings") THEN TRUE ELSE state.settings,
         ~Is(1, "subscribe") => macros' = macros /\ (overlay => overlay'),
         Is(1, "subscribe") =>
           macros' = (IF state'.status = {} THEN "none"
                      ELSE IF state'.settings THEN "favorites" ELSE "plain"),
         refused \/ (Is(1, "subscribe") /\ ~wire[1].ok) => refused',
         Is(1, "disconnected") => overlay'
  PROVE  PanelIInv'
<1> USE DEF PanelIInv, StateInv, TruthInv
<1>1. online /\ Types BY DEF Linked
<1>2. /\ wire' \in Seq(Msg) /\ 1 \in DOMAIN wire
      /\ \A i \in Nat : ReadyAfter(i)' <=> ReadyAfter(i + 1)
      /\ ReadyAfter(0)' <=> ReadyAfter(0)
      /\ \A kind : OnWire(kind) /\ wire[1].kind # kind => OnWire(kind)'
      /\ ~IsOk(1, "list") => (ListComing => ListComing')
      /\ ~IsOk(1, "list") => (SnapshotComing => SnapshotComing')
      /\ IsOk(1, "list") => SnapshotComing'
  BY <1>1, ArrivalKeeps DEF SnapshotComing
<1>3. \A kind : Asked(kind) => Asked(kind)' BY DEF Asked
<1>4. Types' BY <1>1, <1>2 DEF Types
<1>5. Linked' BY <1>1, <1>2 DEF Linked
<1>6. Current'
  <2>1. \A i \in DOMAIN wire' :
          (IsOk(i, "list")' \/ IsOk(i, "subscribe")') /\ ~ReadyAfter(i)' =>
            wire'[i].objects = objects'
    BY <1>1, ArrivalCurrent
  <2>2. ASSUME ~ReadyAfter(0)'
        PROVE  state'.objs \in {{}, objects} /\ state'.status \in {{}, objects}
    <3>1. ~ReadyAfter(0) /\ ~ReadyAfter(1) BY <2>2, <1>2
    <3>2. state.objs \in {{}, objects} /\ state.status \in {{}, objects}
      BY <3>1, <1>1 DEF Current
    <3>3. IsOk(1, "list") \/ IsOk(1, "subscribe") => wire[1].objects = objects
      BY <3>1, <1>2 DEF Current
    <3>4. state'.objs \in {{}, objects} BY <3>2, <3>3
    <3>5. state'.status \in {{}, objects} BY <3>2, <3>3
    <3> QED BY <3>4, <3>5
  <2> QED BY <2>1, <2>2 DEF Current
<1>7. Listed'
  <2>1. CASE IsOk(1, "list")
    <3>1. ReadyAfter(0)' \/ wire[1].objects = objects BY <2>1, <1>2 DEF Current
    <3> QED BY <2>1, <3>1 DEF Listed, ListComing
  <2>2. CASE ~IsOk(1, "list") BY <2>2, <1>2 DEF Listed
  <2> QED BY <2>1, <2>2
<1>8. Delivered'
  <2>1. CASE ~subscribed BY <2>1 DEF Delivered
  <2>2. CASE subscribed /\ ~IsOk(1, "subscribe") BY <2>2, <1>1, ArrivalDelivered
  <2>3. CASE subscribed /\ IsOk(1, "subscribe")
    <3>1. ASSUME ~ReadyAfter(0) PROVE Delivered'
      <4>1. ~ReadyAfter(1) BY <3>1, <1>2
      <4>2. wire[1].objects = objects /\ state.status \in {{}, objects}
        BY <2>3, <3>1, <4>1, <1>1, <1>2 DEF Current
      <4>3. state'.status = objects BY <2>3, <4>2
      <4> QED BY <3>1, <4>3, <1>2 DEF Delivered
    <3>2. ASSUME ReadyAfter(0) PROVE Delivered'
      <4>1. PICK i \in DOMAIN wire : IsOk(i, "subscribe") /\ ~ReadyAfter(i)
        BY <2>3, <3>2 DEF Delivered
      <4>2. i # 1 BY <4>1, <3>2, <1>2
      <4>3. i - 1 \in Nat /\ (i - 1) + 1 = i
        BY <4>1, <4>2, <1>1, ArrivalKeeps DEF IsOk
      <4>4. IsOk(i - 1, "subscribe")' BY <4>1, <4>2, <1>1, ArrivalKeeps
      <4>5. ~ReadyAfter(i - 1)' BY <4>1, <4>3, <1>2
      <4> QED BY <4>4, <4>5 DEF Delivered, IsOk, Is
    <3> QED BY <3>1, <3>2
  <2> QED BY <2>1, <2>2, <2>3
<1>9. Followed'
  <2> SUFFICES ASSUME subscribed PROVE Followed' BY DEF Followed
  <2> QED BY <1>1, ArrivalFollowed DEF Followed
<1>10. Subscribing' BY <1>1, <1>2 DEF Subscribing
<1>11. Covered'
  <2> SUFFICES ASSUME klippy = "down" PROVE Covered' BY DEF Covered
  <2>1. /\ ~ReadyAfter(0)'
        /\ \A i \in DOMAIN wire' : IsOk(i, "subscribe")' =>
             \E k \in DOMAIN wire' : k > i /\ Is(k, "disconnected")'
    BY <1>1, ArrivalCovered
  <2>2. overlay' \/ refused' \/ OnWire("disconnected")'
    <3>1. CASE Is(1, "disconnected") BY <3>1
    <3>2. CASE Is(1, "subscribe")
      <4>1. CASE wire[1].ok
        <5>1. PICK k \in DOMAIN wire : k > 1 /\ Is(k, "disconnected")
          BY <3>2, <4>1, <1>1, <1>2 DEF Covered, IsOk
        <5> QED BY <5>1, <3>2, <1>2 DEF OnWire, Is
      <4>2. CASE ~wire[1].ok BY <3>2, <4>2
      <4> QED BY <4>1, <4>2
    <3>3. CASE ~Is(1, "disconnected") /\ ~Is(1, "subscribe")
      <4>1. overlay \/ refused \/ OnWire("disconnected") BY <1>1 DEF Covered
      <4>2. wire[1].kind # "disconnected" BY <3>3, <1>2 DEF Is
      <4> QED BY <3>3, <4>1, <4>2, <1>2
    <3> QED BY <3>1, <3>2, <3>3
  <2> QED BY <2>1, <2>2 DEF Covered
<1>12. Configured'
  <2> SUFFICES ASSUME klippy = "up"
               PROVE  \/ state'.settings \/ ListComing' \/ Asked("settings")'
                      \/ OnWire("settings")'
    BY DEF Configured
  <2>1. state.settings \/ ListComing \/ Asked("settings") \/ OnWire("settings")
    BY <1>1 DEF Configured
  <2>2. state.settings => state'.settings OBVIOUS
  <2>3. OnWire("settings") => state'.settings \/ OnWire("settings")' BY <1>2 DEF Is
  <2> QED BY <2>1, <2>2, <2>3, <1>2, <1>3
<1>13. Pinned'
  <2> SUFFICES ASSUME subscribed, ~overtaken, ~SnapshotComing' PROVE Pinned' BY DEF Pinned
  <2>1. ~SnapshotComing BY <1>2
  <2>2. /\ \A i \in DOMAIN wire' : LastSnapshot(i)' =>
             \/ state.settings \/ wire[1].kind = "settings"
             \/ \E k \in DOMAIN wire' : k < i /\ Is(k, "settings")'
        /\ (\A i \in DOMAIN wire' : ~Is(i, "subscribe")') =>
             IF wire[1].kind = "subscribe" THEN state.settings ELSE macros = "favorites"
    BY <2>1, <1>1, ArrivalPinned
  <2>3. state.settings \/ wire[1].kind = "settings" => state'.settings BY <1>2 DEF Is
  <2>4. ASSUME \A i \in DOMAIN wire' : ~Is(i, "subscribe")' PROVE macros' = "favorites"
    <3>1. CASE Is(1, "subscribe")
      <4>1. state'.settings BY <2>2, <2>3, <2>4, <3>1 DEF Is
      <4>2. state'.status = objects BY <2>4, <1>8 DEF Delivered, IsOk
      <4>3. state'.status # {} BY <4>2, <1>1 DEF Types
      <4> QED BY <3>1, <4>1, <4>3
    <3>2. CASE ~Is(1, "subscribe") BY <2>2, <2>4, <3>2, <1>2 DEF Is
    <3> QED BY <3>1, <3>2
  <2> QED BY <2>2, <2>3, <2>4 DEF Pinned
<1> QED BY <1>4, <1>5, <1>6, <1>7, <1>8, <1>9, <1>10, <1>11, <1>12, <1>13

LEMMA ObjectListKeeps == ASSUME PanelIInv, ObjectList PROVE PanelIInv'
<1>1. /\ wire # <<>> /\ wire' = Tail(wire) /\ Head(wire).kind = "list"
      /\ UNCHANGED <<klippy, objects, reading, reported, subscribed, online,
                     overtaken>>
  BY DEF ObjectList, Received, printer, counts
<1>2. Head(wire) = wire[1] /\ wire[1] \in Msg /\ 1 \in DOMAIN wire
  BY <1>1, PopPlaces DEF PanelIInv, StateInv, Types
<1>3. /\ \A kind : Is(1, kind) <=> kind = "list"
      /\ IsOk(1, "list") <=> "list" = "list" /\ wire[1].ok
      /\ IsOk(1, "subscribe") <=> "list" = "subscribe" /\ wire[1].ok
      /\ Carries(1) <=> "list" = "update" \/ IsOk(1, "subscribe")
      /\ wire[1].kind # "ready"
  BY <1>1, <1>2 DEF Is, IsOk, Carries
<1>4. state \in [objs : SUBSET Objects, status : SUBSET Objects,
                  reading : Nat, settings : BOOLEAN]
  BY DEF PanelIInv, StateInv, Types
<1>k. \A r \in pending : r.kind \in Kinds BY DEF PanelIInv, StateInv, Types
<1>5. state' = IF wire[1].ok THEN [state EXCEPT !.objs = wire[1].objects] ELSE state
  BY <1>2 DEF ObjectList
<1>6. /\ state' \in [objs : SUBSET Objects, status : SUBSET Objects,
                  reading : Nat, settings : BOOLEAN]
      /\ state'.objs = IF wire[1].ok THEN wire[1].objects ELSE state.objs
      /\ state'.status = state.status /\ state'.reading = state.reading
      /\ state'.settings = state.settings
  <2>1. CASE wire[1].ok BY <2>1, <1>2, <1>4, <1>5 DEF Msg
  <2>2. CASE ~wire[1].ok BY <2>2, <1>4, <1>5
  <2> QED BY <2>1, <2>2
<1>7. /\ pending' = pending \cup AskFor({"settings"})
                             \cup (IF wire[1].ok THEN AskFor({"subscribe"}) ELSE {})
      /\ UNCHANGED <<overlay, macros, refused>>
  BY <1>2 DEF ObjectList, counts
<1>8. /\ pending \subseteq pending'
      /\ \A r \in pending' : r.kind \in Kinds
  BY <1>7, <1>k DEF AskFor, Kinds
<1>9. wire[1].ok => Asked("settings")' /\ Asked("subscribe")'
  <2>1. [kind |-> "settings", n |-> handshakes] \in pending' BY <1>7 DEF AskFor
  <2>2. wire[1].ok => [kind |-> "subscribe", n |-> handshakes] \in pending' BY <1>7 DEF AskFor
  <2> QED BY <2>1, <2>2 DEF Asked
<1> QED BY <1>1, <1>3, <1>6, <1>7, <1>8, <1>9, HandlingKeeps

LEMMA StoreReplyKeeps == ASSUME PanelIInv, StoreReply PROVE PanelIInv'
<1>1. /\ wire # <<>> /\ wire' = Tail(wire) /\ Head(wire).kind = "settings"
      /\ UNCHANGED <<klippy, objects, reading, reported, subscribed, online,
                     overtaken>>
  BY DEF StoreReply, Received, printer, counts
<1>2. Head(wire) = wire[1] /\ wire[1] \in Msg /\ 1 \in DOMAIN wire
  BY <1>1, PopPlaces DEF PanelIInv, StateInv, Types
<1>3. /\ \A kind : Is(1, kind) <=> kind = "settings"
      /\ IsOk(1, "list") <=> "settings" = "list" /\ wire[1].ok
      /\ IsOk(1, "subscribe") <=> "settings" = "subscribe" /\ wire[1].ok
      /\ Carries(1) <=> "settings" = "update" \/ IsOk(1, "subscribe")
      /\ wire[1].kind # "ready"
  BY <1>1, <1>2 DEF Is, IsOk, Carries
<1>4. state \in [objs : SUBSET Objects, status : SUBSET Objects,
                  reading : Nat, settings : BOOLEAN]
  BY DEF PanelIInv, StateInv, Types
<1>k. \A r \in pending : r.kind \in Kinds BY DEF PanelIInv, StateInv, Types
<1>5. state' = [state EXCEPT !.settings = TRUE] /\ UNCHANGED <<pending, overlay, macros, refused>>
  BY DEF StoreReply, counts
<1>6. /\ state' \in [objs : SUBSET Objects, status : SUBSET Objects,
                  reading : Nat, settings : BOOLEAN]
      /\ state'.objs = state.objs /\ state'.status = state.status
      /\ state'.reading = state.reading /\ state'.settings = TRUE
  BY <1>4, <1>5
<1> QED BY <1>1, <1>3, <1>5, <1>6, <1>k, HandlingKeeps

LEMMA SnapshotKeeps == ASSUME PanelIInv, Snapshot PROVE PanelIInv'
<1>1. /\ wire # <<>> /\ wire' = Tail(wire) /\ Head(wire).kind = "subscribe"
      /\ UNCHANGED <<klippy, objects, reading, reported, subscribed, online,
                     overtaken>>
  BY DEF Snapshot, Received, printer, counts
<1>2. Head(wire) = wire[1] /\ wire[1] \in Msg /\ 1 \in DOMAIN wire
  BY <1>1, PopPlaces DEF PanelIInv, StateInv, Types
<1>3. /\ \A kind : Is(1, kind) <=> kind = "subscribe"
      /\ IsOk(1, "list") <=> "subscribe" = "list" /\ wire[1].ok
      /\ IsOk(1, "subscribe") <=> "subscribe" = "subscribe" /\ wire[1].ok
      /\ Carries(1) <=> "subscribe" = "update" \/ IsOk(1, "subscribe")
      /\ wire[1].kind # "ready"
  BY <1>1, <1>2 DEF Is, IsOk, Carries
<1>4. state \in [objs : SUBSET Objects, status : SUBSET Objects,
                  reading : Nat, settings : BOOLEAN]
  BY DEF PanelIInv, StateInv, Types
<1>k. \A r \in pending : r.kind \in Kinds BY DEF PanelIInv, StateInv, Types
<1>5. state' = IF wire[1].ok
               THEN [state EXCEPT !.status = @ \cup wire[1].objects, !.reading = wire[1].reading]
               ELSE state
  BY <1>2 DEF Snapshot, Merge
<1>6. /\ state' \in [objs : SUBSET Objects, status : SUBSET Objects,
                  reading : Nat, settings : BOOLEAN]
      /\ state'.objs = state.objs /\ state'.settings = state.settings
      /\ state'.status = IF wire[1].ok THEN state.status \cup wire[1].objects ELSE state.status
      /\ state'.reading = IF wire[1].ok THEN wire[1].reading ELSE state.reading
  <2>1. CASE wire[1].ok BY <2>1, <1>2, <1>4, <1>5 DEF Msg
  <2>2. CASE ~wire[1].ok BY <2>2, <1>4, <1>5
  <2> QED BY <2>1, <2>2
<1>7. /\ macros' = IF state'.status = {} THEN "none"
                  ELSE IF state'.settings THEN "favorites" ELSE "plain"
      /\ UNCHANGED pending
  BY DEF Snapshot
<1>8. refused \/ ~wire[1].ok => refused' BY <1>2 DEF Snapshot
<1> QED BY <1>1, <1>3, <1>6, <1>7, <1>8, <1>k, HandlingKeeps

LEMMA StatusUpdateKeeps == ASSUME PanelIInv, StatusUpdate PROVE PanelIInv'
<1>1. /\ wire # <<>> /\ wire' = Tail(wire) /\ Head(wire).kind = "update"
      /\ UNCHANGED <<klippy, objects, reading, reported, subscribed, online,
                     overtaken>>
  BY DEF StatusUpdate, Received, printer, counts
<1>2. Head(wire) = wire[1] /\ wire[1] \in Msg /\ 1 \in DOMAIN wire
  BY <1>1, PopPlaces DEF PanelIInv, StateInv, Types
<1>3. /\ \A kind : Is(1, kind) <=> kind = "update"
      /\ IsOk(1, "list") <=> "update" = "list" /\ wire[1].ok
      /\ IsOk(1, "subscribe") <=> "update" = "subscribe" /\ wire[1].ok
      /\ Carries(1) <=> "update" = "update" \/ IsOk(1, "subscribe")
      /\ wire[1].kind # "ready"
  BY <1>1, <1>2 DEF Is, IsOk, Carries
<1>4. state \in [objs : SUBSET Objects, status : SUBSET Objects,
                  reading : Nat, settings : BOOLEAN]
  BY DEF PanelIInv, StateInv, Types
<1>k. \A r \in pending : r.kind \in Kinds BY DEF PanelIInv, StateInv, Types
<1>5. state' = [state EXCEPT !.reading = wire[1].reading]
      /\ UNCHANGED <<pending, overlay, macros, refused>>
  BY <1>2 DEF StatusUpdate, counts
<1>6. /\ state' \in [objs : SUBSET Objects, status : SUBSET Objects,
                  reading : Nat, settings : BOOLEAN]
      /\ state'.objs = state.objs /\ state'.status = state.status
      /\ state'.reading = wire[1].reading /\ state'.settings = state.settings
  BY <1>2, <1>4, <1>5 DEF Msg
<1> QED BY <1>1, <1>3, <1>5, <1>6, <1>k, HandlingKeeps

LEMMA KlippyDisconnectedKeeps == ASSUME PanelIInv, KlippyDisconnected PROVE PanelIInv'
<1>1. /\ wire # <<>> /\ wire' = Tail(wire) /\ Head(wire).kind = "disconnected"
      /\ UNCHANGED <<klippy, objects, reading, reported, subscribed, online,
                     overtaken>>
  BY DEF KlippyDisconnected, Received, printer, counts
<1>2. Head(wire) = wire[1] /\ wire[1] \in Msg /\ 1 \in DOMAIN wire
  BY <1>1, PopPlaces DEF PanelIInv, StateInv, Types
<1>3. /\ \A kind : Is(1, kind) <=> kind = "disconnected"
      /\ IsOk(1, "list") <=> "disconnected" = "list" /\ wire[1].ok
      /\ IsOk(1, "subscribe") <=> "disconnected" = "subscribe" /\ wire[1].ok
      /\ Carries(1) <=> "disconnected" = "update" \/ IsOk(1, "subscribe")
      /\ wire[1].kind # "ready"
  BY <1>1, <1>2 DEF Is, IsOk, Carries
<1>4. state \in [objs : SUBSET Objects, status : SUBSET Objects,
                  reading : Nat, settings : BOOLEAN]
  BY DEF PanelIInv, StateInv, Types
<1>k. \A r \in pending : r.kind \in Kinds BY DEF PanelIInv, StateInv, Types
<1>5. overlay' /\ UNCHANGED <<state, pending, macros, refused>>
  BY DEF KlippyDisconnected, counts
<1> QED BY <1>1, <1>3, <1>4, <1>5, <1>k, HandlingKeeps

(* A Klipper that is back: State is emptied and the list asked for anew,   *)
(* and what was promised of the one before is past.                        *)
LEMMA KlippyIsReadyKeeps == ASSUME PanelIInv, KlippyIsReady PROVE PanelIInv'
<1> USE DEF PanelIInv, StateInv, TruthInv
<1>1. /\ wire # <<>> /\ wire' = Tail(wire) /\ Head(wire).kind = "ready"
      /\ UNCHANGED <<klippy, objects, reading, reported, subscribed, online, overlay>>
      /\ state' = Empty
      /\ pending' = pending \cup [kind : {"list"}, n : {handshakes + 1}]
  BY DEF KlippyIsReady, Connected, Received, printer
<1>c. online BY <1>1 DEF Linked
<1>2. /\ 1 \in DOMAIN wire /\ wire[1].kind = "ready" /\ wire' \in Seq(Msg)
      /\ ReadyAfter(0)
      /\ \A i \in Nat : ReadyAfter(i)' <=> ReadyAfter(i + 1)
  BY <1>1, PopPlaces DEF Types
<1>3. Asked("list")'
  <2>1. [kind |-> "list", n |-> handshakes + 1] \in pending' BY <1>1
  <2> QED BY <2>1 DEF Asked
<1>4. ListComing' /\ SnapshotComing' BY <1>3 DEF ListComing, SnapshotComing
<1>5. Types'
  <2>1. \A r \in pending' : r.kind \in Kinds BY <1>1 DEF Types, Kinds
  <2>2. state' \in [objs : SUBSET Objects, status : SUBSET Objects,
                    reading : Nat, settings : BOOLEAN]
    BY <1>1 DEF Empty
  <2> QED BY <1>1, <1>2, <2>1, <2>2 DEF Types
<1>6. Linked' BY <1>1, <1>c DEF Linked
<1>7. Current'
  <2>1. state'.objs = {} /\ state'.status = {} BY <1>1 DEF Empty
  <2>2. \A i \in DOMAIN wire' :
          (IsOk(i, "list")' \/ IsOk(i, "subscribe")') /\ ~ReadyAfter(i)' =>
            wire'[i].objects = objects'
    BY <1>1, ArrivalCurrent
  <2> QED BY <2>1, <2>2 DEF Current
<1>8. Delivered' /\ (subscribed => \E i \in DOMAIN wire' : Carries(i)')
  <2> SUFFICES ASSUME subscribed
               PROVE  \E i \in DOMAIN wire' : IsOk(i, "subscribe")' /\ ~ReadyAfter(i)'
    BY <1>1 DEF Delivered, Carries
  <2>1. PICK i \in DOMAIN wire : IsOk(i, "subscribe") /\ ~ReadyAfter(i) BY <1>2 DEF Delivered
  <2>2. i # 1 BY <2>1, <1>2 DEF IsOk, Is
  <2>3. i - 1 \in Nat /\ (i - 1) + 1 = i BY <2>1, <2>2, <1>1, ArrivalKeeps DEF IsOk
  <2>4. IsOk(i - 1, "subscribe")' BY <2>1, <2>2, <1>1, ArrivalKeeps
  <2>5. ~ReadyAfter(i - 1)' BY <2>1, <2>3, <1>2
  <2> QED BY <2>4, <2>5 DEF IsOk, Is
<1>9. Followed'
  <2> SUFFICES ASSUME subscribed PROVE Followed' BY <1>1 DEF Followed
  <2>1. \A i \in DOMAIN wire' : LastCarrier(i)' => wire'[i].reading = reported'
    BY <1>1, ArrivalFollowed
  <2> QED BY <2>1, <1>8 DEF Followed
<1>10. klippy = "up" BY <1>2, <1>c DEF Covered, Types
<1> QED BY <1>1, <1>4, <1>5, <1>6, <1>7, <1>8, <1>9, <1>10
    DEF Listed, Subscribing, Covered, Configured, Pinned

-----------------------------------------------------------------------------
(* The handshake *)

LEMMA InvInit == PanelInit => PanelIInv
<1> SUFFICES ASSUME PanelInit PROVE PanelIInv OBVIOUS
<1>1. wire = <<>> /\ pending = {} /\ ~online /\ ~subscribed /\ overlay BY DEF PanelInit
<1>2. DOMAIN wire = {} BY <1>1
<1>3. Types
  <2>1. objects \subseteq Objects /\ objects # {} BY DEF PanelInit
  <2> QED BY <1>1, <2>1 DEF PanelInit, Empty, Types
<1> QED BY <1>1, <1>2, <1>3 DEF PanelIInv, StateInv, TruthInv, Linked, Current, Listed,
  Delivered, Followed, Subscribing, Covered, Configured, Pinned

LEMMA InvStutter == ASSUME PanelIInv, UNCHANGED panelVars PROVE PanelIInv'
<1> USE DEF PanelIInv, StateInv, TruthInv
<1>1. UNCHANGED <<wire, online, subscribed, klippy, objects, pending, state,
                  reported, reading, overlay, refused, macros, overtaken>>
  BY DEF panelVars
<1>2. Types' BY <1>1 DEF Types
<1>3. Linked' BY <1>1 DEF Linked
<1>4. Current' BY <1>1 DEF Current, IsOk, Is, ReadyAfter
<1>5. Listed' BY <1>1 DEF Listed, ListComing, Asked, IsOk, Is, ReadyAfter
<1>6. Delivered' BY <1>1 DEF Delivered, IsOk, Is, ReadyAfter
<1>7. Followed' BY <1>1 DEF Followed, LastCarrier, Carries, IsOk, Is
<1>8. Subscribing' BY <1>1 DEF Subscribing, SnapshotComing, ListComing, Asked, IsOk, Is, ReadyAfter
<1>9. Covered' BY <1>1 DEF Covered, OnWire, IsOk, Is, ReadyAfter
<1>10. Configured' BY <1>1 DEF Configured, OnWire, ListComing, Asked, IsOk, Is, ReadyAfter
<1>11. Pinned'
  BY <1>1 DEF Pinned, LastSnapshot, SnapshotComing, ListComing, Asked, IsOk, Is, ReadyAfter
<1> QED BY <1>2, <1>3, <1>4, <1>5, <1>6, <1>7, <1>8, <1>9, <1>10, <1>11

LEMMA InvNext == PanelIInv /\ [PanelNext]_panelVars => PanelIInv'
<1> SUFFICES ASSUME PanelIInv, [PanelNext]_panelVars PROVE PanelIInv' OBVIOUS
<1>1. CASE KlippyDown BY <1>1, KlippyDownKeeps
<1>2. CASE KlippyReady BY <1>2, KlippyReadyKeeps
<1>3. CASE ReadingChanges BY <1>3, ReadingChangesKeeps
<1>4. CASE StatusTick BY <1>4, StatusTickKeeps
<1>5. CASE \E r \in pending : AnswerRequest(r) BY <1>5, AnswerKeeps
<1>6. CASE OnOpen BY <1>6, OnOpenKeeps
<1>7. CASE OnClose BY <1>7, OnCloseKeeps
<1>8. CASE Handle
  BY <1>8, ObjectListKeeps, StoreReplyKeeps, SnapshotKeeps, StatusUpdateKeeps,
     KlippyDisconnectedKeeps, KlippyIsReadyKeeps DEF Handle
<1>9. CASE UNCHANGED panelVars BY <1>9, InvStutter
<1> QED BY <1>1, <1>2, <1>3, <1>4, <1>5, <1>6, <1>7, <1>8, <1>9 DEF PanelNext

LEMMA Invariance == PanelSpec => []PanelIInv
BY InvInit, InvNext, PTL DEF PanelSpec

(* On a link that carries nothing and owes nothing, every promise is kept. *)
LEMMA QuietPlaces ==
  ASSUME PanelIInv, Quiet
  PROVE  DOMAIN wire = {} /\ ~ReadyAfter(0) /\ ~ListComing /\ ~SnapshotComing
         /\ \A kind : ~Asked(kind) /\ ~OnWire(kind)
<1>1. DOMAIN wire = {} /\ pending = {} BY DEF Quiet
<1> QED BY <1>1 DEF ReadyAfter, ListComing, SnapshotComing, Asked, OnWire

(* A subscribed panel that has heard everything has in State the objects   *)
(* of the printer's present configuration, a status of each, and the       *)
(* reading last reported, whatever restarts, lost connections and          *)
(* interleaved handshakes it has been through (init_panel.cpp:43-60,       *)
(* state.cpp:45-59).                                                       *)
THEOREM StateIsThePrinter == PanelSpec => []StateIsThePrinters
<1>1. PanelIInv => StateIsThePrinters
  <2> SUFFICES ASSUME PanelIInv, Quiet, subscribed, reported = reading
               PROVE  state.objs = objects /\ state.status = objects /\ state.reading = reading
    BY DEF StateIsThePrinters
  <2> USE DEF PanelIInv, StateInv
  <2>1. DOMAIN wire = {} /\ ~ListComing BY QuietPlaces
  <2>2. online /\ klippy = "up" BY DEF Linked
  <2>3. state.objs = objects BY <2>1, <2>2 DEF Listed
  <2>4. state.status = objects BY <2>1 DEF Delivered
  <2>5. state.reading = reading BY <2>1 DEF Followed
  <2> QED BY <2>3, <2>4, <2>5
<1> QED BY <1>1, Invariance, PTL

(* The overlay is up whenever the panel is not following a printer, and    *)
(* the favourites are listed whenever it is, unless a subscription was     *)
(* refused or the snapshot overtook the settings (guppyscreen.cpp:187,     *)
(* init_panel.cpp:123-134, macros_panel.cpp:146).                          *)
THEOREM ScreenTellsTheTruth == PanelSpec => []OnlyRefusalOrOvertakingMisleads
<1>1. PanelIInv => OnlyRefusalOrOvertakingMisleads
  <2> SUFFICES ASSUME PanelIInv PROVE OnlyRefusalOrOvertakingMisleads OBVIOUS
  <2> USE DEF PanelIInv, StateInv, TruthInv
  <2>1. ~online => overlay BY DEF Linked
  <2>2. ASSUME Quiet, ~subscribed, ~overlay PROVE refused
    <3>1. online /\ ~SnapshotComing /\ ~OnWire("disconnected")
      BY <2>2, QuietPlaces DEF Quiet
    <3>2. klippy = "down" BY <3>1, <2>2 DEF Subscribing, Types
    <3> QED BY <3>1, <3>2, <2>2 DEF Covered
  <2>3. ASSUME Quiet, subscribed PROVE macros = "favorites" \/ overtaken
    <3>1. DOMAIN wire = {} /\ ~SnapshotComing BY <2>3, QuietPlaces
    <3> QED BY <3>1, <2>3 DEF Pinned
  <2> QED BY <2>1, <2>2, <2>3 DEF OnlyRefusalOrOvertakingMisleads
<1> QED BY <1>1, Invariance, PTL
=============================================================================
