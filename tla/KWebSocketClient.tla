-------------------------- MODULE KWebSocketClient --------------------------
(***************************************************************************)
(* The JSON-RPC client every panel talks to Moonraker through              *)
(* (src/src/websocket_client.cpp).  send_jsonrpc looks the next id up in   *)
(* the callback table, inserts the callback under it and only then lets    *)
(* the plain overload take the id with id++: three steps that nothing in   *)
(* the class makes atomic.  Two threads run them: the LVGL thread, always  *)
(* inside lv_timer_handler and so under lv_lock, and the libhv event-loop  *)
(* thread, from message callbacks, with or without lv_lock.                *)
(*                                                                         *)
(* Abstraction: each step on the std::map is atomic (a torn red-black tree *)
(* is not modelled), requests and replies are records of an id and the     *)
(* call they belong to, and every call is made once.                       *)
(***************************************************************************)
EXTENDS Naturals, FiniteSets, Functions

CONSTANTS
  Threads,        \* the threads that call send_jsonrpc
  EventLoop,      \* the libhv thread, the one that runs the callbacks
  Calls,          \* the RPC calls the application makes
  WithCallback,   \* those that pass a callback
  UnderLock,      \* those whose call site on the event loop holds lv_lock
  None,           \* no thread, no call, no id
  MaxCloses       \* bound on the connection losses

ASSUME ThreadsAssumption ==
  /\ EventLoop \in Threads
  /\ None \notin Threads \cup Calls \cup Nat
  /\ WithCallback \subseteq Calls
  /\ UnderLock \subseteq Calls
  /\ MaxCloses \in Nat

VARIABLES
  id,             \* the member std::atomic<uint64_t> id
  callbacks,      \* the member std::map: id -> call
  lvLock,         \* the thread that holds lv_lock
  pc,             \* where each thread is in send_jsonrpc
  call,           \* the call it is sending
  rid,            \* the id it took with id++
  requests,       \* requests Moonraker has not answered
  replies,        \* answers on their way back
  handling,       \* id whose callback the event loop is running
  connected,
  closes,         \* connection losses so far
  fate,           \* history: what became of each call
  ran,            \* history: which callback ran on the reply to which call
  overlapped      \* history: calls sent while another was being sent

table   == <<id, callbacks>>
network == <<requests, replies, connected, closes>>
history == <<fate, ran, overlapped>>
vars    == <<id, callbacks, lvLock, pc, call, rid, requests, replies,
             handling, connected, closes, fate, ran, overlapped>>

Message == [id : Nat, call : Calls]

TypeOK ==
  /\ id \in Nat
  /\ DOMAIN callbacks \subseteq Nat
  /\ \A i \in DOMAIN callbacks : callbacks[i] \in WithCallback
  /\ lvLock \in Threads \cup {None}
  /\ pc \in [Threads -> {"idle", "find", "insert", "take", "send"}]
  /\ call \in [Threads -> Calls \cup {None}]
  /\ rid \in [Threads -> Nat \cup {None}]
  /\ requests \subseteq Message
  /\ replies \subseteq Message
  /\ handling \in Nat \cup {None}
  /\ connected \in BOOLEAN
  /\ closes \in 0..MaxCloses
  /\ fate \in [Calls -> {"new", "sending", "dropped", "sent", "lost"}]
  /\ ran \subseteq [cb : Calls, reply : Calls]
  /\ overlapped \subseteq Calls

Init ==
  /\ id = 0
  /\ callbacks = [i \in {} |-> None]
  /\ lvLock = None
  /\ pc = [t \in Threads |-> "idle"]
  /\ call = [t \in Threads |-> None]
  /\ rid = [t \in Threads |-> None]
  /\ requests = {}
  /\ replies = {}
  /\ handling = None
  /\ connected = FALSE
  /\ closes = 0
  /\ fate = [c \in Calls |-> "new"]
  /\ ran = {}
  /\ overlapped = {}

-----------------------------------------------------------------------------
(* Sending *)

(* The LVGL thread sends from event callbacks and lv_timers only, all of   *)
(* them inside lv_timer_handler under lv_lock; the event loop only where   *)
(* the call site takes it.                                                 *)
NeedsLock(t, c) == t # EventLoop \/ c \in UnderLock

(* send_jsonrpc returns; so does the code that held lv_lock around it.     *)
Return(t) ==
  /\ pc' = [pc EXCEPT ![t] = "idle"]
  /\ call' = [call EXCEPT ![t] = None]
  /\ rid' = [rid EXCEPT ![t] = None]
  /\ lvLock' = IF lvLock = t THEN None ELSE lvLock

(* The calls other threads are in the middle of sending. *)
Others(t) == {call[u] : u \in {v \in Threads \ {t} : pc[v] # "idle"}}

(* A thread calls send_jsonrpc.  The event loop is in user code only while *)
(* it handles a message, which takes an open connection.                   *)
Begin(t, c) ==
  /\ pc[t] = "idle"
  /\ fate[c] = "new"
  /\ t = EventLoop => connected
  /\ IF NeedsLock(t, c) THEN lvLock = None /\ lvLock' = t
                        ELSE UNCHANGED lvLock
  /\ pc' = [pc EXCEPT ![t] = IF c \in WithCallback THEN "find" ELSE "take"]
  /\ call' = [call EXCEPT ![t] = c]
  /\ fate' = [fate EXCEPT ![c] = "sending"]
  /\ overlapped' = IF Others(t) = {} THEN overlapped
                   ELSE overlapped \cup Others(t) \cup {c}
  /\ UNCHANGED <<table, network, rid, handling, ran>>

(* callbacks.find(id): an entry under the next id makes the call return 0, *)
(* sending nothing.                                                        *)
FindId(t) ==
  /\ pc[t] = "find"
  /\ IF id \in DOMAIN callbacks
     THEN /\ fate' = [fate EXCEPT ![call[t]] = "dropped"]
          /\ Return(t)
     ELSE /\ pc' = [pc EXCEPT ![t] = "insert"]
          /\ UNCHANGED <<fate, call, rid, lvLock>>
  /\ UNCHANGED <<table, network, handling, ran, overlapped>>

(* Mutant: the entry goes under the id after the one the request takes.    *)
InsertCallbackOneLater(t) ==
  /\ pc[t] = "insert"
  /\ callbacks' = [i \in DOMAIN callbacks \cup {id + 1} |->
                    IF i = id + 1 THEN call[t] ELSE callbacks[i]]
  /\ pc' = [pc EXCEPT ![t] = "take"]
  /\ UNCHANGED <<id, lvLock, call, rid, network, handling, history>>

(* callbacks.insert({id, cb}): reads id again, and leaves an entry that is *)
(* already there as it is.                                                 *)
InsertCallback(t) ==
  /\ pc[t] = "insert"
  /\ callbacks' = IF id \in DOMAIN callbacks
                  THEN callbacks
                  ELSE [i \in DOMAIN callbacks \cup {id} |->
                          IF i = id THEN call[t] ELSE callbacks[i]]
  /\ pc' = [pc EXCEPT ![t] = "take"]
  /\ UNCHANGED <<id, lvLock, call, rid, network, handling, history>>

(* rpc["id"] = id++ *)
TakeId(t) ==
  /\ pc[t] = "take"
  /\ rid' = [rid EXCEPT ![t] = id]
  /\ id' = id + 1
  /\ pc' = [pc EXCEPT ![t] = "send"]
  /\ UNCHANGED <<callbacks, lvLock, call, network, handling, history>>

(* send(rpc.dump()): without a connection it fails, and nobody looks.      *)
SendRequest(t) ==
  /\ pc[t] = "send"
  /\ requests' = IF connected
                 THEN requests \cup {[id |-> rid[t], call |-> call[t]]}
                 ELSE requests
  /\ fate' = [fate EXCEPT ![call[t]] = IF connected THEN "sent" ELSE "lost"]
  /\ Return(t)
  /\ UNCHANGED <<table, replies, connected, closes, handling, ran,
                 overlapped>>

-----------------------------------------------------------------------------
(* Receiving *)

(* Moonraker answers requests in any order. *)
Answer(r) ==
  /\ r \in requests
  /\ requests' = requests \ {r}
  /\ replies' = replies \cup {r}
  /\ UNCHANGED <<table, lvLock, pc, call, rid, handling, connected, closes,
                 history>>

(* onmessage with an id: callbacks.find, and the callback starts. *)
RunCallback(r) ==
  /\ handling = None
  /\ pc[EventLoop] = "idle"
  /\ r \in replies
  /\ replies' = replies \ {r}
  /\ IF r.id \in DOMAIN callbacks
     THEN /\ handling' = r.id
          /\ ran' = ran \cup {[cb |-> callbacks[r.id], reply |-> r.call]}
     ELSE UNCHANGED <<handling, ran>>
  /\ UNCHANGED <<table, lvLock, pc, call, rid, requests, connected, closes,
                 fate, overlapped>>

(* The callback has returned: callbacks.erase(cb_entry). *)
EraseCallback ==
  /\ handling # None
  /\ pc[EventLoop] = "idle"
  /\ callbacks' = Restrict(callbacks, DOMAIN callbacks \ {handling})
  /\ handling' = None
  /\ UNCHANGED <<id, lvLock, pc, call, rid, network, history>>

-----------------------------------------------------------------------------
(* The connection *)

(* Mutant: a new connection starts numbering at 0 again.                   *)
OpenResetsId ==
  /\ ~connected
  /\ connected' = TRUE
  /\ id' = 0
  /\ UNCHANGED <<callbacks, lvLock, pc, call, rid, requests, replies, closes,
                 handling, history>>

(* onopen, first or after setReconnect's delay *)
Open ==
  /\ ~connected
  /\ connected' = TRUE
  /\ UNCHANGED <<table, lvLock, pc, call, rid, requests, replies, closes,
                 handling, history>>

(* Mutant: onclose clears the callback table.                              *)
CloseClears ==
  /\ connected
  /\ closes < MaxCloses
  /\ handling = None
  /\ pc[EventLoop] = "idle"
  /\ connected' = FALSE
  /\ closes' = closes + 1
  /\ fate' = [c \in Calls |->
                IF \E r \in requests \cup replies : r.call = c
                THEN "lost" ELSE fate[c]]
  /\ requests' = {}
  /\ replies' = {}
  /\ callbacks' = [i \in {} |-> None]
  /\ UNCHANGED <<id, lvLock, pc, call, rid, handling, ran, overlapped>>

(* onclose: what was under way is gone; the callback table is not touched. *)
Close ==
  /\ connected
  /\ closes < MaxCloses
  /\ handling = None
  /\ pc[EventLoop] = "idle"
  /\ connected' = FALSE
  /\ closes' = closes + 1
  /\ fate' = [c \in Calls |->
                IF \E r \in requests \cup replies : r.call = c
                THEN "lost" ELSE fate[c]]
  /\ requests' = {}
  /\ replies' = {}
  /\ UNCHANGED <<table, lvLock, pc, call, rid, handling, ran, overlapped>>

Step(t) == FindId(t) \/ InsertCallback(t) \/ TakeId(t) \/ SendRequest(t)

Next ==
  \/ \E t \in Threads : Step(t) \/ \E c \in Calls : Begin(t, c)
  \/ \E r \in requests : Answer(r)
  \/ \E r \in replies : RunCallback(r)
  \/ EraseCallback
  \/ Open
  \/ Close

Spec == Init /\ [][Next]_vars

(* Threads that are scheduled, a server that answers, and an event loop    *)
(* that drains its socket.                                                 *)
Fairness ==
  /\ \A t \in Threads : WF_vars(Step(t))
  /\ WF_vars(\E r \in requests : Answer(r))
  /\ WF_vars(\E r \in replies : RunCallback(r))
  /\ WF_vars(EraseCallback)

FairSpec == Spec /\ Fairness

-----------------------------------------------------------------------------
(* Properties *)

(* Every call site runs one at a time: all of them hold lv_lock, or one    *)
(* thread makes all the calls.                                             *)
Serialised == UnderLock = Calls \/ Threads = {EventLoop}

Ran(c) == \E x \in ran : x.cb = c

(* No two requests in flight carry the same id, whoever sent them and      *)
(* however often the connection was lost: the atomic id is never reset     *)
(* (websocket_client.cpp:168).                                             *)
DistinctIds ==
  \A r1, r2 \in requests \cup replies : r1.id = r2.id => r1 = r2

(* A callback handed the reply to somebody else's request, or a call that  *)
(* send_jsonrpc refuses with "return 0", was sent while another thread was *)
(* between find and id++: nothing else in the client, no reconnect and no  *)
(* reordering of replies, mixes calls up (websocket_client.cpp:108-137).   *)
OnlyOverlapMixesUp ==
  /\ \A x \in ran : x.cb # x.reply => x.cb \in overlapped
  /\ \A c \in Calls : fate[c] = "dropped" => c \in overlapped

(* A request that went out has its callback run or its connection lost,    *)
(* unless its send overlapped another.                                     *)
EveryReplyHandled ==
  \A c \in WithCallback :
    fate[c] = "sent" ~> Ran(c) \/ fate[c] = "lost" \/ c \in overlapped

(* How far a call with a callback has come, as its caller sees it. *)
ProgressOf(c) ==
  IF c \in overlapped THEN "unpromised"
  ELSE IF Ran(c) THEN "completed"
  ELSE IF fate[c] = "new" THEN "unsent"
  ELSE IF fate[c] = "lost" THEN "lost"
  ELSE IF \E r \in replies : r.call = c THEN "served"
  ELSE "asked"

Promise == INSTANCE RpcPromise
  WITH Calls <- WithCallback,
       progress <- [c \in WithCallback |-> ProgressOf(c)]

(* The client keeps the promise of RpcPromise, losses of the connection    *)
(* and calls in flight on both threads included.                           *)
KeepsPromise == Promise!Spec
=============================================================================
