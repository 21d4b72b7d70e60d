----------------------------- MODULE RpcPromise -----------------------------
(***************************************************************************)
(* What a panel expects of send_jsonrpc(method, params, cb): the callback  *)
(* runs at most once, only after Moonraker answered THAT request, and only *)
(* the loss of the connection excuses a callback that never runs.  Nothing *)
(* is promised of calls whose sends overlapped.  KWebSocketClient.tla is   *)
(* shown to implement this.                                                *)
(***************************************************************************)
CONSTANT Calls

VARIABLE progress   \* progress[c]: how far call c has come

Idle(c)     == progress[c] = "unsent"
Move(c, to) == progress' = [progress EXCEPT ![c] = to]

Init == progress = [c \in Calls |-> "unsent"]

(* The caller hands over a request. *)
Ask(c) == Idle(c) /\ Move(c, "asked")

(* Moonraker answers it. *)
Serve(c) == progress[c] = "asked" /\ Move(c, "served")

(* The callback runs, on the answer to its own request. *)
Complete(c) == progress[c] = "served" /\ Move(c, "completed")

(* The connection is lost with everything that was under way on it, or a   *)
(* request is handed over while there is no connection.                    *)
Lose(S) ==
  /\ \A c \in S : progress[c] \in {"asked", "served"}
  /\ progress' = [c \in Calls |-> IF c \in S THEN "lost" ELSE progress[c]]

(* Calls not yet on their way are sent by two threads at once.             *)
Clash(S) ==
  /\ \A c \in S : progress[c] \in {"unsent", "asked"}
  /\ progress' = [c \in Calls |-> IF c \in S THEN "unpromised" ELSE progress[c]]

Next ==
  \/ \E c \in Calls : Ask(c) \/ Serve(c) \/ Complete(c)
  \/ \E S \in SUBSET Calls : Lose(S) \/ Clash(S)

Spec == Init /\ [][Next]_progress
=============================================================================
