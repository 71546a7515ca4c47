-------------------------- MODULE MCEventStreamReconnect --------------------------
(* EventStream with a history variable: whether the screen lacked nothing when *)
(* it last lost its connection.  The steps are those of EventStream.           *)
EXTENDS EventStream

VARIABLE whole    \* the link went down under a screen that showed the whole log

(* Nothing is on its way to a connected screen, and no page is asked for. *)
Settled ==
  /\ link = "open" /\ unsent = {} /\ pos = Len(sent) /\ wire = << >>
  /\ fetch = "none"

Complete == ToSet(page) = mine

LinkGoesDown == link = "open" /\ link' = "closed"

HistoryInit == Init /\ whole = FALSE

HistoryNext ==
  /\ Next
  /\ whole' = IF LinkGoesDown THEN Settled /\ Complete ELSE whole

HistorySpec == HistoryInit /\ [][HistoryNext]_<< vars, whole >>

(* "Append-before-broadcast event streaming with cursor recovery after         *)
(* reconnect" (README.md): a screen that showed the whole log when its link    *)
(* went down shows the whole log again once it is connected again, nothing is  *)
(* left on its way and no reload has left anything out (connectLocalEvents).   *)
RecoversAfterReconnect ==
  whole /\ Settled /\ lost = {} => Complete
===================================================================================
