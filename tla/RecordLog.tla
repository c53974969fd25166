----------------------------- MODULE RecordLog -----------------------------
(***************************************************************************)
(* What the network records promise to the code around them: a log of      *)
(* requests that forgets only its oldest entry, only to make room, and in   *)
(* which a request is entered once and its state moves only forward.        *)
(* Proxy is shown to implement this specification.                          *)
(***************************************************************************)
EXTENDS Integers, Sequences

CONSTANTS
    Capacity,   \* number of requests the log remembers
    Ids         \* the request ids

VARIABLES
    history,    \* the ids of all requests ever entered, in order
    window      \* the entries remembered: [id, state]

logVars == <<history, window>>

\* Position of a state in the life of a request.
Rank(state) ==
    CASE state = "Connecting" -> 1
      [] state = "Sending"    -> 2
      [] state = "Receiving"  -> 3
      [] OTHER                -> 4      \* Completed, Cancelled

\* The newest entries of a log, as many as it may hold.
Trim(log) == IF Len(log) > Capacity THEN Tail(log) ELSE log

Enter(id) ==
    /\ \A i \in DOMAIN history : history[i] # id
    /\ history' = Append(history, id)
    /\ window' = Trim(Append(window, [id |-> id, state |-> "Connecting"]))

Advance(i, state) ==
    /\ Rank(window[i].state) < Rank(state)
    /\ window' = [window EXCEPT ![i].state = state]
    /\ UNCHANGED history

LogInit == history = <<>> /\ window = <<>>

LogNext ==
    \/ \E id \in Ids : Enter(id)
    \/ \E i \in DOMAIN window :
        \E state \in {"Sending", "Receiving", "Completed", "Cancelled"} :
            Advance(i, state)

LogSpec == LogInit /\ [][LogNext]_logVars
=============================================================================
