------------------------------- MODULE Stream -------------------------------
(***************************************************************************)
(* A stream of the Firestore client to its backend (remote/stream.cc under *)
(* macos/Pods/FirebaseFirestore/Firestore/core/src), as far as the write   *)
(* stream and the watch stream share it: its state, the token and the      *)
(* timers that are still to come.                                          *)
(*                                                                         *)
(* A definition used nowhere that stands right before another one is a     *)
(* mutation of it (README.md, Mutations).                                  *)
(***************************************************************************)

StreamState == [state : {"Initial", "Starting", "Backoff", "Open", "Error"},
                handshake : BOOLEAN,    \* of the write stream: it is done
                credentials : BOOLEAN,  \* a token is asked for
                retry : BOOLEAN,        \* the back-off timer runs
                idle : BOOLEAN]         \* the idle timer runs

IdleStream == [state |-> "Initial", handshake |-> FALSE,
               credentials |-> FALSE, retry |-> FALSE, idle |-> FALSE]

IsOpen(s) == s.state = "Open"
IsStarted(s) == s.state \in {"Starting", "Backoff", "Open"}

(* A stream that has failed waits before it starts again.                  *)
StartNow(s) == [s EXCEPT !.state = "Starting", !.credentials = TRUE]
Start(s) == IF s.state = "Error"
            THEN [s EXCEPT !.state = "Backoff", !.retry = TRUE]
            ELSE StartNow(s)

(* The back-off is over.                                                   *)
Retried(s) == StartNow([s EXCEPT !.retry = FALSE])

(* The token has come, and with it the call is made.                       *)
Opened(s) == [s EXCEPT !.state = "Open", !.credentials = FALSE]

(* Every timer and callback of the stream is cancelled or made void.       *)
CloseKeepsHandshake(s, state) ==
    [IdleStream EXCEPT !.state = state, !.handshake = s.handshake]
CloseKeepsTimers(s, state) == [s EXCEPT !.state = state, !.handshake = FALSE]
Close(s, state) == [IdleStream EXCEPT !.state = state]

(* The assertions of stream.cc: a token or a timer that is still to come   *)
(* finds the stream in the state that asked for it.                        *)
TimersFindTheirState(s) ==
    /\ s.credentials <=> s.state = "Starting"
    /\ s.retry <=> s.state = "Backoff"
    /\ s.idle => s.state = "Open"
=============================================================================
