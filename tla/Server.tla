------------------------------- MODULE Server -------------------------------
(***************************************************************************)
(* Start and graceful shutdown of the web server.  The main goroutine      *)
(* listens; another one waits for SIGINT or SIGTERM and then shuts the     *)
(* server down: the listener is closed at once, open requests are waited   *)
(* for until a deadline (20 s, less than the 30 s a request may take to be *)
(* written).  The result goes through a channel to main, which stops, or   *)
(* gives up at once on an error; on either way out the clients of the      *)
(* other services are closed, and the end of the process ends whatever is  *)
(* still being handled.                                                    *)
(***************************************************************************)
EXTENDS Naturals

CONSTANT Conns   \* connections

VARIABLES
    main,      \* "serving", "waiting" (for the result), "leaving",
               \* "closed" (clients closed), "exited"
    watcher,   \* the signal goroutine: "new", "watching", "draining", "sent"
    result,    \* "none", "ok", "timeout" (the channel); "listen", "killed"
    signal,    \* a signal is pending or was received
    listening, \* connections are accepted
    conn       \* "none", "open" (no request yet), "active", "answered", "cut"

vars == <<main, watcher, result, signal, listening, conn>>

-----------------------------------------------------------------------------
Active == {c \in Conns : conn[c] = "active"}
Quiet == \A c \in Conns : conn[c] \notin {"open", "active"}

Init ==
    /\ main = "serving"
    /\ watcher = "new"
    /\ result = "none"
    /\ signal = FALSE
    /\ listening = TRUE
    /\ conn = [c \in Conns |-> "none"]

Running == main # "exited"

\* A request: accepted, begun (also on a connection that was accepted before
\* the listener closed), answered; the connection may be used again.
Accept(c) ==
    /\ Running /\ listening
    /\ conn[c] \in {"none", "answered"}
    /\ conn' = [conn EXCEPT ![c] = "open"]
    /\ UNCHANGED <<main, watcher, result, signal, listening>>

Begin(c) ==
    /\ Running /\ conn[c] = "open"
    /\ conn' = [conn EXCEPT ![c] = "active"]
    /\ UNCHANGED <<main, watcher, result, signal, listening>>

Answer(c) ==
    /\ Running /\ conn[c] = "active"
    /\ conn' = [conn EXCEPT ![c] = "answered"]
    /\ UNCHANGED <<main, watcher, result, signal, listening>>

\* The end of the process cuts off what is being handled.  The variant keeps
\* only those connections.
EndDropping == conn' = [c \in Active |-> "cut"]

End == conn' = [c \in Conns |-> IF conn[c] = "active" THEN "cut" ELSE conn[c]]

\* A signal.  Before signal.Notify it ends the process.
Signal ==
    /\ Running /\ ~signal
    /\ signal' = TRUE
    /\ IF watcher = "new"
       THEN main' = "exited" /\ result' = "killed" /\ listening' = FALSE /\ End
       ELSE UNCHANGED <<main, result, listening, conn>>
    /\ UNCHANGED watcher

\* signal.Notify.
Watch ==
    /\ Running /\ watcher = "new"
    /\ watcher' = "watching"
    /\ UNCHANGED <<main, result, signal, listening, conn>>

\* The signal is received: Shutdown closes the listener...
Shutdown ==
    /\ Running /\ watcher = "watching" /\ signal
    /\ watcher' = "draining"
    /\ listening' = FALSE
    /\ UNCHANGED <<main, result, signal, conn>>

\* ... closes connections that have no request...
CloseIdle(c) ==
    /\ Running /\ watcher = "draining"
    /\ conn[c] = "open"
    /\ conn' = [conn EXCEPT ![c] = "none"]
    /\ UNCHANGED <<main, watcher, result, signal, listening>>

\* ... and returns when all is quiet, or at the deadline.
Drained ==
    /\ Running /\ watcher = "draining"
    /\ Quiet
    /\ watcher' = "sent"
    /\ result' = IF result = "none" THEN "ok" ELSE result
    /\ UNCHANGED <<main, signal, listening, conn>>

\* The variant waits for the requests however long they take.
DeadlineNever == FALSE /\ UNCHANGED vars

Deadline ==
    /\ Running /\ watcher = "draining"
    /\ watcher' = "sent"
    /\ result' = IF result = "none" THEN "timeout" ELSE result
    /\ UNCHANGED <<main, signal, listening, conn>>

\* ListenAndServe returns: ErrServerClosed once Shutdown has begun, or an error
\* of its own, with which main leaves.  The variant leaves either way.
ListenReturnsLeaving ==
    /\ main = "serving" /\ watcher \in {"draining", "sent"}
    /\ main' = "leaving"
    /\ UNCHANGED <<watcher, result, signal, listening, conn>>

ListenReturns ==
    /\ main = "serving" /\ watcher \in {"draining", "sent"}
    /\ main' = "waiting"
    /\ UNCHANGED <<watcher, result, signal, listening, conn>>

ListenFails ==
    /\ main = "serving" /\ listening
    /\ main' = "leaving"
    /\ result' = "listen"
    /\ listening' = FALSE
    /\ UNCHANGED <<watcher, signal, conn>>

\* The result of the shutdown: stop and return, or return the error.
Result ==
    /\ main = "waiting" /\ watcher = "sent"
    /\ main' = "leaving"
    /\ UNCHANGED <<watcher, result, signal, listening, conn>>

\* run's deferred CloseAllClients.
CloseAllClients ==
    /\ main = "leaving"
    /\ main' = "closed"
    /\ UNCHANGED <<watcher, result, signal, listening, conn>>

\* main returns or panics.
Exit ==
    /\ main = "closed"
    /\ main' = "exited"
    /\ End
    /\ UNCHANGED <<watcher, result, signal, listening>>

\* The two goroutines.
Watcher == Watch \/ Shutdown \/ Drained \/ Deadline
Main == ListenReturns \/ Result \/ CloseAllClients \/ Exit

Next ==
    \/ \E c \in Conns : Accept(c) \/ Begin(c) \/ Answer(c) \/ CloseIdle(c)
    \/ Signal \/ ListenFails \/ Watcher \/ Main

\* Both goroutines run and the deadline passes; requests need not end.
Fairness == WF_vars(Watcher) /\ WF_vars(Main)

Spec == Init /\ [][Next]_vars /\ Fairness

-----------------------------------------------------------------------------
TypeOK ==
    /\ main \in {"serving", "waiting", "leaving", "closed", "exited"}
    /\ watcher \in {"new", "watching", "draining", "sent"}
    /\ result \in {"none", "ok", "timeout", "listen", "killed"}
    /\ signal \in BOOLEAN /\ listening \in BOOLEAN
    /\ conn \in [Conns -> {"none", "open", "active", "answered", "cut"}]

\* A shutdown that reports success cut no request off, and nothing is handled
\* while the clients of the other services are being closed: those are the
\* doings of the deadline, of a listener that failed, or of a signal before
\* the server watched for it (server.go serveHTTP, cmd/web/main.go run).
CleanShutdown ==
    main \in {"closed", "exited"} /\ result \in {"none", "ok"}
        => \A c \in Conns : conn[c] \notin {"active", "cut"}

\* A signal ends the process, however long its requests take (server.go: the
\* shutdown period bounds the wait).
SignalEnds == signal ~> main = "exited"
=============================================================================
