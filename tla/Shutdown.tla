------------------------------ MODULE Shutdown ------------------------------
(***************************************************************************)
(* The process as a whole, cmd/nanoldap/main.go: listeners started one     *)
(* after the other, one goroutine accepting on each, a wait for a signal   *)
(* or the failure of one of them, and the shutdown of all.                 *)
(*                                                                         *)
(* What New does before there is a listener is in Lifecycle.  The net and  *)
(* net/http packages appear through what they do to their callers: closing *)
(* a listener ends Serve, and Shutdown of an HTTP server also waits for    *)
(* the requests in progress until the context is over.                     *)
(***************************************************************************)
EXTENDS Integers, SequencesExt

CONSTANTS
    Listener,       \* the four listeners
    Configs,        \* those enabled, in the order in which they are started
    HTTP,           \* those that an http.Server serves
    ErrCapacity,    \* room in errCh (4 in the program)
    MaxBusy         \* bound on requests or connections at a time per listener

ASSUME ShutdownAssumption ==
    /\ \A c \in Configs :
          /\ c \in Seq(Listener) /\ Len(c) <= ErrCapacity
          /\ \A i, j \in DOMAIN c : c[i] = c[j] => i = j
    /\ HTTP \subseteq Listener
    /\ ErrCapacity \in Nat
    /\ MaxBusy \in Nat \ {0}

VARIABLES
    pc,         \* where main is
    todo,       \* listeners with a port in the configuration, not started yet
    shutdowns,  \* those started, not shut down yet
    open,       \* listeners with an open socket
    loop,       \* loop[l]: the goroutine that accepts on l
    errCh,      \* number of errors waiting
    busy,       \* busy[l]: HTTP requests, or LDAP connections, being served
    signalled,  \* an interrupt or a SIGTERM has been caught
    caught,     \* such signals are caught: stop has not run
    late,       \* the five seconds of shutdownAll are over
    store,      \* "none", "open" or "closed"
    status      \* "none", exit status "0" or "1", or "killed"

main == <<pc, todo, shutdowns, store, status>>
accepting == <<open, loop, errCh>>
signals == <<signalled, caught>>
vars == <<main, accepting, busy, signals, late>>

TypeOK ==
    /\ pc \in {"new", "listen", "close", "drain", "return", "exited"}
    /\ todo \in Seq(Listener) /\ shutdowns \in Seq(Listener)
    /\ open \subseteq Listener
    /\ loop \in [Listener -> {"none", "accepting", "failed", "reported", "ended"}]
    /\ errCh \in 0..ErrCapacity
    /\ busy \in [Listener -> 0..MaxBusy]
    /\ signalled \in BOOLEAN /\ caught \in BOOLEAN /\ late \in BOOLEAN
    /\ store \in {"none", "open", "closed"}
    /\ status \in {"none", "0", "1", "killed"}

Init ==
    /\ pc = "new"
    /\ todo \in Configs
    /\ shutdowns = <<>>
    /\ open = {} /\ loop = [l \in Listener |-> "none"] /\ errCh = 0
    /\ busy = [l \in Listener |-> 0]
    /\ signalled = FALSE /\ caught = TRUE /\ late = FALSE
    /\ store = "none" /\ status = "none"

-----------------------------------------------------------------------------
(* run.  Without a listener, or when New fails, be it for a signal, the    *)
(* process is over before it has begun.                                    *)
New ==
    /\ pc = "new"
    /\ \/ todo # <<>> /\ store' = "open" /\ pc' = "listen" /\ UNCHANGED status
       \/ pc' = "exited" /\ status' = "1" /\ UNCHANGED store
    /\ UNCHANGED <<todo, shutdowns, accepting, busy, signals, late>>

Listen ==
    /\ pc = "listen" /\ todo # <<>>
    /\ open' = open \cup {Head(todo)}
    /\ loop' = [loop EXCEPT ![Head(todo)] = "accepting"]
    /\ shutdowns' = Append(shutdowns, Head(todo))
    /\ todo' = Tail(todo)
    /\ UNCHANGED <<pc, store, status, errCh, busy, signals, late>>

(* The port is taken: run returns at once, past the shutdown below.        *)
ListenFails ==
    /\ pc = "listen" /\ todo # <<>>
    /\ pc' = "return" /\ status' = "1"
    /\ UNCHANGED <<todo, shutdowns, store, accepting, busy, signals, late>>

(* The select, once all are started: either case if both are ready.        *)
TakeSignal ==
    /\ pc = "listen" /\ todo = <<>> /\ signalled
    /\ pc' = "close" /\ status' = "0"
    /\ UNCHANGED <<todo, shutdowns, store, accepting, busy, signals, late>>

(* Fault: the error is not returned.                                       *)
ErrorStatusLost == "0"
ErrorStatus == "1"

TakeError ==
    /\ pc = "listen" /\ todo = <<>> /\ errCh > 0
    /\ errCh' = errCh - 1
    /\ caught' = FALSE
    /\ pc' = "close" /\ status' = ErrorStatus
    /\ UNCHANGED <<todo, shutdowns, store, open, loop, busy, signalled, late>>

(* shutdownAll: the last started first, under one deadline for all.        *)
CloseListener ==
    /\ pc = "close" /\ shutdowns # <<>>
    /\ open' = open \ {Last(shutdowns)}
    /\ pc' = "drain"
    /\ UNCHANGED <<todo, shutdowns, store, status, loop, errCh, busy, signals, late>>

(* Only an HTTP server's requests are waited for; nothing cancels them.    *)
(* Fault: the server is closed and not shut down.                          *)
DrainedAlways(l) == TRUE
Drained(l) == l \in HTTP => busy[l] = 0 \/ late

Drain ==
    /\ pc = "drain" /\ Drained(Last(shutdowns))
    /\ shutdowns' = Front(shutdowns) /\ pc' = "close"
    /\ UNCHANGED <<todo, store, status, accepting, busy, signals, late>>

(* wg.Wait.                                                                *)
Gone(l) == loop[l] \in {"none", "reported", "ended"}

Join ==
    /\ pc = "close" /\ shutdowns = <<>>
    /\ \A l \in Listener : Gone(l)
    /\ pc' = "return"
    /\ UNCHANGED <<todo, shutdowns, store, status, accepting, busy, signals, late>>

(* The deferred calls: the store is closed, then signals are let go, and   *)
(* the process ends with whatever goroutines are left.                     *)
CloseStore ==
    /\ pc = "return" /\ store = "open"
    /\ store' = "closed"
    /\ UNCHANGED <<pc, todo, shutdowns, status, accepting, busy, signals, late>>

Exit ==
    /\ pc = "return" /\ store = "closed"
    /\ pc' = "exited" /\ caught' = FALSE
    /\ UNCHANGED <<todo, shutdowns, store, status, accepting, busy, signalled, late>>

-----------------------------------------------------------------------------
(* The goroutines that accept.  An error of Accept, not that of a closed   *)
(* listener ends the loop for good; an http.Server then closes it.         *)
Running == pc # "exited"

LoopFails(l) ==
    /\ Running /\ loop[l] = "accepting" /\ l \in open
    /\ loop' = [loop EXCEPT ![l] = "failed"]
    /\ open' = open \ (HTTP \cap {l})
    /\ UNCHANGED <<main, errCh, busy, signals, late>>

(* Fault: the channel has no buffer, and nobody receives after the select. *)
RoomUnbuffered == errCh < 1 /\ pc = "listen"
Room == errCh < ErrCapacity

SendError(l) ==
    /\ Running /\ loop[l] = "failed" /\ Room
    /\ errCh' = errCh + 1
    /\ loop' = [loop EXCEPT ![l] = "reported"]
    /\ UNCHANGED <<main, open, busy, signals, late>>

LoopEnds(l) ==
    /\ Running /\ loop[l] = "accepting" /\ l \notin open
    /\ loop' = [loop EXCEPT ![l] = "ended"]
    /\ UNCHANGED <<main, open, errCh, busy, signals, late>>

(* HTTP requests and LDAP connections come while their listener accepts,   *)
(* requests also on connections kept alive until the server is shut down,  *)
(* and go when they are done.                                              *)
Served(l) ==
    \/ loop[l] = "accepting" /\ l \in open
    \/ l \in HTTP \cap ToSet(shutdowns) /\ ~(pc = "drain" /\ l = Last(shutdowns))

Begin(l) ==
    /\ Running /\ Served(l) /\ busy[l] < MaxBusy
    /\ busy' = [busy EXCEPT ![l] = @ + 1]
    /\ UNCHANGED <<main, accepting, signals, late>>

End(l) ==
    /\ Running /\ busy[l] > 0
    /\ busy' = [busy EXCEPT ![l] = @ - 1]
    /\ UNCHANGED <<main, accepting, signals, late>>

(* An interrupt or a SIGTERM.  A caught one is remembered, a second one    *)
(* makes no difference; one not caught ends the process on the spot.       *)
Signal ==
    /\ Running
    /\ \/ caught /\ signalled' = TRUE /\ UNCHANGED main
       \/ /\ ~caught /\ pc' = "exited" /\ status' = "killed"
          /\ UNCHANGED <<signalled, todo, shutdowns, store>>
    /\ UNCHANGED <<accepting, busy, caught, late>>

Deadline ==
    /\ pc \in {"close", "drain"}
    /\ late' = TRUE
    /\ UNCHANGED <<main, accepting, busy, signals>>

Main ==
    \/ New \/ Listen \/ ListenFails \/ TakeSignal \/ TakeError
    \/ CloseListener \/ Drain \/ Join \/ CloseStore \/ Exit

Next ==
    \/ Main
    \/ \E l \in Listener :
          \/ LoopFails(l) \/ SendError(l) \/ LoopEnds(l)
          \/ Begin(l) \/ End(l)
    \/ Signal \/ Deadline

Spec == Init /\ [][Next]_vars

(* Fairness: the scheduler runs main and the accepting goroutines, whose   *)
(* calls return, and time passes.  No client is assumed to finish, no      *)
(* signal to come and no listener to fail.                                 *)
FairSpec ==
    /\ Spec
    /\ WF_vars(Main) /\ WF_vars(Deadline)
    /\ \A l \in Listener : WF_vars(SendError(l) \/ LoopEnds(l))

-----------------------------------------------------------------------------
(* A signal, or the end of any one listener, brings the process to its     *)
(* end, whatever the other listeners and all clients do meanwhile: main    *)
(* never waits for a goroutine that waits for main.                        *)
ShutsDown ==
    (signalled \/ \E l \in Listener : loop[l] = "failed") ~> pc = "exited"

(* The store is closed only when no listener accepts and no HTTP request   *)
(* is in progress, unless five seconds were not enough or a listener could *)
(* not be started.  LDAP connections may go on: their binds then fail with *)
(* invalid credentials, their searches with busy.                          *)
StartFailed == status = "1" /\ todo # <<>>

StoreClosedLast ==
    store = "closed" /\ ~StartFailed =>
        /\ open = {} /\ \A l \in Listener : Gone(l)
        /\ late \/ \A l \in HTTP : busy[l] = 0

(* The exit status tells the operator why the process ended: zero only for *)
(* a signal, and one only if it did not start or a listener failed.        *)
StatusTells ==
    pc = "exited" =>
        /\ status = "0" => signalled
        /\ status = "1" => \/ store = "none" \/ StartFailed
                           \/ \E l \in Listener : loop[l] = "reported"

=============================================================================
