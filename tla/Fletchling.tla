----------------------------- MODULE Fletchling -----------------------------
(***************************************************************************)
(* The life of the process: main of bin/fletchling/fletchling.go, the      *)
(* goroutines it starts, and Run of the HTTPServer, which main runs        *)
(* itself.  All of them select on one context.  What they do meanwhile is  *)
(* in NestProcessorManager and PoracleSender.  They leave work to others   *)
(* that nobody waits for: the messages of a webhook, the processing of a   *)
(* rotation and the flush of a tick.                                       *)
(*                                                                         *)
(* logger.Fatal ends the process at once: no deferred function runs.  A    *)
(* signal nobody is notified of yet ends it too; one that comes while      *)
(* another is still in its channel is dropped.                             *)
(***************************************************************************)
EXTENDS Naturals

CONSTANT Request    \* the requests that can be under way at a time

VARIABLES
    main,         \* where main is, or how the process has ended
    ctxCancelled, \* the context is cancelled
    handler,      \* the goroutine that waits for SIGINT and SIGTERM
    interrupted,  \* its sig_ch holds a signal
    reloader,     \* the goroutine that waits for SIGHUP
    hangup,       \* its sig_ch holds a signal
    manager,      \* NestProcessorManager.Run
    sender,       \* PoracleSender.Run; none without webhooks
    listener,     \* the goroutine of HTTPServer.Run
    doneCh,       \* what it has sent: nothing, nil or error
    active,       \* the requests under way
    background    \* of what goroutines that nobody waits for are under way

processVars == <<main, ctxCancelled, handler, interrupted, reloader, hangup, manager,
                 sender, listener, doneCh, active, background>>

signals == <<handler, interrupted>>
hangups == <<reloader, hangup>>
http == <<listener, doneCh, active>>

Ended == main \in {"exited", "fatal", "killed"}

\* processMessages, ProcessStatsCollection, and the flushes of the ticker.
Detached == {"messages", "processing", "flush"}

\* main starts the goroutine of the signals first of all.
ProcessInit ==
    /\ main = "opening stores"
    /\ ctxCancelled = FALSE
    /\ handler = "starting" /\ interrupted = FALSE
    /\ reloader = "none" /\ hangup = FALSE
    /\ manager = "none" /\ sender = "none"
    /\ listener = "none" /\ doneCh = "nothing" /\ active = {}
    /\ background = {}

-----------------------------------------------------------------------------
(* Startup.                                                                 *)

Fatal ==
    /\ main' = "fatal"
    /\ UNCHANGED <<ctxCancelled, signals, hangups, manager, sender, http, background>>

\* The databases and their migrations, which do not look at the context.
OpenStores ==
    /\ main = "opening stores"
    /\ main' = "loading"
    /\ UNCHANGED <<ctxCancelled, signals, hangups, manager, sender, http, background>>

\* The first LoadConfig, and what is started after it.
LoadConfig ==
    /\ main = "loading" /\ ~ctxCancelled
    /\ main' = "serving"
    /\ reloader' = "starting"
    /\ manager' = "running"
    /\ sender' \in {"none", "running"}
    /\ listener' = "starting"
    /\ UNCHANGED <<ctxCancelled, signals, hangup, doneCh, active, background>>

\* Any of it fails, LoadConfig also because the context is cancelled.
StartupFails == main \in {"opening stores", "loading"} /\ Fatal

-----------------------------------------------------------------------------
(* Signals.                                                                 *)

\* SIGINT or SIGTERM.
Interrupt ==
    /\ ~Ended
    /\ IF handler = "starting"
       THEN main' = "killed" /\ UNCHANGED interrupted
       ELSE interrupted' = TRUE /\ UNCHANGED main
    /\ UNCHANGED <<ctxCancelled, handler, hangups, manager, sender, http, background>>

HandlerNotifies ==
    /\ ~Ended
    /\ handler = "starting"
    /\ handler' = "select"
    /\ UNCHANGED <<main, ctxCancelled, interrupted, hangups, manager, sender, http,
                   background>>

\* Mutant: the context is not cancelled.
HandlerJustReturns ==
    /\ ~Ended
    /\ handler = "select" /\ (interrupted \/ ctxCancelled)
    /\ handler' = "done"
    /\ interrupted' = FALSE
    /\ UNCHANGED <<main, ctxCancelled, hangups, manager, sender, http, background>>

\* It returns, and the deferred function cancels.  If it was the context that
\* it saw a signal may be left in the channel.
HandlerReturns ==
    /\ ~Ended
    /\ handler = "select" /\ (interrupted \/ ctxCancelled)
    /\ handler' = "done"
    /\ interrupted' \in IF ctxCancelled THEN {FALSE, interrupted} ELSE {FALSE}
    /\ ctxCancelled' = TRUE
    /\ UNCHANGED <<main, hangups, manager, sender, http, background>>

\* SIGHUP.
Hangup ==
    /\ ~Ended
    /\ IF reloader \in {"none", "starting"}
       THEN main' = "killed" /\ UNCHANGED hangup
       ELSE hangup' = TRUE /\ UNCHANGED main
    /\ UNCHANGED <<ctxCancelled, signals, reloader, manager, sender, http, background>>

ReloaderNotifies ==
    /\ ~Ended
    /\ reloader = "starting"
    /\ reloader' = "select"
    /\ UNCHANGED <<main, ctxCancelled, signals, hangup, manager, sender, http,
                   background>>

ReloaderReceives ==
    /\ ~Ended
    /\ reloader = "select" /\ hangup
    /\ reloader' = "reloading"
    /\ hangup' = FALSE
    /\ UNCHANGED <<main, ctxCancelled, signals, manager, sender, http, background>>

\* reloadFn returns: an error is only logged.
ReloadEnds ==
    /\ ~Ended
    /\ reloader = "reloading"
    /\ reloader' = "select"
    /\ UNCHANGED <<main, ctxCancelled, signals, hangup, manager, sender, http,
                   background>>

ReloaderReturns ==
    /\ ~Ended
    /\ reloader = "select" /\ ctxCancelled
    /\ reloader' = "done"
    /\ UNCHANGED <<main, ctxCancelled, signals, hangup, manager, sender, http,
                   background>>

-----------------------------------------------------------------------------
(* The manager and the sender.                                              *)

\* Each rotation starts a goroutine, also one that races the cancelled context.
ManagerRotates ==
    /\ ~Ended
    /\ manager = "running"
    /\ background' = background \union {"processing"}
    /\ UNCHANGED <<main, ctxCancelled, signals, hangups, manager, sender, http>>

ManagerReturns ==
    /\ ~Ended
    /\ manager = "running" /\ ctxCancelled
    /\ manager' = "done"
    /\ UNCHANGED <<main, ctxCancelled, signals, hangups, sender, http, background>>

\* So does each tick.
SenderTicks ==
    /\ ~Ended
    /\ sender = "running"
    /\ background' = background \union {"flush"}
    /\ UNCHANGED <<main, ctxCancelled, signals, hangups, manager, sender, http>>

\* The last of a kind ends, in its own time; none looks at the context.
BackgroundEnds(b) ==
    /\ ~Ended
    /\ b \in background
    /\ background' = background \ {b}
    /\ UNCHANGED <<main, ctxCancelled, signals, hangups, manager, sender, http>>

SenderFlushes ==
    /\ ~Ended
    /\ sender = "running" /\ ctxCancelled
    /\ sender' = "flushing"
    /\ UNCHANGED <<main, ctxCancelled, signals, hangups, manager, http, background>>

\* The destinations have answered, which nothing makes them do.
SenderReturns ==
    /\ ~Ended
    /\ sender = "flushing"
    /\ sender' = "done"
    /\ UNCHANGED <<main, ctxCancelled, signals, hangups, manager, http, background>>

-----------------------------------------------------------------------------
(* HTTPServer.Run, and the requests.                                        *)

Shutdown == main \in {"shutting down", "closed"}

Listen ==
    /\ main = "serving" /\ listener = "starting"
    /\ listener' = "listening"
    /\ UNCHANGED <<main, ctxCancelled, signals, hangups, manager, sender, doneCh,
                   active, background>>

\* The address cannot be listened on, or is lost.
ListenFails ==
    /\ ~Ended
    /\ listener = "starting" \/ (listener = "listening" /\ ~Shutdown)
    /\ listener' = "failed"
    /\ doneCh' = "error"
    /\ UNCHANGED <<main, ctxCancelled, signals, hangups, manager, sender, active,
                   background>>

\* Mutant: ErrServerClosed is an error like others.
ListenerClosesWithError ==
    /\ Shutdown /\ listener \in {"starting", "listening"}
    /\ listener' = "closed"
    /\ doneCh' = "error"
    /\ UNCHANGED <<main, ctxCancelled, signals, hangups, manager, sender, active,
                   background>>

\* ErrServerClosed, which is no error.
ListenerCloses ==
    /\ Shutdown /\ listener \in {"starting", "listening"}
    /\ listener' = "closed"
    /\ doneCh' = "nil"
    /\ UNCHANGED <<main, ctxCancelled, signals, hangups, manager, sender, active,
                   background>>

RequestArrives(r) ==
    /\ main = "serving" /\ listener = "listening"
    /\ r \notin active
    /\ active' = active \union {r}
    /\ UNCHANGED <<main, ctxCancelled, signals, hangups, manager, sender, listener,
                   doneCh, background>>

\* A request has a context of its own: a refresh goes on after the shutdown began.
\* A webhook is answered when its messages have been handed to processMessages.
RequestEnds(r) ==
    /\ ~Ended
    /\ r \in active
    /\ active' = active \ {r}
    /\ background' \in {background, background \union {"messages"}}
    /\ UNCHANGED <<main, ctxCancelled, signals, hangups, manager, sender, listener,
                   doneCh>>

\* Mutant: Close, which does not wait, instead of Shutdown.
CloseServer ==
    /\ main = "serving" /\ ctxCancelled
    /\ main' = "closed"
    /\ UNCHANGED <<ctxCancelled, signals, hangups, manager, sender, http, background>>

\* httpServer.Shutdown: at once if no request is under way.
ShutdownServer ==
    /\ main = "serving" /\ ctxCancelled
    /\ main' = IF active = {} THEN "closed" ELSE "shutting down"
    /\ UNCHANGED <<ctxCancelled, signals, hangups, manager, sender, http, background>>

\* It looks again now and then,
ShutdownReturns ==
    /\ main = "shutting down" /\ active = {}
    /\ main' = "closed"
    /\ UNCHANGED <<ctxCancelled, signals, hangups, manager, sender, http, background>>

\* until the time is up: Run returns an error, which is fatal.
ShutdownTimesOut == main = "shutting down" /\ Fatal

\* Run returns what came through doneCh: an error is fatal, and without one main
\* returns, where cancelFn is deferred.
ServerRunReturns ==
    /\ main \in {"serving", "closed"}
    /\ doneCh # "nothing"
    /\ main' = IF doneCh = "error" THEN "fatal" ELSE "waiting"
    /\ ctxCancelled' = IF doneCh = "nil" THEN TRUE ELSE ctxCancelled
    /\ UNCHANGED <<signals, hangups, manager, sender, http, background>>

\* The goroutines of the wait group, that is.
AllAreDone ==
    /\ handler = "done" /\ reloader = "done"
    /\ manager = "done" /\ sender \in {"none", "done"}

\* wg.Wait(), deferred as well.  Those in the background are cut off.
Exit ==
    /\ main = "waiting" /\ AllAreDone
    /\ main' = "exited"
    /\ UNCHANGED <<ctxCancelled, signals, hangups, manager, sender, http, background>>

-----------------------------------------------------------------------------

Startup == OpenStores \/ LoadConfig \/ StartupFails
ServerRun == ShutdownServer \/ ShutdownReturns \/ ShutdownTimesOut \/ ServerRunReturns

ProcessNext ==
    \/ Startup
    \/ Interrupt \/ HandlerNotifies \/ HandlerReturns
    \/ Hangup \/ ReloaderNotifies \/ ReloaderReceives \/ ReloadEnds \/ ReloaderReturns
    \/ ManagerRotates \/ ManagerReturns
    \/ SenderTicks \/ SenderFlushes \/ SenderReturns
    \/ \E b \in Detached : BackgroundEnds(b)
    \/ Listen \/ ListenFails \/ ListenerCloses
    \/ \E r \in Request : RequestArrives(r) \/ RequestEnds(r)
    \/ ServerRun
    \/ Exit

ProcessSpec == ProcessInit /\ [][ProcessNext]_processVars

\* Goroutines run, a reload ends, and a select in which the context is ready
\* takes it in the end, because Go chooses at random.  Nothing is assumed of
\* requests, and of the destinations of the sender.
FairProcessSpec ==
    /\ ProcessSpec
    /\ WF_processVars(Startup) /\ WF_processVars(ServerRun) /\ WF_processVars(Exit)
    /\ WF_processVars(HandlerNotifies) /\ WF_processVars(HandlerReturns)
    /\ WF_processVars(ReloaderNotifies) /\ WF_processVars(ReloadEnds)
    /\ SF_processVars(ReloaderReturns)
    /\ WF_processVars(ManagerReturns) /\ WF_processVars(SenderFlushes)
    /\ WF_processVars(ListenerCloses)

-----------------------------------------------------------------------------
(* Correctness.                                                             *)

\* When main gets to its deferred functions, whatever brought it there, every request
\* that was accepted has been answered and no other can come.  (What webhooks have
\* left to processMessages is not waited for: see NothingIsLeftBehind.)
RequestsAreFinished ==
    main \in {"waiting", "exited"} => active = {} /\ listener = "closed"

\* Once it serves, only a listener that fails and requests that do not end in
\* time make the process end with an error: neither an interrupt, whenever it
\* comes, nor a reload does.
OnlyFailuresAreFatal ==
    [][main # "fatal" /\ main' = "fatal" =>
          \/ main \in {"opening stores", "loading"}
          \/ listener = "failed"
          \/ main = "shutting down"]_processVars

\* An interrupted process ends, whatever signals and requests come and however
\* long they take, unless the last flush hangs for ever.
ShutdownEnds == interrupted \/ ctxCancelled ~> Ended \/ [](sender = "flushing")

-----------------------------------------------------------------------------
(* What the comments say and the code does not do.                          *)

\* The comment at the end of main: "http server could have shut down early or
\* not started. The defers above will cancel and wait for things to shutdown
\* cleanly."
DefersWait == main \in {"exited", "fatal"} /\ listener = "failed" => AllAreDone

\* The same comment, of the goroutines in the background: those that count pokemon,
\* write nests and send webhooks.
NothingIsLeftBehind == main = "exited" => background = {}

=============================================================================
