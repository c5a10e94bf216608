------------------------ MODULE NestProcessorManager ------------------------
(***************************************************************************)
(* Reloads of the configuration (processor/manager.go, and the reloadFn of *)
(* bin/fletchling/fletchling.go) and the loop of NestProcessorManager.Run, *)
(* which rotates the statistics by a timer that reloads adjust.            *)
(*                                                                         *)
(* A NestProcessor is known by the configuration it was built from.  The   *)
(* clock is kept relative to the last rotation.  The timer that only logs  *)
(* is left out.                                                            *)
(***************************************************************************)
EXTENDS Integers

CONSTANTS
    Reloader,      \* the SIGHUP handler and the requests of /api/config/reload
    Config,        \* the contents the configuration file may have
    Interval,      \* Interval[c]: the rotation interval of c, in ticks
    Long           \* bound: the clock stops so long after a rotation

ASSUME ManagerAssumption ==
    /\ Config # {}
    /\ Long \in Nat
    /\ Interval \in [Config -> 1..(Long - 1)]

VARIABLES
    file,           \* the contents of the configuration file
    reload,         \* what each Reloader does next
    loaded,         \* the configuration each Reloader has read
    nestProcessor,  \* mgr.nestProcessor, by its configuration
    filtersConfig,  \* the configuration the filters in use come from
    reloadCh,       \* the channel of capacity 1 holds a signal
    run,            \* what Run does next
    current,        \* the nestProcessor of Run, by its configuration
    interval,       \* the rotationInterval of Run
    elapsed,        \* now - statsTimerStart
    remaining,      \* ticks until the timer fires, or Off
    fired,          \* the channel of the timer holds a value
    cancelled,      \* the context is cancelled: shutdown
    eaten,          \* history: Run has missed the last reload: it ate the signal
    overlapped      \* history: two reloads ran concurrently

reloads == <<reload, loaded, nestProcessor, filtersConfig, overlapped>>
timer == <<elapsed, remaining, fired>>
vars == <<file, reloads, reloadCh, run, current, interval, timer,
          cancelled, eaten>>

-----------------------------------------------------------------------------

\* remaining, when the timer does not run.
Off == Long + 1

\* main has loaded the first configuration, which leaves a signal behind, and
\* has started all goroutines.
Init ==
    /\ file \in Config
    /\ reload = [r \in Reloader |-> "idle"]
    /\ nestProcessor = file
    /\ loaded = [r \in Reloader |-> nestProcessor]
    /\ filtersConfig = file
    /\ reloadCh = TRUE
    /\ run = "start"
    /\ current = nestProcessor
    /\ interval = Interval[file]
    /\ elapsed = 0
    /\ remaining = Off
    /\ fired = FALSE
    /\ cancelled = FALSE
    /\ eaten = FALSE
    /\ overlapped = FALSE

-----------------------------------------------------------------------------
(* The environment: the administrator and the clock.                        *)

EditFile ==
    /\ file' \in Config
    /\ UNCHANGED <<reloads, reloadCh, run, current, interval, timer,
                   cancelled, eaten>>

Cancel ==
    /\ cancelled' = TRUE
    /\ UNCHANGED <<file, reloads, reloadCh, run, current, interval, timer,
                   eaten>>

Tick ==
    /\ elapsed' = IF elapsed < Long THEN elapsed + 1 ELSE Long
    /\ IF remaining \in 1..Long
       THEN remaining' = remaining - 1
       ELSE UNCHANGED remaining
    /\ UNCHANGED <<file, reloads, reloadCh, run, current, interval, fired,
                   cancelled, eaten>>

TimerFires ==
    /\ remaining = 0
    /\ remaining' = Off
    /\ fired' = TRUE
    /\ UNCHANGED <<file, reloads, reloadCh, run, current, interval, elapsed,
                   cancelled, eaten>>

-----------------------------------------------------------------------------
(* A reload.  The configuration file is read before reloadMutex is taken.   *)

ReadConfig(r) ==
    /\ reload[r] = "idle"
    /\ reload' = [reload EXCEPT ![r] = "lock"]
    /\ loaded' = [loaded EXCEPT ![r] = file]
    /\ overlapped' = (overlapped \/ \E o \in Reloader : reload[o] # "idle")
    /\ UNCHANGED <<file, nestProcessor, filtersConfig, reloadCh, run, current,
                   interval, timer, cancelled, eaten>>

LockReload(r) ==
    /\ reload[r] = "lock"
    /\ \A o \in Reloader : reload[o] \notin {"load", "swap"}
    /\ reload' = [reload EXCEPT ![r] = "load"]
    /\ UNCHANGED <<file, loaded, nestProcessor, filtersConfig, overlapped,
                   reloadCh, run, current, interval, timer, cancelled, eaten>>

GetActiveNests(r) ==
    /\ reload[r] = "load"
    /\ ~cancelled
    /\ reload' = [reload EXCEPT ![r] = "swap"]
    /\ UNCHANGED <<file, loaded, nestProcessor, filtersConfig, overlapped,
                   reloadCh, run, current, interval, timer, cancelled, eaten>>

\* Mutant: reloadFn does not look at the error.
LoadFailsUnnoticed(r) ==
    /\ reload[r] = "load"
    /\ reload' = [reload EXCEPT ![r] = "filters"]
    /\ UNCHANGED <<file, loaded, nestProcessor, filtersConfig, overlapped,
                   reloadCh, run, current, interval, timer, cancelled, eaten>>

\* The database fails: nothing is reloaded.
LoadFails(r) ==
    /\ reload[r] = "load"
    /\ reload' = [reload EXCEPT ![r] = "idle"]
    /\ UNCHANGED <<file, loaded, nestProcessor, filtersConfig, overlapped,
                   reloadCh, run, current, interval, timer, cancelled, eaten>>

\* Mutant: the channel has no room, so that only a waiting Run is notified.
SwapProcessorUnbuffered(r) ==
    /\ reload[r] = "swap"
    /\ nestProcessor' = loaded[r]
    /\ reloadCh' = (reloadCh \/ run = "select")
    /\ reload' = [reload EXCEPT ![r] = "filters"]
    /\ UNCHANGED <<file, loaded, filtersConfig, overlapped, run, current,
                   interval, timer, cancelled, eaten>>

\* The new processor is installed and, under the same mutex, Run is notified,
\* unless a notification waits already.
SwapProcessor(r) ==
    /\ reload[r] = "swap"
    /\ nestProcessor' = loaded[r]
    /\ reloadCh' = TRUE
    /\ reload' = [reload EXCEPT ![r] = "filters"]
    /\ UNCHANGED <<file, loaded, filtersConfig, overlapped, run, current,
                   interval, timer, cancelled, eaten>>

SetFiltersConfig(r) ==
    /\ reload[r] = "filters"
    /\ filtersConfig' = loaded[r]
    /\ reload' = [reload EXCEPT ![r] = "idle"]
    /\ UNCHANGED <<file, loaded, nestProcessor, overlapped, reloadCh, run,
                   current, interval, timer, cancelled, eaten>>

-----------------------------------------------------------------------------
(* Run.                                                                     *)

\* The timer is set again after passed ticks of the interval i.
Reset(i, passed) ==
    /\ elapsed' = passed
    /\ remaining' = i - passed
    /\ fired' = FALSE

RunStart ==
    /\ run = "start"
    /\ run' = "eat"
    /\ current' = nestProcessor
    /\ interval' = Interval[nestProcessor]
    /\ Reset(interval', 0)
    /\ UNCHANGED <<file, reloads, reloadCh, cancelled, eaten>>

\* "eat any pending reload signal": of the first LoadConfig, or of any other.
EatReloadSignal ==
    /\ run = "eat"
    /\ run' = "select"
    /\ reloadCh' = FALSE
    /\ eaten' = (reloadCh /\ nestProcessor # current)
    /\ UNCHANGED <<file, reloads, current, interval, timer, cancelled>>

RunReturns ==
    /\ run = "select"
    /\ cancelled
    /\ remaining # Off \/ fired    \* else it waits for the timer's channel
    /\ run' = "returned"
    /\ fired' = FALSE
    /\ remaining' = Off
    /\ UNCHANGED <<file, reloads, reloadCh, current, interval, elapsed,
                   cancelled, eaten>>

ReceiveReload ==
    /\ run = "select"
    /\ reloadCh
    /\ reloadCh' = FALSE
    /\ run' = "reload"
    /\ UNCHANGED <<file, reloads, current, interval, timer, cancelled, eaten>>

Due(new) == fired \/ elapsed > new

\* Mutant: what has passed before the rotation is deducted from the next one.
AdjustTimerDeducting(new) ==
    /\ elapsed' = IF Due(new) THEN 0 ELSE elapsed
    /\ remaining' = IF elapsed > new THEN 0 ELSE new - elapsed
    /\ fired' = FALSE

\* Mutant: the timer is set to the whole of the new interval.
AdjustTimerAnew(new) ==
    /\ elapsed' = IF Due(new) THEN 0 ELSE elapsed
    /\ remaining' = new
    /\ fired' = FALSE

\* A changed interval stops the timer, rotates if the time has come, and sets
\* the timer to what is left of the new interval.
AdjustTimer(new) == Reset(new, IF Due(new) THEN 0 ELSE elapsed)

GetNestProcessor ==
    /\ run = "reload"
    /\ run' = "adjust"
    /\ current' = nestProcessor
    /\ eaten' = FALSE
    /\ UNCHANGED <<file, reloads, reloadCh, interval, timer, cancelled>>

\* A timer that neither runs nor has fired would make Stop wait for ever.
AdjustInterval ==
    /\ run = "adjust"
    /\ run' = "select"
    /\ interval' = Interval[current]
    /\ IF interval' = interval
       THEN UNCHANGED timer
       ELSE (remaining # Off \/ fired) /\ AdjustTimer(interval')
    /\ UNCHANGED <<file, reloads, reloadCh, current, cancelled, eaten>>

\* Mutant: the timer is not set again.
RotateByTimerOnce ==
    /\ run = "select"
    /\ fired
    /\ fired' = FALSE
    /\ elapsed' = 0
    /\ UNCHANGED <<file, reloads, reloadCh, run, current, interval, remaining,
                   cancelled, eaten>>

RotateByTimer ==
    /\ run = "select"
    /\ fired
    /\ Reset(interval, 0)
    /\ UNCHANGED <<file, reloads, reloadCh, run, current, interval, cancelled,
                   eaten>>

-----------------------------------------------------------------------------

RunStep ==
    \/ RunStart \/ EatReloadSignal \/ RunReturns
    \/ ReceiveReload \/ GetNestProcessor \/ AdjustInterval \/ RotateByTimer

Next ==
    \/ EditFile \/ Cancel \/ Tick \/ TimerFires
    \/ \E r \in Reloader :
          \/ ReadConfig(r) \/ LockReload(r) \/ GetActiveNests(r) \/ LoadFails(r)
          \/ SwapProcessor(r) \/ SetFiltersConfig(r)
    \/ RunStep

Spec == Init /\ [][Next]_vars

\* Time passes, timers fire, and select chooses at random among what is ready,
\* so that nothing that is ready again and again is passed over for ever.
FairSpec ==
    /\ Spec
    /\ WF_vars(Tick) /\ WF_vars(TimerFires)
    /\ WF_vars(RunStart) /\ WF_vars(EatReloadSignal)
    /\ WF_vars(GetNestProcessor) /\ WF_vars(AdjustInterval)
    /\ SF_vars(ReceiveReload) /\ SF_vars(RotateByTimer) /\ SF_vars(RunReturns)

-----------------------------------------------------------------------------
(* Correctness.                                                             *)

\* The type invariant.
ManagerTypeOK ==
    /\ file \in Config
    /\ reload \in [Reloader -> {"idle", "lock", "load", "swap", "filters"}]
    /\ loaded \in [Reloader -> Config]
    /\ nestProcessor \in Config
    /\ filtersConfig \in Config
    /\ reloadCh \in BOOLEAN
    /\ run \in {"start", "eat", "select", "reload", "adjust", "returned"}
    /\ current \in Config
    /\ interval \in Nat
    /\ elapsed \in 0..Long
    /\ remaining \in 0..Off
    /\ fired \in BOOLEAN
    /\ cancelled \in BOOLEAN
    /\ eaten \in BOOLEAN
    /\ overlapped \in BOOLEAN

\* Whatever Run waits for, it works with the processor installed last, or a
\* signal waits that will make it fetch it, unless it has eaten a signal.
RunIsUpToDate ==
    run = "select" /\ ~reloadCh /\ ~eaten => current = nestProcessor

\* When no reload is under way and no two ever ran concurrently, nests are
\* processed and filtered by one and the same version of the configuration.
ConfigsAgree ==
    ~overlapped /\ (\A r \in Reloader : reload[r] = "idle")
        => filtersConfig = nestProcessor

Rotates == (RotateByTimer \/ AdjustInterval) /\ elapsed' = 0 /\ elapsed > 0

\* A period is never shorter than the interval it was started with and the one
\* it ends with both allow, however often the interval is changed meanwhile.
RotationIsNotEarly ==
    [][Rotates => elapsed >= interval \/ elapsed >= interval']_vars

\* The timer that reloads stop and set again still fires when the interval is
\* over, counted from the last rotation.
TimerIsOnTime ==
    run \in {"select", "reload", "adjust"} /\ ~fired
        => remaining = IF elapsed < interval THEN interval - elapsed ELSE 0

\* Rotations go on for ever, even if the interval is changed again and again.
RotationsGoOn == []<>(elapsed = 0 \/ cancelled)

\* Run returns after a shutdown: it does not wait for a timer in vain.
RunEnds == cancelled ~> run = "returned"

-----------------------------------------------------------------------------
(* What the comments say and the code does not do.                          *)

\* LoadConfig: "Notify the background goroutine that config was reloaded".
NoReloadIsLost ==
    run = "select" /\ ~reloadCh => current = nestProcessor

=============================================================================
