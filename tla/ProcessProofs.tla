---------------------------- MODULE ProcessProofs ----------------------------
(***************************************************************************)
(* The process of Fletchling and the loop it runs: the life cycle that     *)
(* main gives all that it starts, for any number of requests, and the      *)
(* invariants of NestProcessorManager, for any number of reloads, any      *)
(* configurations and any rotation intervals.                              *)
(***************************************************************************)
EXTENDS Fletchling, NestProcessorManager, TLAPS

-----------------------------------------------------------------------------
(* How the process ends.                                                    *)


\* Once the server is closed no request is under way, and none is accepted.
NoRequestIsLeft == main \in {"closed", "waiting", "exited"} => active = {}

\* What comes through doneCh is an error of the listener, unless Shutdown was
\* called.
ChannelIsHonest ==
    /\ doneCh \in {"nothing", "nil", "error"}
    /\ doneCh = "error" => listener = "failed"
    /\ doneCh = "nil" => listener = "closed"
    /\ main \in {"waiting", "exited"} => listener = "closed"
    /\ main \in {"opening stores", "loading"} => listener = "none" /\ doneCh = "nothing"
    /\ doneCh = "nil" => main # "serving"

LifecycleInv ==
    /\ NoRequestIsLeft
    /\ ChannelIsHonest

LEMMA InitLifecycleInv == ProcessInit => LifecycleInv
BY DEF ProcessInit, LifecycleInv, NoRequestIsLeft, ChannelIsHonest

LEMMA NextLifecycleInv == LifecycleInv /\ [ProcessNext]_processVars => LifecycleInv'
<1> SUFFICES ASSUME LifecycleInv, [ProcessNext]_processVars
             PROVE  LifecycleInv'
  OBVIOUS
<1> USE DEF LifecycleInv, NoRequestIsLeft, ChannelIsHonest, AllAreDone, Ended, signals,
        hangups, http
<1>1. CASE Startup
  BY <1>1 DEF Startup, OpenStores, LoadConfig, StartupFails, Fatal
<1>2. CASE Interrupt \/ HandlerNotifies \/ HandlerReturns
  BY <1>2 DEF Interrupt, HandlerNotifies, HandlerReturns
<1>3. CASE Hangup \/ ReloaderNotifies \/ ReloaderReceives \/ ReloadEnds \/ ReloaderReturns
  BY <1>3 DEF Hangup, ReloaderNotifies, ReloaderReceives, ReloadEnds, ReloaderReturns
<1>4. CASE \/ ManagerRotates \/ ManagerReturns \/ SenderTicks \/ SenderFlushes
           \/ SenderReturns \/ \E b \in Detached : BackgroundEnds(b)
  BY <1>4 DEF ManagerRotates, ManagerReturns, SenderTicks, SenderFlushes, SenderReturns,
              BackgroundEnds
<1>5. CASE Listen \/ ListenFails \/ ListenerCloses
  BY <1>5 DEF Listen, ListenFails, ListenerCloses, Shutdown
<1>6. CASE \E r \in Request : RequestArrives(r) \/ RequestEnds(r)
  BY <1>6 DEF RequestArrives, RequestEnds
<1>7. CASE ServerRun
  <2>1. CASE ShutdownServer \/ ShutdownReturns
    BY <2>1 DEF ShutdownServer, ShutdownReturns
  <2>2. CASE ShutdownTimesOut
    BY <2>2 DEF ShutdownTimesOut, Fatal
  <2>3. CASE ServerRunReturns
    BY <2>3 DEF ServerRunReturns
  <2> QED
    BY <1>7, <2>1, <2>2, <2>3 DEF ServerRun
<1>8. CASE Exit
  BY <1>8 DEF Exit
<1>9. CASE UNCHANGED processVars
  BY <1>9 DEF processVars
<1> QED
  BY <1>1, <1>2, <1>3, <1>4, <1>5, <1>6, <1>7, <1>8, <1>9 DEF ProcessNext

LEMMA LifecycleInvariance == ProcessSpec => []LifecycleInv
BY InitLifecycleInv, NextLifecycleInv, PTL DEF ProcessSpec

\* However many requests were under way when the shutdown began, main gets to its
\* deferred functions only when they have been answered, and accepts no other.
THEOREM RequestsAreAlwaysFinished == ProcessSpec => []RequestsAreFinished
<1>1. LifecycleInv => RequestsAreFinished
  BY DEF LifecycleInv, NoRequestIsLeft, ChannelIsHonest, RequestsAreFinished
<1> QED
  BY <1>1, LifecycleInvariance, PTL

\* An interrupt or a reload does not make the process end with an error,
\* whenever it comes: only startup, the listener and the timeout do.
THEOREM FatalIsFailure == ProcessSpec => OnlyFailuresAreFatal
<1>1. ASSUME LifecycleInv, [ProcessNext]_processVars, main # "fatal", main' = "fatal"
      PROVE  \/ main \in {"opening stores", "loading"}
             \/ listener = "failed"
             \/ main = "shutting down"
  <2>1. CASE Startup
    BY <1>1, <2>1 DEF Startup, OpenStores, LoadConfig, StartupFails, Fatal
  <2>2. CASE ServerRun
    BY <1>1, <2>2 DEF ServerRun, ShutdownServer, ShutdownReturns, ShutdownTimesOut, Fatal,
                      ServerRunReturns, LifecycleInv, ChannelIsHonest
  <2>3. CASE ~(Startup \/ ServerRun)
    BY <1>1, <2>3 DEF ProcessNext, processVars, Interrupt, HandlerNotifies,
                      HandlerReturns, Hangup,
                      ReloaderNotifies, ReloaderReceives, ReloadEnds, ReloaderReturns,
                      ManagerRotates, ManagerReturns, SenderTicks, SenderFlushes,
                      SenderReturns, BackgroundEnds, Listen, ListenFails, ListenerCloses,
                      RequestArrives, RequestEnds, Exit
  <2> QED
    BY <2>1, <2>2, <2>3
<1>2. LifecycleInv /\ [ProcessNext]_processVars =>
        [main # "fatal" /\ main' = "fatal" =>
          \/ main \in {"opening stores", "loading"}
          \/ listener = "failed"
          \/ main = "shutting down"]_processVars
  BY <1>1
<1> QED
  BY <1>2, LifecycleInvariance, PTL DEF ProcessSpec, OnlyFailuresAreFatal

-----------------------------------------------------------------------------
(* The manager: reloads, and the timer of the rotations.                    *)


\* The signal of the first LoadConfig waits until Run has eaten it; then either
\* a signal waits, or Run has eaten one it needed, or its processor is current.
Signalled ==
    /\ run \in {"start", "eat"} => reloadCh
    /\ run \in {"select", "adjust"} /\ ~reloadCh /\ ~eaten
          => current = nestProcessor

\* While Run is at work its timer runs for what is left of the interval, or the
\* interval is over and it has fired.
TimerIsSet ==
    /\ interval \in 1..(Long - 1)
    /\ run \in {"eat", "select", "reload", "adjust"} /\ ~fired
          => remaining = IF elapsed < interval THEN interval - elapsed ELSE 0
    /\ run \in {"eat", "select", "reload", "adjust"} /\ fired
          => elapsed >= interval

\* As long as reloads have not overlapped there is at most one of them, and the
\* filters lag behind the processor only between its last two steps.
OneReload ==
    ~overlapped =>
        /\ \A r, o \in Reloader : reload[r] # "idle" /\ reload[o] # "idle" => r = o
        /\ \A r \in Reloader : reload[r] = "filters" => loaded[r] = nestProcessor
        /\ (\A r \in Reloader : reload[r] # "filters") => filtersConfig = nestProcessor

ManagerInv == ManagerTypeOK /\ Signalled /\ TimerIsSet /\ OneReload

-----------------------------------------------------------------------------

\* The intervals are in the range of the clock.
LEMMA IntervalRange ==
    ASSUME NEW c \in Config
    PROVE  /\ Interval[c] \in Nat
           /\ Interval[c] \in 1..(Long - 1)
           /\ Long \in Nat
BY ManagerAssumption

LEMMA InitManagerInv == Init => ManagerInv
<1> SUFFICES ASSUME Init PROVE ManagerInv
  OBVIOUS
<1> USE DEF Init
<1>1. file \in Config /\ Long \in Nat /\ Interval[file] \in 1..(Long - 1)
  BY IntervalRange
<1>2. ManagerTypeOK
  <2>1. loaded \in [Reloader -> Config]
    BY <1>1
  <2>2. elapsed \in 0..Long /\ remaining \in 0..Off /\ interval \in Nat
    BY <1>1 DEF Off
  <2> QED
    BY <1>1, <2>1, <2>2 DEF ManagerTypeOK
<1>3. Signalled /\ TimerIsSet /\ OneReload
  BY <1>1 DEF Signalled, TimerIsSet, OneReload
<1> QED
  BY <1>2, <1>3 DEF ManagerInv

\* A step that leaves the timer and the interval alone keeps the timer set.
LEMMA TimerUntouched ==
    ASSUME TimerIsSet, UNCHANGED <<timer, interval>>,
           run' = run \/ run' \in {"start", "returned"}
                      \/ run \in {"eat", "select", "reload", "adjust"}
    PROVE  TimerIsSet'
BY DEF TimerIsSet, timer

\* The environment: it touches neither reloads nor Run.
LEMMA EnvironmentStep ==
    ManagerInv /\ (EditFile \/ Cancel \/ Tick \/ TimerFires) => ManagerInv'
<1> SUFFICES ASSUME ManagerInv, EditFile \/ Cancel \/ Tick \/ TimerFires
             PROVE  ManagerInv'
  OBVIOUS
<1> USE DEF ManagerInv
<1>0. UNCHANGED <<reloads, reloadCh, run, current, interval, eaten>>
  BY DEF EditFile, Cancel, Tick, TimerFires
<1>1. Signalled' /\ OneReload'
  BY <1>0 DEF Signalled, OneReload, reloads
<1>2. CASE EditFile \/ Cancel
  <2>1. ManagerTypeOK'
    BY <1>0, <1>2 DEF EditFile, Cancel, ManagerTypeOK, reloads, timer
  <2>2. TimerIsSet'
    BY <1>0, <1>2, TimerUntouched DEF EditFile, Cancel, timer
  <2> QED
    BY <1>1, <2>1, <2>2
<1>3. CASE Tick
  <2>1. Long \in Nat /\ interval \in 1..(Long - 1) /\ elapsed \in 0..Long
        /\ remaining \in 0..(Long + 1)
    BY ManagerAssumption DEF TimerIsSet, ManagerTypeOK, Off
  <2>2. elapsed' \in 0..Long /\ remaining' \in 0..(Long + 1)
    BY <1>3, <2>1 DEF Tick
  <2>3. ManagerTypeOK'
    BY <1>0, <1>3, <2>2 DEF Tick, ManagerTypeOK, reloads, Off
  <2>4. TimerIsSet'
    <3>0. fired /\ elapsed >= interval => elapsed' >= interval'
      BY <1>0, <1>3, <2>1 DEF Tick
    <3> SUFFICES ASSUME run \in {"eat", "select", "reload", "adjust"}, ~fired
                 PROVE  remaining' = IF elapsed' < interval THEN interval - elapsed'
                                                             ELSE 0
      BY <1>0, <1>3, <2>1, <3>0 DEF Tick, TimerIsSet
    <3>1. remaining = IF elapsed < interval THEN interval - elapsed ELSE 0
      BY DEF TimerIsSet
    <3> QED
      BY <1>3, <2>1, <3>1 DEF Tick
  <2> QED
    BY <1>1, <2>3, <2>4
<1>4. CASE TimerFires
  <2>1. ManagerTypeOK'
    BY <1>0, <1>4, ManagerAssumption DEF TimerFires, ManagerTypeOK, reloads, Off
  <2>2. TimerIsSet'
    <3>1. interval \in Nat /\ elapsed \in Nat /\ remaining = 0 /\ elapsed' = elapsed
      BY <1>4, ManagerAssumption DEF TimerFires, ManagerTypeOK
    <3>2. run \in {"eat", "select", "reload", "adjust"} => elapsed >= interval
      BY <3>1 DEF TimerIsSet
    <3>3. fired'
      BY <1>4 DEF TimerFires
    <3> QED
      BY <1>0, <3>1, <3>2, <3>3 DEF TimerIsSet
  <2> QED
    BY <1>1, <2>1, <2>2
<1> QED
  BY <1>2, <1>3, <1>4

\* The steps of a reload: they touch neither the timer nor Run.
ReloadStep(r) ==
    \/ ReadConfig(r) \/ LockReload(r) \/ GetActiveNests(r) \/ LoadFails(r)
    \/ SwapProcessor(r) \/ SetFiltersConfig(r)

LEMMA ReloadStepInv ==
    ASSUME ManagerInv, NEW r \in Reloader, ReloadStep(r)
    PROVE  ManagerInv'
<1> USE DEF ManagerInv
<1>0. UNCHANGED <<file, run, current, interval, timer, cancelled, eaten>>
  BY DEF ReloadStep, ReadConfig, LockReload, GetActiveNests, LoadFails,
         SwapProcessor, SetFiltersConfig
<1>1. TimerIsSet'
  BY <1>0, TimerUntouched
<1>2. ManagerTypeOK'
  <2>1. /\ reload' \in [Reloader -> {"idle", "lock", "load", "swap", "filters"}]
        /\ loaded' \in [Reloader -> Config]
    BY DEF ManagerTypeOK, ReloadStep, ReadConfig, LockReload, GetActiveNests,
           LoadFails, SwapProcessor, SetFiltersConfig
  <2>2. /\ nestProcessor' \in Config /\ filtersConfig' \in Config
        /\ reloadCh' \in BOOLEAN /\ overlapped' \in BOOLEAN
    BY DEF ManagerTypeOK, ReloadStep, ReadConfig, LockReload, GetActiveNests,
           LoadFails, SwapProcessor, SetFiltersConfig
  <2> QED
    BY <1>0, <2>1, <2>2 DEF ManagerTypeOK, timer
<1>3. Signalled'
  BY <1>0 DEF Signalled, ReloadStep, ReadConfig, LockReload, GetActiveNests,
              LoadFails, SwapProcessor, SetFiltersConfig
<1>4. OneReload'
  <2> USE DEF OneReload, ManagerTypeOK
  <2>1. CASE ReadConfig(r)
    BY <2>1 DEF ReadConfig
  <2>2. CASE LockReload(r)
    BY <2>2 DEF LockReload
  <2>3. CASE GetActiveNests(r)
    BY <2>3 DEF GetActiveNests
  <2>4. CASE LoadFails(r)
    BY <2>4 DEF LoadFails
  <2>5. CASE SwapProcessor(r)
    BY <2>5 DEF SwapProcessor
  <2>6. CASE SetFiltersConfig(r)
    BY <2>6 DEF SetFiltersConfig
  <2> QED
    BY <2>1, <2>2, <2>3, <2>4, <2>5, <2>6 DEF ReloadStep
<1> QED
  BY <1>1, <1>2, <1>3, <1>4

\* Reset sets the timer to what is left of the interval i.
LEMMA ResetSetsTimer ==
    ASSUME NEW i \in 1..(Long - 1), NEW passed \in 0..i, Long \in Nat,
           Reset(i, passed), interval' = i
    PROVE  /\ TimerIsSet'
           /\ elapsed' \in 0..Long /\ remaining' \in 0..Off /\ fired' \in BOOLEAN
<1>1. elapsed' = passed /\ remaining' = i - passed /\ fired' = FALSE
  BY DEF Reset
<1>2. remaining' = IF elapsed' < interval' THEN interval' - elapsed' ELSE 0
  BY <1>1
<1>3. TimerIsSet'
  BY <1>1, <1>2 DEF TimerIsSet
<1>4. elapsed' \in 0..Long /\ remaining' \in 0..Off
  BY <1>1 DEF Off
<1> QED
  BY <1>1, <1>3, <1>4

\* The steps of Run: they touch no reload.
LEMMA RunStepInv == ManagerInv /\ RunStep => ManagerInv'
<1> SUFFICES ASSUME ManagerInv, RunStep PROVE ManagerInv'
  OBVIOUS
<1> USE DEF ManagerInv
<1>0. UNCHANGED <<file, reloads, cancelled>>
  BY DEF RunStep, RunStart, EatReloadSignal, RunReturns, ReceiveReload,
         GetNestProcessor, AdjustInterval, RotateByTimer
<1>1. OneReload'
  BY <1>0 DEF OneReload, reloads
<1>2. Signalled'
  BY <1>0 DEF Signalled, reloads, RunStep, RunStart, EatReloadSignal, RunReturns,
              ReceiveReload, GetNestProcessor, AdjustInterval, RotateByTimer
<1>3. ManagerTypeOK' /\ TimerIsSet'
  <2>0. /\ Long \in Nat /\ interval \in 1..(Long - 1)
        /\ elapsed \in 0..Long /\ remaining \in 0..Off
        /\ nestProcessor \in Config /\ current \in Config
    BY ManagerAssumption DEF ManagerTypeOK, TimerIsSet
  <2>1. CASE RunStart
    <3>1. Interval[nestProcessor] \in 1..(Long - 1)
      BY <2>0, IntervalRange
    <3>2. /\ TimerIsSet'
          /\ elapsed' \in 0..Long /\ remaining' \in 0..Off /\ fired' \in BOOLEAN
      <4>1. Reset(Interval[nestProcessor], 0) /\ interval' = Interval[nestProcessor]
        BY <2>1 DEF RunStart
      <4> QED
        BY <2>0, <3>1, <4>1, ResetSetsTimer
    <3> QED
      BY <1>0, <2>0, <2>1, <3>1, <3>2 DEF RunStart, ManagerTypeOK, reloads
  <2>2. CASE EatReloadSignal
    BY <1>0, <2>2, TimerUntouched DEF EatReloadSignal, ManagerTypeOK, reloads, timer
  <2>3. CASE RunReturns
    <3>1. remaining' \in 0..Off
      BY <2>0, <2>3 DEF RunReturns, Off
    <3>2. ManagerTypeOK'
      BY <1>0, <2>3, <3>1 DEF RunReturns, ManagerTypeOK, reloads
    <3>3. TimerIsSet'
      BY <2>0, <2>3 DEF RunReturns, TimerIsSet
    <3> QED
      BY <3>2, <3>3
  <2>4. CASE ReceiveReload
    BY <1>0, <2>4, TimerUntouched DEF ReceiveReload, ManagerTypeOK, reloads, timer
  <2>5. CASE GetNestProcessor
    BY <1>0, <2>5, TimerUntouched DEF GetNestProcessor, ManagerTypeOK, reloads, timer
  <2>6. CASE AdjustInterval
    <3> DEFINE new == Interval[current]
    <3>1. new \in 1..(Long - 1)
      BY <2>0, IntervalRange
    <3>2. /\ TimerIsSet'
          /\ elapsed' \in 0..Long /\ remaining' \in 0..Off /\ fired' \in BOOLEAN
      <4>1. CASE new = interval
        BY <2>0, <2>6, <4>1, TimerUntouched
           DEF AdjustInterval, timer, ManagerTypeOK
      <4>2. CASE new # interval
        <5>1. Reset(new, IF Due(new) THEN 0 ELSE elapsed) /\ interval' = new
          BY <2>6, <4>2 DEF AdjustInterval, AdjustTimer
        <5>2. (IF Due(new) THEN 0 ELSE elapsed) \in 0..new
          BY <2>0, <3>1 DEF Due
        <5> HIDE DEF new
        <5> QED
          BY <2>0, <3>1, <5>1, <5>2, ResetSetsTimer
      <4> QED
        BY <4>1, <4>2
    <3> QED
      BY <1>0, <2>0, <2>6, <3>1, <3>2 DEF AdjustInterval, ManagerTypeOK, reloads
  <2>7. CASE RotateByTimer
    <3>1. /\ TimerIsSet'
          /\ elapsed' \in 0..Long /\ remaining' \in 0..Off /\ fired' \in BOOLEAN
      <4>1. Reset(interval, 0) /\ interval' = interval
        BY <2>7 DEF RotateByTimer
      <4> QED
        BY <2>0, <4>1, ResetSetsTimer
    <3> QED
      BY <1>0, <2>0, <2>7, <3>1 DEF RotateByTimer, ManagerTypeOK, reloads
  <2> QED
    BY <2>1, <2>2, <2>3, <2>4, <2>5, <2>6, <2>7 DEF RunStep
<1> QED
  BY <1>1, <1>2, <1>3

LEMMA NextManagerInv == ManagerInv /\ [Next]_vars => ManagerInv'
<1> SUFFICES ASSUME ManagerInv, [Next]_vars PROVE ManagerInv'
  OBVIOUS
<1>1. CASE EditFile \/ Cancel \/ Tick \/ TimerFires
  BY <1>1, EnvironmentStep
<1>2. CASE \E r \in Reloader : ReloadStep(r)
  BY <1>2, ReloadStepInv
<1>3. CASE RunStep
  BY <1>3, RunStepInv
<1>4. CASE UNCHANGED vars
  <2> USE <1>4 DEF vars, reloads, timer, ManagerInv
  <2>1. ManagerTypeOK'
    BY DEF ManagerTypeOK
  <2>2. Signalled' /\ TimerIsSet' /\ OneReload'
    BY DEF Signalled, TimerIsSet, OneReload
  <2> QED
    BY <2>1, <2>2
<1> QED
  BY <1>1, <1>2, <1>3, <1>4 DEF Next, ReloadStep

LEMMA ManagerInvariance == Spec => []ManagerInv
BY InitManagerInv, NextManagerInv, PTL DEF Spec

-----------------------------------------------------------------------------

\* Type correctness: the timer is never set to a negative time, however the
\* interval of the configuration changes.
THEOREM ManagerTypeCorrect == Spec => []ManagerTypeOK
<1>1. ManagerInv => ManagerTypeOK
  BY DEF ManagerInv
<1> QED
  BY <1>1, ManagerInvariance, PTL

\* Run works with the processor installed last, or a signal waits for it, or it
\* has eaten one before its loop.
THEOREM RunUpToDateCorrect == Spec => []RunIsUpToDate
<1>1. ManagerInv => RunIsUpToDate
  BY DEF ManagerInv, Signalled, RunIsUpToDate
<1> QED
  BY <1>1, ManagerInvariance, PTL

\* Reloads that do not overlap leave nests and filters on one configuration.
THEOREM ConfigsAgreeCorrect == Spec => []ConfigsAgree
<1>1. ManagerInv => ConfigsAgree
  BY DEF ManagerInv, OneReload, ConfigsAgree
<1> QED
  BY <1>1, ManagerInvariance, PTL

\* The timer that reloads stop and set again is due when the interval is over.
THEOREM TimerOnTimeCorrect == Spec => []TimerIsOnTime
<1>1. ManagerInv => TimerIsOnTime
  BY DEF ManagerInv, TimerIsSet, TimerIsOnTime
<1> QED
  BY <1>1, ManagerInvariance, PTL

\* Rotations are never early: the timer has fired, which it does not do before
\* the interval is over, or the new interval is over already.
THEOREM RotationNotEarlyCorrect == Spec => RotationIsNotEarly
<1>1. ManagerInv /\ [Next]_vars
         => [Rotates => elapsed >= interval \/ elapsed >= interval']_vars
  <2> SUFFICES ASSUME ManagerInv, Rotates
               PROVE  elapsed >= interval \/ elapsed >= interval'
    OBVIOUS
  <2>0. /\ elapsed \in Nat /\ elapsed > 0 /\ elapsed' = 0
        /\ Long \in Nat /\ current \in Config
    BY ManagerAssumption DEF ManagerInv, ManagerTypeOK, Rotates
  <2>1. CASE RotateByTimer
    BY <2>1 DEF RotateByTimer, ManagerInv, TimerIsSet
  <2>2. CASE AdjustInterval
    <3>1. interval' = Interval[current] /\ Interval[current] \in Nat
      BY <2>0, <2>2, IntervalRange DEF AdjustInterval
    <3>2. Due(interval')
      BY <2>0, <2>2 DEF AdjustInterval, AdjustTimer, Reset, timer
    <3>3. CASE fired
      BY <2>2, <3>3 DEF AdjustInterval, ManagerInv, TimerIsSet
    <3> QED
      BY <2>0, <3>1, <3>2, <3>3 DEF Due
  <2> QED
    BY <2>1, <2>2 DEF Rotates
<1> QED
  BY <1>1, ManagerInvariance, PTL DEF Spec, RotationIsNotEarly

=============================================================================
