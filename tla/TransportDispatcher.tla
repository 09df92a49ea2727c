------------------------ MODULE TransportDispatcher ------------------------
(***************************************************************************)
(* carrier.base.AbstractTransportDispatcher and the asyncio dispatcher:    *)
(* the transports of an engine, the timer callbacks that share one tick,   *)
(* and the task that ticks as long as there is a transport.                *)
(*                                                                         *)
(* The state is                                                            *)
(*   [timers : what is called, each [fn, every, next, own, idle],          *)
(*    res, nextTime, ticks, wake : the resolution, when the next tick      *)
(*      counts, how many did, and when the ticker's sleep is over,         *)
(*    skipped, dropped : the timers the last tick did not come to, and     *)
(*      those its callbacks unregistered,                                  *)
(*    transports, held : the transports by domain, and those whose         *)
(*      callback is registered, here or elsewhere,                         *)
(*    loop, running : the dispatcher's event loop and the one that runs,   *)
(*    ticker, startAt, tasks : "off", "starting" or "on"; the loop the     *)
(*      start waits for; the loops with a ticking task not cancelled,      *)
(*    whole : no call has failed half way].                                *)
(* A timer's own says that it was registered with an interval, its idle    *)
(* how many ticks in a row came to it before it was due.  A transport is   *)
(* [id, loop], the loop NoLoop if it is not bound to any.                  *)
(***************************************************************************)
EXTENDS Integers, Sequences, FiniteSets, PythonData, SequencesExt

NoLoop == 0
NoTimer == "none"

NewDispatcher(res, loop, held, now) ==
    [timers |-> <<>>, res |-> res, nextTime |-> 0, ticks |-> 0, wake |-> now + res, skipped |-> 0, dropped |-> 0,
     transports |-> EmptyMap, held |-> held, loop |-> loop, running |-> NoLoop, ticker |-> "off",
     startAt |-> NoLoop, tasks |-> {}, whole |-> TRUE]

----------------------------------------------------------------------------
\* The timers.

registerTimerCbFun(s, fn, interval) ==
    [s EXCEPT !.timers = Append(@, [fn |-> fn, every |-> IF interval = 0 THEN s.res ELSE interval, next |-> 0,
                                    own |-> interval # 0, idle |-> 0])]

\* The first timer of the function.
WithoutTimer(timers, fn) == RemoveAt(timers, SelectInSeq(timers, LAMBDA t : t.fn = fn))
unregisterTimerCbFun(s, fn) == [s EXCEPT !.timers = WithoutTimer(@, fn)]

\* MUTANT of setTimerResolution: the timers that are at the new resolution move.
SetTimerResolutionNew(s, res) ==
    [s EXCEPT !.timers = [i \in DOMAIN @ |-> IF @[i].every = res THEN [@[i] EXCEPT !.every = res] ELSE @[i]], !.res = res]

\* The timers at the old resolution move, also one that named that interval.
setTimerResolution(s, res) ==
    [s EXCEPT !.timers = [i \in DOMAIN @ |-> IF @[i].every = s.res THEN [@[i] EXCEPT !.every = res] ELSE @[i]], !.res = res]

\* One timer of a tick, TimerCallable.__call__: one that is due is called, which may
\* unregister a timer, and is due again an interval later.  The tick goes on to the next
\* position of the list, whatever the list has become.
CallTimer(acc, now, drops) ==
    LET t == acc.timers[acc.at]
        called == [acc.timers EXCEPT ![acc.at] = [t EXCEPT !.next = now + t.every, !.idle = 0]]
        drop == \E k \in DOMAIN called : called[k].fn = drops[t.fn]
    IN IF acc.at > Len(acc.timers) THEN acc
       ELSE IF t.next > now THEN [acc EXCEPT !.timers[acc.at].idle = @ + 1, !.at = @ + 1]
       ELSE [timers |-> IF drop THEN WithoutTimer(called, drops[t.fn]) ELSE called, at |-> acc.at + 1,
             dropped |-> acc.dropped + (IF drop THEN 1 ELSE 0)]

Delta(s) == s.res \div 20

\* A sleep of the ticker is over, and the next one begins.  The first call only sets the
\* time, and a call before the time is not a tick.
handleTimerTick(s, now, drops) ==
    LET first == IF s.nextTime = 0 THEN now + s.res - Delta(s) ELSE s.nextTime
        slept == [s EXCEPT !.wake = now + s.res, !.nextTime = first, !.skipped = 0, !.dropped = 0]
        end == FoldLeft(LAMBDA acc, i : CallTimer(acc, now, drops), [timers |-> s.timers, at |-> 1, dropped |-> 0],
                        [i \in DOMAIN s.timers |-> i])
    IN IF first >= now THEN slept
       ELSE [slept EXCEPT !.ticks = @ + 1, !.nextTime = now + s.res - Delta(s), !.timers = end.timers,
                          !.dropped = end.dropped, !.skipped = Len(s.timers) - (end.at - 1)]

----------------------------------------------------------------------------
\* The transports.

IsRunning(s, loop) == s.running = loop

\* The ticker is started, or its start is left to the loop, unless it was before.
Started(s) ==
    IF s.ticker # "off" THEN s
    ELSE IF IsRunning(s, s.loop) THEN [s EXCEPT !.ticker = "on", !.tasks = @ \cup {s.loop}]
    ELSE [s EXCEPT !.ticker = "starting", !.startAt = s.loop]

\* _start_timer, which the loop calls once it runs.
StartTimer(s) == [s EXCEPT !.ticker = "on", !.startAt = NoLoop, !.tasks = @ \cup {s.loop}]

\* A transport on another loop is refused unless it is the first and the dispatcher's own
\* loop does not run; the dispatcher adopts its loop.  The ticker is started before the
\* domain, or the transport that has its callback set, is refused.
registerTransport(s, domain, t) ==
    LET other == t.loop \notin {NoLoop, s.loop}
        ready == Started(IF other THEN [s EXCEPT !.loop = t.loop] ELSE s)
    IN IF other /\ (s.transports # EmptyMap \/ IsRunning(s, s.loop)) THEN s
       ELSE IF domain \in DOMAIN s.transports THEN ready
       ELSE IF t.id \in s.held THEN [ready EXCEPT !.whole = s.whole /\ s.transports # EmptyMap]
       ELSE [ready EXCEPT !.transports = Put(@, domain, t), !.held = @ \cup {t.id}]

\* MUTANT of CancelTimer: the start that waits for the loop is forgotten.
CancelTimerStarted(s) ==
    IF s.ticker = "on" THEN [s EXCEPT !.ticker = "off", !.tasks = @ \ {s.loop}] ELSE s

\* _cancel_timer.  Where the loop does not run it is run until the task has ended, which
\* another loop that runs makes fail: the task is cancelled and not forgotten.
CancelTimer(s) ==
    LET cancelled == [s EXCEPT !.ticker = "off", !.startAt = NoLoop, !.tasks = @ \ {s.loop}]
    IN IF s.ticker = "on" /\ s.running \notin {NoLoop, s.loop} THEN [cancelled EXCEPT !.ticker = "on", !.whole = FALSE]
       ELSE cancelled

unregisterTransport(s, domain) ==
    LET gone == [s EXCEPT !.transports = Without(@, {domain}), !.held = @ \ {s.transports[domain].id}]
    IN IF gone.transports = EmptyMap THEN CancelTimer(gone) ELSE gone

\* Every transport is closed and unregistered, the timers and the ticker with them; one
\* call that fails ends the others.
closeDispatcher(s) ==
    LET gone == [s EXCEPT !.transports = EmptyMap, !.held = @ \ {s.transports[d].id : d \in DOMAIN s.transports}]
        cancelled == IF s.transports = EmptyMap THEN s ELSE CancelTimer(gone)
    IN IF cancelled.whole # s.whole THEN cancelled ELSE CancelTimer([cancelled EXCEPT !.timers = <<>>])

\* An event loop begins to run, with the start that waits for it, and stops.
RunLoop(s, loop) ==
    LET run == [s EXCEPT !.running = loop] IN IF s.ticker = "starting" /\ s.startAt = loop THEN StartTimer(run) ELSE run
StopLoop(s) == [s EXCEPT !.running = NoLoop]

----------------------------------------------------------------------------
\* A timer at the resolution is called at least at every other tick, however early or late
\* the ticks are and whatever the resolution is changed to; and a tick passes over no more
\* timers than its callbacks have unregistered.
TimersKeepUp(s) ==
    /\ \A i \in DOMAIN s.timers : ~s.timers[i].own => s.timers[i].idle <= 1
    /\ s.skipped <= s.dropped

\* As long as no call has failed half way, there is one ticker, on the loop of every
\* transport, or on its way there, exactly while there is a transport.
TickerServesTransports(s) ==
    s.whole =>
        /\ (s.transports # EmptyMap) <=> (s.ticker # "off")
        /\ \A d \in DOMAIN s.transports : s.transports[d].loop \in {NoLoop, s.loop}
        /\ s.tasks = IF s.ticker = "on" THEN {s.loop} ELSE {}
        /\ s.ticker = "starting" => s.startAt = s.loop /\ ~IsRunning(s, s.loop)
=============================================================================
