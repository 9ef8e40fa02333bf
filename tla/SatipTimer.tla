----------------------------- MODULE SatipTimer -----------------------------
(***************************************************************************)
(* The timer list (timer.h, timer.cpp) and the poll that waits for it      *)
(* (session.cpp): times are struct timespec, the poll timeout is in        *)
(* milliseconds, rounded by C's division, which truncates toward zero, and *)
(* callNextTimer calls a timer only when its time has strictly passed.     *)
(***************************************************************************)
EXTENDS Integers

CONSTANTS
    Timer,       \* the elements of m_timer_list
    Intervals,   \* milliseconds a timer is started with
    StartNsec,   \* where within a second the clock may begin
    Delays,      \* external: nanoseconds by which poll returns late, or an event comes
    Handling,    \* external: nanoseconds the handlers of one turn take
    MaxTurns     \* bound: turns of the loop

NsPerSec == 1000000000
NsPerMs  == 1000000

ASSUME TimerAssumption ==
    /\ Intervals \subseteq Nat
    /\ StartNsec \subseteq 0..(NsPerSec - 1)
    /\ Delays \subseteq Nat
    /\ Handling \subseteq Nat
    /\ MaxTurns \in Nat

VARIABLES
    now,       \* CLOCK_MONOTONIC: [sec, nsec]
    m_timer,   \* the timers: [active, single, interval, sec, nsec]
    msec,      \* the poll timeout
    pc,        \* "turn", "poll" or "call"
    timed_out, \* whether poll returned because of its timeout
    turns      \* history: how often poll was called

timerListVars == <<now, m_timer, msec, pc, timed_out, turns>>

Time     == [sec : Nat, nsec : 0..(NsPerSec - 1)]
Inactive == [active |-> FALSE, single |-> TRUE, interval |-> 0, sec |-> 0, nsec |-> 0]

(* Clock and timers are normalized timespecs; the timeout is no infinite   *)
(* wait.                                                                   *)
TimerTypeOK ==
    /\ now \in Time
    /\ m_timer \in [Timer -> [active : BOOLEAN, single : BOOLEAN, interval : Nat,
                              sec : Nat, nsec : 0..(NsPerSec - 1)]]
    /\ msec \in Nat
    /\ pc \in {"turn", "poll", "call"}
    /\ timed_out \in BOOLEAN
    /\ turns \in Nat

TimerInit ==
    /\ now \in [sec : {0}, nsec : StartNsec]
    /\ m_timer = [t \in Timer |-> Inactive]
    /\ msec = 1000
    /\ pc = "turn"
    /\ timed_out = FALSE
    /\ turns = 0

-----------------------------------------------------------------------------
(***************************************************************************)
(* struct timespec                                                         *)
(***************************************************************************)

Before(a, b) == a.sec < b.sec \/ (a.sec = b.sec /\ a.nsec < b.nsec)

(* b - a in nanoseconds *)
Span(a, b) == (b.sec - a.sec) * NsPerSec + b.nsec - a.nsec

(* C's division truncates toward zero. *)
CDiv(a, b) == IF a >= 0 THEN a \div b ELSE -((-a) \div b)

(* A time ms milliseconds after ts, for an interval that is not negative. *)
Later(ts, ms) ==
    LET sec   == ts.sec + ms \div 1000
        nsec  == ts.nsec + (ms % 1000) * NsPerMs
        carry == nsec >= NsPerSec
    IN  [sec |-> IF carry THEN sec + 1 ELSE sec, nsec |-> IF carry THEN nsec - NsPerSec ELSE nsec]

(* external: the clock advances *)
After(ts, ms, ns) ==
    LET nsec == ts.nsec + (ms % 1000) * NsPerMs + ns
    IN  [sec |-> ts.sec + ms \div 1000 + nsec \div NsPerSec, nsec |-> nsec % NsPerSec]

-----------------------------------------------------------------------------
(***************************************************************************)
(* timer_elem                                                              *)
(***************************************************************************)

Armed(ms, single) ==
    LET ts == Later(now, ms)
    IN  [active |-> TRUE, single |-> single, interval |-> ms, sec |-> ts.sec, nsec |-> ts.nsec]

Start(t, ms, single) ==
    /\ pc = "turn"
    /\ m_timer' = [m_timer EXCEPT ![t] = Armed(ms, single)]
    /\ UNCHANGED <<now, msec, pc, timed_out, turns>>

Stop(t) ==
    /\ pc = "turn"
    /\ m_timer[t].active
    /\ m_timer' = [m_timer EXCEPT ![t].active = FALSE]
    /\ UNCHANGED <<now, msec, pc, timed_out, turns>>

-----------------------------------------------------------------------------
(***************************************************************************)
(* satipTimer and poll                                                     *)
(***************************************************************************)

Active == {t \in Timer : m_timer[t].active}

(* Mutant: the latest timer is waited for. *)
NextTimer_Latest == CHOOSE t \in Active : \A u \in Active : ~Before(m_timer[t], m_timer[u])

(* min_timer_elem *)
NextTimer == CHOOSE t \in Active : \A u \in Active : ~Before(m_timer[u], m_timer[t])

(* Mutant: milliseconds are cut off, not rounded up. *)
RoundUp_Cut(sec, nsec) == sec * 1000 + CDiv(nsec, NsPerMs)

(* A difference of seconds and nanoseconds, in milliseconds. *)
RoundUp(sec, nsec) == sec * 1000 + CDiv(nsec, NsPerMs) + 1

Wait(ms) == IF ms < 0 THEN 0 ELSE ms

TimeUntil(ts, cur_ts) == Wait(RoundUp(ts.sec - cur_ts.sec, ts.nsec - cur_ts.nsec))

GetNextTimerBegin ==
    /\ pc = "turn"
    /\ pc' = "poll"
    /\ \E d \in Handling : now' = After(now, 0, d)
    /\ msec' = IF Active = {} THEN 1000 ELSE TimeUntil(m_timer[NextTimer], now')
    /\ UNCHANGED <<m_timer, timed_out, turns>>

(* The timeout has passed, or an event came before it. *)
Poll ==
    /\ pc = "poll"
    /\ pc' = "call"
    /\ \E d \in Delays :
           \/ /\ now' = After(now, msec, d)
              /\ timed_out' = TRUE
           \/ /\ d < msec * NsPerMs
              /\ now' = After(now, 0, d)
              /\ timed_out' = FALSE
    /\ turns < MaxTurns
    /\ turns' = turns + 1
    /\ UNCHANGED <<m_timer, msec>>

Due(t) == m_timer[t].active /\ Before(m_timer[t], now)

(* call: a single shot timer is over, another one starts again. *)
Called(timer) ==
    IF timer.single THEN [timer EXCEPT !.active = FALSE] ELSE Armed(timer.interval, FALSE)

CallNextTimer ==
    /\ pc = "call"
    /\ pc' = "turn"
    /\ m_timer' = [t \in Timer |-> IF Due(t) THEN Called(m_timer[t]) ELSE m_timer[t]]
    /\ timed_out' = FALSE
    /\ UNCHANGED <<now, msec, turns>>

TimerNext ==
    \/ \E t \in Timer, ms \in Intervals, single \in BOOLEAN : Start(t, ms, single)
    \/ \E t \in Timer : Stop(t)
    \/ GetNextTimerBegin \/ Poll \/ CallNextTimer

TimerSpec == TimerInit /\ [][TimerNext]_timerListVars

-----------------------------------------------------------------------------
(* No turn is in vain: a poll that sat out its timeout finds a timer that  *)
(* is due, so that rounding never wakes the thread up too early for the    *)
(* strict comparison, and poll is told not to wait only when there is a    *)
(* timer to call, so that the loop does not spin.                          *)
NoIdleTurn ==
    /\ (pc = "call" /\ timed_out /\ Active # {}) => \E t \in Active : Due(t)
    /\ (pc = "poll" /\ msec = 0) => \E t \in Active : Due(t)

(* No timer is called more than two milliseconds late by the rounding, and *)
(* none waits behind a later one.                                          *)
NoOversleep ==
    pc = "poll" => \A t \in Active :
        LET left == Span(now, m_timer[t])
        IN  msec * NsPerMs <= (IF left > 0 THEN left ELSE 0) + 2 * NsPerMs
=============================================================================
