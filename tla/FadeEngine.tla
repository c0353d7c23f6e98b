----------------------------- MODULE FadeEngine -----------------------------
(***************************************************************************)
(* The channel buffers, the fades and the universe map of one DMX object   *)
(* (src/DMX.cpp, class DMX).                                               *)
(*                                                                         *)
(* Every method runs in the thread that calls it and takes the mutexes     *)
(* fade_mutex and dmx_mutex section by section.  One action of this module *)
(* is one critical section (or one unlocked access to _active_universe),   *)
(* so that TLC interleaves two calls exactly where the code lets them      *)
(* interleave.  dmx_mutex is never held across two sections, so its owner  *)
(* needs no variable; fade() holds fade_mutex while it takes and releases  *)
(* dmx_mutex inside, so the owner of fade_mutex is a variable.             *)
(*                                                                         *)
(* Time is an integer number of milliseconds, advanced by Tick.            *)
(***************************************************************************)
EXTENDS Integers, FiniteSets, FiniteSetsExt

CONSTANTS
    Threads,        \* the threads that call methods of the object
    NoThread,       \* the owner of a free mutex
    Universes,      \* the universe numbers callers use
    Channels,       \* the channel numbers, 1..512 in the code
    MaxValue,       \* the largest channel value, 255 in the code
    Inputs,         \* the channel values callers pass, once clamped
    Durations,      \* the fade durations callers pass, in ms; 0 for any <= 0
    MaxUniverses,   \* MAX_UNIVERSES, 64 in the code
    SourceMayFail,  \* may sACN refuse a universe added live?
    FadeUntil,      \* bound: fades are called for before this time
    MaxTime         \* bound: the clock stops here

ASSUME ThreadsAssumption == NoThread \notin Threads
ASSUME UniversesAssumption == 1 \in Universes /\ Universes \subseteq Nat \ {0}
ASSUME ChannelsAssumption == IsFiniteSet(Channels) /\ Channels \subseteq Int
ASSUME ValuesAssumption == MaxValue \in Nat /\ Inputs \subseteq 0 .. MaxValue
ASSUME DurationsAssumption == Durations \subseteq Nat
ASSUME LimitsAssumption == MaxUniverses \in Nat \ {0} /\ SourceMayFail \in BOOLEAN
ASSUME BoundsAssumption ==
    /\ FadeUntil \in Nat /\ MaxTime \in Nat
    /\ \A d \in Durations : FadeUntil + d <= MaxTime

VARIABLES
    universes,          \* the keys of _universes
    dmx_data,           \* the channel values of every universe
    fades,              \* the FadeState of every channel of every universe
    active_fade_count,  \* UniverseData::active_fade_count
    active_universe,    \* _active_universe
    fade_mutex,         \* the thread that holds fade_mutex, or NoThread
    pc,                 \* where each thread is
    local,              \* the local variables of the call each thread is in
    now                 \* the steady clock

map == <<universes, dmx_data, fades, active_fade_count>>
vars == <<map, active_universe, fade_mutex, pc, local, now>>

Value == 0 .. MaxValue

-----------------------------------------------------------------------------
(* Data.  Only the flag of an inactive fade is ever read, so its other      *)
(* fields are kept at the zeros that memset gives them.                     *)

FadeState == [active : BOOLEAN, start_value : Value, target_value : Value,
              start_time : Nat, duration : Nat]

IdleFade == [active |-> FALSE, start_value |-> 0, target_value |-> 0,
             start_time |-> 0, duration |-> 0]

ZeroData == [c \in Channels |-> 0]
NoFades == [c \in Channels |-> IdleFade]

ActiveFades(u) == {c \in Channels : fades[u][c].active}

(* int(t * (target - start)) truncates toward zero.                         *)
TruncDiv(a, b) == IF a >= 0 THEN a \div b ELSE -((-a) \div b)

ClampDmx(v) == IF v < 0 THEN 0 ELSE IF v > MaxValue THEN MaxValue ELSE v

InterpolateBackwards(f, elapsed) ==   \* mutant: from the target to the start
    ClampDmx(f.target_value
             + TruncDiv(elapsed * (f.start_value - f.target_value), f.duration))

Interpolate(f, elapsed) ==
    ClampDmx(f.start_value
             + TruncDiv(elapsed * (f.target_value - f.start_value), f.duration))

(* A call's locals: the universe it works on, the values it writes (or the  *)
(* target of its fade) by channel, the duration and start value of its      *)
(* fade, and the clock it has read.                                         *)
Writes == UNION {[S -> Value] : S \in SUBSET Channels}

Locals == [uni : Universes \cup {0}, writes : Writes, duration : Nat,
           start_value : Value, now : Nat]

NoWrites == [c \in {} |-> 0]

NoLocals == [uni |-> 0, writes |-> NoWrites, duration |-> 0,
             start_value |-> 0, now |-> 0]

(* startCh .. startCh + count - 1, less the channels out of range.          *)
ChannelRuns ==
    {S \in SUBSET Channels : \A a, b \in S : a .. b \subseteq S}

Locations == {"idle", "cancel", "cancel_uni", "write", "fade", "start",
              "update", "activate", "source", "rollback"}

-----------------------------------------------------------------------------

Init ==
    /\ universes = {1}
    /\ dmx_data = [u \in Universes |-> ZeroData]
    /\ fades = [u \in Universes |-> NoFades]
    /\ active_fade_count = [u \in Universes |-> 0]
    /\ active_universe = 1
    /\ fade_mutex = NoThread
    /\ pc = [t \in Threads |-> "idle"]
    /\ local = [t \in Threads |-> NoLocals]
    /\ now = 0

Goto(t, from, to) == pc[t] = from /\ pc' = [pc EXCEPT ![t] = to]

(* Thread t enters a method: its arguments and first reads become locals.   *)
Call(t, to, args) ==
    /\ Goto(t, "idle", to)
    /\ local' = [local EXCEPT ![t] = args]
    /\ UNCHANGED <<map, active_universe, fade_mutex, now>>

(* The method of thread t returns.                                          *)
Return(t, from) ==
    /\ Goto(t, from, "idle")
    /\ local' = [local EXCEPT ![t] = NoLocals]

FadeMutexFree == fade_mutex = NoThread

-----------------------------------------------------------------------------
(* channel(ch, value), channel(uni, ch, value) and channels(): the fades    *)
(* are cancelled in one section, the values written in a second one.        *)

SetChannel(t, c, v) ==
    Call(t, "cancel", [NoLocals EXCEPT !.uni = active_universe,
                                       !.writes = [x \in {c} |-> v]])

SetChannelUni(t, u, c, v) ==
    Call(t, "cancel_uni", [NoLocals EXCEPT !.uni = u,
                                           !.writes = [x \in {c} |-> v]])

SetChannels(t, values) ==
    Call(t, "cancel", [NoLocals EXCEPT !.uni = active_universe,
                                       !.writes = values])

Cancelled(u, S) == Cardinality(S \cap ActiveFades(u))

CancelOn(u, S) ==
    /\ fades' = [fades EXCEPT ![u] =
                    [c \in Channels |-> IF c \in S THEN IdleFade ELSE fades[u][c]]]
    /\ active_fade_count' = [active_fade_count EXCEPT ![u] = @ - Cancelled(u, S)]

(* The channels whose fades a call cancels before it writes.                *)
Cancels(t) == DOMAIN local[t].writes

CancelFades(t) ==
    LET u == local[t].uni IN
    /\ FadeMutexFree
    /\ Goto(t, "cancel", "write")
    /\ IF u \in universes
         THEN CancelOn(u, Cancels(t))
         ELSE UNCHANGED <<fades, active_fade_count>>
    /\ UNCHANGED <<universes, dmx_data, active_universe, fade_mutex, local, now>>

CancelFadesUni(t) ==
    LET u == local[t].uni IN
    /\ FadeMutexFree
    /\ \/ /\ u \in universes
          /\ Goto(t, "cancel_uni", "write")
          /\ CancelOn(u, Cancels(t))
          /\ UNCHANGED local
       \/ /\ u \notin universes
          /\ Return(t, "cancel_uni")
          /\ UNCHANGED <<fades, active_fade_count>>
    /\ UNCHANGED <<universes, dmx_data, active_universe, fade_mutex, now>>

WriteData(t) ==
    LET u == local[t].uni
        w == local[t].writes IN
    /\ Return(t, "write")
    /\ dmx_data' =
         IF u \in universes
           THEN [dmx_data EXCEPT ![u] =
                   [c \in Channels |-> IF c \in DOMAIN w THEN w[c] ELSE @[c]]]
           ELSE dmx_data
    /\ UNCHANGED <<universes, fades, active_fade_count, active_universe,
                   fade_mutex, now>>

Blackout(t) ==
    /\ pc[t] = "idle"
    /\ FadeMutexFree
    /\ fades' = [u \in Universes |-> IF u \in universes THEN NoFades ELSE fades[u]]
    /\ active_fade_count' =
         [u \in Universes |-> IF u \in universes THEN 0 ELSE active_fade_count[u]]
    /\ dmx_data' =
         [u \in Universes |-> IF u \in universes THEN ZeroData ELSE dmx_data[u]]
    /\ UNCHANGED <<universes, active_universe, fade_mutex, pc, local, now>>

-----------------------------------------------------------------------------
(* fade(): under fade_mutex throughout; the start value is read under       *)
(* dmx_mutex, which is released before the fade is recorded.                *)

FadeArgs(u, c, v, d) ==
    [NoLocals EXCEPT !.uni = u, !.writes = [x \in {c} |-> v], !.duration = d]

(* fade(ch, target, durationMs): without a positive duration it is a call   *)
(* of channel().                                                            *)
Fade(t, c, v, d) ==
    Call(t, IF d = 0 THEN "cancel" ELSE "fade", FadeArgs(active_universe, c, v, d))

FadeUni(t, u, c, v, d) ==
    Call(t, IF d = 0 THEN "cancel_uni" ELSE "fade", FadeArgs(u, c, v, d))

FadedChannel(t) == CHOOSE c \in DOMAIN local[t].writes : TRUE

FadeReadStart(t) ==
    LET u == local[t].uni
        c == FadedChannel(t) IN
    /\ FadeMutexFree
    /\ \/ /\ u \in universes
          /\ Goto(t, "fade", "start")
          /\ fade_mutex' = t
          /\ local' = [local EXCEPT ![t].start_value = dmx_data[u][c]]
       \/ /\ u \notin universes
          /\ Return(t, "fade")
          /\ UNCHANGED fade_mutex
    /\ UNCHANGED <<map, active_universe, now>>

CountedAgain(u, c) == 1    \* mutant: a restarted fade counts twice
NeverCounted(u, c) == 0    \* mutant: no active_fade_count++

NewlyActive(u, c) == IF fades[u][c].active THEN 0 ELSE 1

FadeStart(t) ==
    LET u == local[t].uni
        c == FadedChannel(t) IN
    /\ Return(t, "start")
    /\ fade_mutex' = NoThread
    /\ fades' = [fades EXCEPT ![u][c] =
         [active |-> TRUE, start_value |-> local[t].start_value,
          target_value |-> local[t].writes[c],
          start_time |-> now, duration |-> local[t].duration]]
    /\ active_fade_count' = [active_fade_count EXCEPT ![u] = @ + NewlyActive(u, c)]
    /\ UNCHANGED <<universes, dmx_data, active_universe, now>>

-----------------------------------------------------------------------------
(* send() first advances the fades.  The clock is read before the locks     *)
(* are taken.  The rest of send() does not change this component's state.   *)

Send(t) == Call(t, "update", [NoLocals EXCEPT !.now = now])

Elapsed(f, at) == at - f.start_time
Done(f, at) == Elapsed(f, at) >= f.duration

(* A universe whose active_fade_count is 0 is skipped.                      *)
Driven(u) == IF u \in universes /\ active_fade_count[u] # 0
               THEN ActiveFades(u) ELSE {}

UpdateFades(t) ==
    LET at == local[t].now
        ended(u) == {c \in Driven(u) : Done(fades[u][c], at)} IN
    /\ FadeMutexFree
    /\ Return(t, "update")
    /\ dmx_data' = [u \in Universes |-> [c \in Channels |->
         IF c \notin Driven(u) THEN dmx_data[u][c]
         ELSE IF c \in ended(u) THEN fades[u][c].target_value
         ELSE Interpolate(fades[u][c], Elapsed(fades[u][c], at))]]
    /\ fades' = [u \in Universes |-> [c \in Channels |->
         IF c \in ended(u) THEN IdleFade ELSE fades[u][c]]]
    /\ active_fade_count' = [u \in Universes |->
         active_fade_count[u] - Cardinality(ended(u))]
    /\ UNCHANGED <<universes, active_universe, fade_mutex, now>>

-----------------------------------------------------------------------------
(* The universe map.                                                        *)

(* _universes[u]: a default UniverseData.                                   *)
Insert(u) ==
    /\ universes' = universes \cup {u}
    /\ dmx_data' = [dmx_data EXCEPT ![u] = ZeroData]
    /\ fades' = [fades EXCEPT ![u] = NoFades]
    /\ active_fade_count' = [active_fade_count EXCEPT ![u] = 0]

(* An erased universe is gone with its data, which are kept at zero here.   *)
Erase(u) ==
    /\ universes' = universes \ {u}
    /\ dmx_data' = [dmx_data EXCEPT ![u] = ZeroData]
    /\ fades' = [fades EXCEPT ![u] = NoFades]
    /\ active_fade_count' = [active_fade_count EXCEPT ![u] = 0]

MapFull == Cardinality(universes) >= MaxUniverses

(* universe(u) creates u if needed, releases both locks, then makes it      *)
(* active.                                                                  *)
SetUniverse(t, u) ==
    /\ FadeMutexFree
    /\ u \in universes \/ ~MapFull
    /\ Goto(t, "idle", "activate")
    /\ local' = [local EXCEPT ![t] = [NoLocals EXCEPT !.uni = u]]
    /\ IF u \in universes THEN UNCHANGED map ELSE Insert(u)
    /\ UNCHANGED <<active_universe, fade_mutex, now>>

Activate(t) ==
    /\ Return(t, "activate")
    /\ active_universe' = local[t].uni
    /\ UNCHANGED <<map, fade_mutex, now>>

IsNew(u) == u \notin universes

(* addUniverse(u) inserts u, then adds it to a running sACN source, and     *)
(* erases it again when the source refuses it.                              *)
AddUniverse(t, u) ==
    /\ FadeMutexFree
    /\ IsNew(u)
    /\ ~MapFull
    /\ Goto(t, "idle", "source")
    /\ local' = [local EXCEPT ![t] = [NoLocals EXCEPT !.uni = u]]
    /\ Insert(u)
    /\ UNCHANGED <<active_universe, fade_mutex, now>>

AddToSource(t) ==
    /\ \/ Return(t, "source")
       \/ /\ SourceMayFail
          /\ Goto(t, "source", "rollback")
          /\ UNCHANGED local
    /\ UNCHANGED <<map, active_universe, fade_mutex, now>>

RollBack(t) ==
    /\ FadeMutexFree
    /\ Return(t, "rollback")
    /\ Erase(local[t].uni)
    /\ UNCHANGED <<active_universe, fade_mutex, now>>

ActiveKept(u) == active_universe   \* mutant: the active universe stays

ActiveWithout(u) ==
    IF active_universe = u THEN Min(universes \ {u}) ELSE active_universe

RemoveUniverse(t, u) ==
    /\ pc[t] = "idle"
    /\ FadeMutexFree
    /\ u \in universes
    /\ Cardinality(universes) > 1
    /\ Erase(u)
    /\ active_universe' = ActiveWithout(u)
    /\ UNCHANGED <<fade_mutex, pc, local, now>>

-----------------------------------------------------------------------------

(* The clock advances, up to MaxTime.  Fades are called for before          *)
(* FadeUntil and recorded by then, so that the bound never cuts one short.  *)
Tick ==
    /\ now < MaxTime
    /\ now = FadeUntil => \A t \in Threads : pc[t] \notin {"fade", "start"}
    /\ now' = now + 1
    /\ UNCHANGED <<map, active_universe, fade_mutex, pc, local>>

MayFade == now < FadeUntil

Enter(t) ==
    \/ \E c \in Channels, v \in Inputs : SetChannel(t, c, v)
    \/ \E u \in Universes, c \in Channels, v \in Inputs : SetChannelUni(t, u, c, v)
    \/ \E S \in ChannelRuns : \E w \in [S -> Inputs] : SetChannels(t, w)
    \/ \E c \in Channels, v \in Inputs, d \in Durations :
         MayFade /\ Fade(t, c, v, d)
    \/ \E u \in Universes, c \in Channels, v \in Inputs, d \in Durations :
         MayFade /\ FadeUni(t, u, c, v, d)
    \/ Send(t)
    \/ Blackout(t)
    \/ \E u \in Universes : SetUniverse(t, u)
    \/ \E u \in Universes : AddUniverse(t, u)
    \/ \E u \in Universes : RemoveUniverse(t, u)

Continue(t) ==
    \/ CancelFades(t)
    \/ CancelFadesUni(t)
    \/ WriteData(t)
    \/ FadeReadStart(t)
    \/ FadeStart(t)
    \/ UpdateFades(t)
    \/ Activate(t)
    \/ AddToSource(t)
    \/ RollBack(t)

Next == Tick \/ \E t \in Threads : Enter(t) \/ Continue(t)

Spec == Init /\ [][Next]_vars

-----------------------------------------------------------------------------

(* The type invariant.                                                      *)
TypeOK ==
    /\ universes \subseteq Universes
    /\ dmx_data \in [Universes -> [Channels -> Value]]
    /\ fades \in [Universes -> [Channels -> FadeState]]
    /\ active_fade_count \in [Universes -> Int]
    /\ active_universe \in Universes
    /\ fade_mutex \in Threads \cup {NoThread}
    /\ pc \in [Threads -> Locations]
    /\ local \in [Threads -> Locals]
    /\ now \in Nat

(* What a call's locals hold at each point: a universe to work on, and the  *)
(* channel to fade.                                                         *)
CallsOK ==
    \A t \in Threads :
        /\ pc[t] \notin {"idle", "update"} => local[t].uni \in Universes
        /\ pc[t] \in {"fade", "start"} =>
              DOMAIN local[t].writes # {} /\ local[t].duration > 0

(* update_fades() divides by the duration of an active fade (line 763).     *)
FadesLast ==
    \A u \in Universes : \A c \in ActiveFades(u) : fades[u][c].duration > 0

(* active_fade_count is the number of fades that are active, between any    *)
(* two critical sections of any threads: update_fades() skips a universe    *)
(* whose count is 0 (line 751), so a count that drifts low freezes fades    *)
(* and one that drifts high makes every send() scan 512 channels.           *)
ActiveFadeCountExact ==
    \A u \in Universes : active_fade_count[u] = Cardinality(ActiveFades(u))

(* However universe() and addUniverse() race, the check of the limit and    *)
(* the insertion are one section: the map never exceeds MAX_UNIVERSES.      *)
UniverseLimit == Cardinality(universes) <= MaxUniverses

(* What holds between any two critical sections of any threads: the types,  *)
(* the counts of fades, of which each section keeps its part by hand, and   *)
(* the limit of the map.                                                    *)
Consistent == TypeOK /\ ActiveFadeCountExact /\ UniverseLimit

(* removeUniverse() refuses to remove the last universe (line 541), so an   *)
(* object always has one to send.                                           *)
UniverseRemains == universes # {}

(* The active universe is in the map whenever no call is under way: a       *)
(* caller who selected it, or removed another one, can write to it.         *)
ActiveUniverseExists ==
    (\A t \in Threads : pc[t] = "idle") => active_universe \in universes

Between(v, a, b) == (a <= v /\ v <= b) \/ (b <= v /\ v <= a)

(* While a fade is active, the channel it drives shows a value between the  *)
(* fade's start value and its target, whatever was written, faded, blacked  *)
(* out, added or removed since the fade began.                              *)
FadeWithinEndpoints ==
    \A u \in universes : \A c \in ActiveFades(u) :
        Between(dmx_data[u][c], fades[u][c].start_value, fades[u][c].target_value)

(* And it shows exactly what that fade gives at a time that has passed since *)
(* the fade began.                                                          *)
FadeOnCourse ==
    \A u \in universes : \A c \in ActiveFades(u) :
        LET f == fades[u][c] IN
        \E elapsed \in 0 .. f.duration - 1 :
            /\ f.start_time + elapsed <= now
            /\ dmx_data[u][c] = Interpolate(f, elapsed)

Distance(a, b) == IF a < b THEN b - a ELSE a - b

(* A send() never moves a fading channel away from the fade's target, and   *)
(* leaves it at the target when it ends the fade.                           *)
SendApproaches ==
    \A t \in Threads : UpdateFades(t) =>
        \A u \in universes : \A c \in ActiveFades(u) :
            LET target == fades[u][c].target_value IN
            IF fades'[u][c].active
              THEN Distance(dmx_data'[u][c], target) <= Distance(dmx_data[u][c], target)
              ELSE dmx_data'[u][c] = target

(* When channel() or channels() has written its values, no fade is active   *)
(* on the channels it wrote (lines 196-204 cancel them).                    *)
WriteStands ==
    \A t \in Threads : WriteData(t) /\ local[t].uni \in universes =>
        DOMAIN local[t].writes \cap ActiveFades(local[t].uni) = {}
=============================================================================
