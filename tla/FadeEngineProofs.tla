-------------------------- MODULE FadeEngineProofs --------------------------
(***************************************************************************)
(* What is proved of the channel buffers and the fades, for any threads,   *)
(* universes, channels, values, durations and bounds.                      *)
(*                                                                         *)
(* First, whatever the threads do: the types and the count of the active   *)
(* fades.  Then what a DMX object promises to one thread: a channel that   *)
(* fades shows what its fade gives at some time up to the last send(), so  *)
(* it stays between the fade's endpoints and no send() moves it back; what *)
(* is written stays.                                                       *)
(***************************************************************************)
EXTENDS MCFadeEngine, FiniteSetTheorems, WellFoundedInduction, TLAPS

Typed == TypeOK /\ CallsOK /\ FadesLast

USE ScenarioAssumption, ThreadsAssumption, UniversesAssumption, ChannelsAssumption,
    ValuesAssumption, DurationsAssumption, LimitsAssumption, BoundsAssumption

-----------------------------------------------------------------------------
(* Data.                                                                    *)

(* What a call writes is a function from some of the channels to values.    *)
LEMMA WritesFacts ==
    ASSUME NEW w \in Writes
    PROVE  /\ DOMAIN w \subseteq Channels
           /\ \A c \in DOMAIN w : w[c] \in Value
<1>1. PICK S \in SUBSET Channels : w \in [S -> Value]
  BY DEF Writes
<1>2. DOMAIN w = S /\ \A c \in S : w[c] \in Value
  BY <1>1
<1> QED
  BY <1>2

(* The values a call passes are such a function.                            *)
LEMMA InputsAreWrites ==
    ASSUME NEW S \in SUBSET Channels, NEW w \in [S -> Inputs]
    PROVE  w \in Writes /\ DOMAIN w = S
<1>1. w \in [S -> Value]
  BY DEF Value
<1> QED
  BY <1>1 DEF Writes

(* Interpolation yields a channel value: clamp_dmx bounds whatever the      *)
(* division gives.                                                          *)
LEMMA InterpolateType ==
    ASSUME NEW f \in FadeState, f.duration > 0, NEW e \in Int
    PROVE  Interpolate(f, e) \in Value
<1>1. /\ f.start_value \in Int /\ f.target_value \in Int
      /\ f.duration \in Nat \ {0}
  BY DEF FadeState, Value
<1>2. ASSUME NEW a \in Int, NEW b \in Nat \ {0}
      PROVE  TruncDiv(a, b) \in Int
  BY <1>2 DEF TruncDiv
<1>3. ASSUME NEW v \in Int PROVE ClampDmx(v) \in Value
  BY <1>3 DEF ClampDmx, Value
<1>4. e * (f.target_value - f.start_value) \in Int
  BY <1>1
<1>5. f.start_value + TruncDiv(e * (f.target_value - f.start_value), f.duration) \in Int
  BY <1>1, <1>2, <1>4
<1> QED
  BY <1>3, <1>5 DEF Interpolate

(* The locals of a new call are locals.                                     *)
LEMMA NoLocalsType == NoLocals \in Locals
<1>1. NoWrites \in [{} -> Value]
  BY DEF NoWrites
<1>2. NoWrites \in Writes
  BY <1>1 DEF Writes
<1> QED
  BY <1>2 DEF NoLocals, Locals, Value

(* A non-empty set of naturals has a smallest element.                      *)
LEMMA MinType ==
    ASSUME NEW S \in SUBSET Nat, S # {}
    PROVE  Min(S) \in S /\ \A y \in S : Min(S) <= y
<1> DEFINE R == OpToRel(<, Nat)
<1>1. \A x, y \in Nat : <<y, x>> \in R <=> y < x
  BY DEF OpToRel
<1>2. PICK x \in S : \A y \in S : ~(<<y, x>> \in R)
  <2>1. IsWellFoundedOn(R, Nat)
    BY NatLessThanWellFounded
  <2> HIDE DEF R
  <2> QED
    BY <2>1, WFMin
<1> HIDE DEF R
<1>3. ASSUME NEW y \in S PROVE x <= y
  <2>1. x \in Nat /\ y \in Nat
    OBVIOUS
  <2>2. ~(y < x)
    BY <1>1, <1>2, <2>1
  <2> QED
    BY <2>1, <2>2
<1> QED
  BY <1>3 DEF Min

(* Erased and new universes hold zeros and no fade.                         *)
LEMMA BlankTypes ==
    /\ ZeroData \in [Channels -> Value]
    /\ NoFades \in [Channels -> FadeState]
    /\ IdleFade \in FadeState
    /\ ~IdleFade.active
BY DEF ZeroData, NoFades, IdleFade, FadeState, Value

-----------------------------------------------------------------------------
(* Typed is inductive.                                                      *)

(* The initial state is typed.                                              *)
LEMMA TypedInit == Init => Typed
<1> SUFFICES ASSUME Init PROVE Typed
  OBVIOUS
<1>1. TypeOK
  BY BlankTypes, NoLocalsType DEF Init, TypeOK, Locations
<1>2. CallsOK
  BY DEF Init, CallsOK
<1>3. FadesLast
  BY BlankTypes DEF Init, FadesLast, ActiveFades, NoFades
<1> QED
  BY <1>1, <1>2, <1>3 DEF Typed

(* A call that begins with proper locals.                                   *)
LEMMA TypedCall ==
    ASSUME Typed, NEW t \in Threads, NEW to \in Locations, NEW args \in Locals,
           to \notin {"idle", "update"} => args.uni \in Universes,
           to \in {"fade", "start"} => DOMAIN args.writes # {} /\ args.duration > 0,
           Call(t, to, args)
    PROVE  Typed'
<1> USE DEF Typed, Call, Goto, map
<1>1. TypeOK'
  BY DEF TypeOK
<1>2. CallsOK'
  BY DEF TypeOK, CallsOK
<1>3. FadesLast'
  BY DEF FadesLast, ActiveFades
<1> QED
  BY <1>1, <1>2, <1>3

(* A thread that returns from a call keeps every other thread's locals.     *)
LEMMA TypedReturn ==
    ASSUME Typed, NEW t \in Threads, NEW from \in Locations, Return(t, from)
    PROVE  /\ pc' \in [Threads -> Locations]
           /\ local' \in [Threads -> Locals]
           /\ CallsOK'
<1> USE DEF Typed, TypeOK, Return, Goto
<1>1. pc' \in [Threads -> Locations]
  BY DEF Locations
<1>2. local' \in [Threads -> Locals]
  BY NoLocalsType
<1>3. CallsOK'
  BY DEF CallsOK
<1> QED
  BY <1>1, <1>2, <1>3

(* A thread that goes on with its call keeps its universe.                  *)
LEMMA TypedGoto ==
    ASSUME Typed, NEW t \in Threads, NEW from \in Locations, NEW to \in Locations,
           from \notin {"idle", "update"}, to \notin {"fade", "start"},
           Goto(t, from, to), local' = local
    PROVE  /\ pc' \in [Threads -> Locations]
           /\ local' \in [Threads -> Locals]
           /\ CallsOK'
BY DEF Typed, TypeOK, CallsOK, Goto

(* Cancelling the fades of some channels of a universe.                     *)
LEMMA TypedCancel ==
    ASSUME Typed, NEW u \in Universes, NEW S \in SUBSET Channels, CancelOn(u, S)
    PROVE  /\ fades' \in [Universes -> [Channels -> FadeState]]
           /\ active_fade_count' \in [Universes -> Int]
           /\ FadesLast'
<1> USE DEF Typed, TypeOK, CancelOn, Cancelled
<1>1. fades' \in [Universes -> [Channels -> FadeState]]
  BY BlankTypes
<1>2. active_fade_count' \in [Universes -> Int]
  <2>1. IsFiniteSet(S \cap ActiveFades(u))
    BY FS_Intersection, FS_Subset
  <2>2. Cardinality(S \cap ActiveFades(u)) \in Nat
    BY <2>1, FS_CardinalityType
  <2> QED
    BY <2>2
<1>3. FadesLast'
  BY BlankTypes DEF FadesLast, ActiveFades
<1> QED
  BY <1>1, <1>2, <1>3

(* Inserting or erasing a universe.                                         *)
LEMMA TypedReset ==
    ASSUME Typed, NEW u \in Universes, Insert(u) \/ Erase(u)
    PROVE  /\ universes' \subseteq Universes
           /\ dmx_data' \in [Universes -> [Channels -> Value]]
           /\ fades' \in [Universes -> [Channels -> FadeState]]
           /\ active_fade_count' \in [Universes -> Int]
           /\ FadesLast'
<1>1. /\ dmx_data' = [dmx_data EXCEPT ![u] = ZeroData]
      /\ fades' = [fades EXCEPT ![u] = NoFades]
      /\ active_fade_count' = [active_fade_count EXCEPT ![u] = 0]
  BY DEF Insert, Erase
<1>2. universes' \subseteq Universes
  BY DEF Insert, Erase, Typed, TypeOK
<1>3. dmx_data' \in [Universes -> [Channels -> Value]]
  BY <1>1, BlankTypes DEF Typed, TypeOK
<1>4. fades' \in [Universes -> [Channels -> FadeState]]
  BY <1>1, BlankTypes DEF Typed, TypeOK
<1>5. active_fade_count' \in [Universes -> Int]
  BY <1>1 DEF Typed, TypeOK
<1>6. FadesLast'
  BY <1>1, BlankTypes DEF FadesLast, ActiveFades, NoFades, Typed, TypeOK
<1> QED
  BY <1>2, <1>3, <1>4, <1>5, <1>6

(* Every step of every thread, and the clock, keeps Typed.                  *)
LEMMA TypedEnter ==
    ASSUME Typed, NEW t \in Threads, Enter(t)
    PROVE  Typed'
<1>0. active_universe \in Universes /\ now \in Nat
  BY DEF Typed, TypeOK
<1>1. ASSUME NEW u \in Universes, NEW c \in Channels, NEW v \in Inputs, NEW d \in Durations
      PROVE  /\ FadeArgs(u, c, v, d) \in Locals
             /\ FadeArgs(u, c, v, d).uni = u
             /\ FadeArgs(u, c, v, d).duration = d
             /\ DOMAIN FadeArgs(u, c, v, d).writes = {c}
  <2>1. [x \in {c} |-> v] \in Writes /\ DOMAIN [x \in {c} |-> v] = {c}
    BY InputsAreWrites
  <2> QED
    BY <2>1, NoLocalsType DEF FadeArgs, Locals, NoLocals
<1>2. ASSUME NEW u \in Universes, NEW S \in SUBSET Channels, NEW w \in [S -> Inputs]
      PROVE  /\ [NoLocals EXCEPT !.uni = u, !.writes = w] \in Locals
             /\ [NoLocals EXCEPT !.uni = u, !.writes = w].uni = u
  BY InputsAreWrites, NoLocalsType DEF Locals, NoLocals
<1>3. ASSUME NEW c \in Channels, NEW v \in Inputs, SetChannel(t, c, v)
      PROVE  Typed'
  <2> DEFINE w == [x \in {c} |-> v]
  <2>1. w \in [{c} -> Inputs]
    OBVIOUS
  <2> QED
    BY <1>0, <1>2, <1>3, <2>1, TypedCall, ZenonT(30) DEF SetChannel, Locations
<1>4. ASSUME NEW u \in Universes, NEW c \in Channels, NEW v \in Inputs,
             SetChannelUni(t, u, c, v)
      PROVE  Typed'
  <2> DEFINE w == [x \in {c} |-> v]
  <2>1. w \in [{c} -> Inputs]
    OBVIOUS
  <2> QED
    BY <1>2, <1>4, <2>1, TypedCall DEF SetChannelUni, Locations
<1>5. ASSUME NEW S \in ChannelRuns, NEW w \in [S -> Inputs], SetChannels(t, w)
      PROVE  Typed'
  BY <1>0, <1>2, <1>5, TypedCall DEF SetChannels, ChannelRuns, Locations
<1>6. ASSUME NEW u \in Universes, NEW c \in Channels, NEW v \in Inputs, NEW d \in Durations,
             NEW to \in Locations, to \in {"cancel", "cancel_uni"} \/ (to = "fade" /\ d # 0),
             Call(t, to, FadeArgs(u, c, v, d))
      PROVE  Typed'
  BY <1>1, <1>6, TypedCall
<1>7. ASSUME NEW c \in Channels, NEW v \in Inputs, NEW d \in Durations, Fade(t, c, v, d)
      PROVE  Typed'
  <2>1. CASE d = 0
    BY <1>0, <1>6, <1>7, <2>1 DEF Fade, Locations
  <2>2. CASE d # 0
    BY <1>0, <1>6, <1>7, <2>2 DEF Fade, Locations
  <2> QED
    BY <2>1, <2>2
<1>8. ASSUME NEW u \in Universes, NEW c \in Channels, NEW v \in Inputs, NEW d \in Durations,
             FadeUni(t, u, c, v, d)
      PROVE  Typed'
  <2>1. CASE d = 0
    BY <1>6, <1>8, <2>1 DEF FadeUni, Locations
  <2>2. CASE d # 0
    BY <1>6, <1>8, <2>2 DEF FadeUni, Locations
  <2> QED
    BY <2>1, <2>2
<1>9. CASE Send(t)
  <2>1. [NoLocals EXCEPT !.now = now] \in Locals
    BY <1>0, NoLocalsType DEF Locals
  <2> QED
    BY <1>9, <2>1, TypedCall DEF Send, Locations
<1>10. CASE Blackout(t)
  <2>1. TypeOK'
    BY <1>10, BlankTypes DEF Blackout, Typed, TypeOK
  <2>2. CallsOK'
    BY <1>10 DEF Blackout, Typed, CallsOK
  <2>3. FadesLast'
    BY <1>10, BlankTypes DEF Blackout, Typed, FadesLast, ActiveFades, NoFades
  <2> QED
    BY <2>1, <2>2, <2>3 DEF Typed
<1>11. ASSUME NEW u \in Universes, SetUniverse(t, u) \/ AddUniverse(t, u)
       PROVE  Typed'
  <2>1. [NoLocals EXCEPT !.uni = u] \in Locals /\ [NoLocals EXCEPT !.uni = u].uni = u
    BY NoLocalsType DEF NoLocals, Locals
  <2>2. PICK to \in {"activate", "source"} :
          /\ Goto(t, "idle", to)
          /\ local' = [local EXCEPT ![t] = [NoLocals EXCEPT !.uni = u]]
          /\ UNCHANGED <<active_universe, fade_mutex, now>>
          /\ UNCHANGED map \/ Insert(u)
    BY <1>11 DEF SetUniverse, AddUniverse
  <2>3. /\ universes' \subseteq Universes
        /\ dmx_data' \in [Universes -> [Channels -> Value]]
        /\ fades' \in [Universes -> [Channels -> FadeState]]
        /\ active_fade_count' \in [Universes -> Int]
        /\ FadesLast'
    <3>1. CASE UNCHANGED map
      BY <3>1 DEF map, Typed, TypeOK, FadesLast, ActiveFades
    <3>2. CASE Insert(u)
      BY <3>2, TypedReset
    <3> QED
      BY <2>2, <3>1, <3>2
  <2>4. TypeOK'
    BY <2>1, <2>2, <2>3 DEF Typed, TypeOK, Goto, Locations
  <2>5. CallsOK'
    BY <2>1, <2>2 DEF Typed, TypeOK, CallsOK, Goto
  <2> QED
    BY <2>3, <2>4, <2>5 DEF Typed
<1>12. ASSUME NEW u \in Universes, RemoveUniverse(t, u)
       PROVE  Typed'
  <2>1. universes \ {u} # {}
    <3>1. SUFFICES ASSUME universes \subseteq {u} PROVE FALSE
      OBVIOUS
    <3>2. IsFiniteSet({u}) /\ Cardinality({u}) = 1
      BY FS_Singleton
    <3>5. universes \in SUBSET {u}
      BY <3>1
    <3>6. IsFiniteSet(universes) /\ Cardinality(universes) <= Cardinality({u})
      BY <3>2, <3>5, FS_Subset
    <3>3. IsFiniteSet(universes) /\ Cardinality(universes) <= 1
      BY <3>2, <3>6
    <3>4. Cardinality(universes) \in Nat
      BY <3>3, FS_CardinalityType
    <3> QED
      BY <1>12, <3>3, <3>4 DEF RemoveUniverse
  <2>2. active_universe' \in Universes
    <3>1. Min(universes \ {u}) \in universes \ {u}
      BY <2>1, MinType DEF Typed, TypeOK
    <3> QED
      BY <1>12, <3>1 DEF RemoveUniverse, ActiveWithout, Typed, TypeOK
  <2>3. /\ Erase(u)
        /\ UNCHANGED <<fade_mutex, pc, local, now>>
    BY <1>12 DEF RemoveUniverse
  <2>4. TypeOK' /\ FadesLast'
    <3>1. /\ universes' \subseteq Universes
          /\ dmx_data' \in [Universes -> [Channels -> Value]]
          /\ fades' \in [Universes -> [Channels -> FadeState]]
          /\ active_fade_count' \in [Universes -> Int]
          /\ FadesLast'
      BY <2>3, TypedReset
    <3> QED
      BY <2>2, <2>3, <3>1 DEF Typed, TypeOK
  <2>5. CallsOK'
    BY <2>3 DEF Typed, CallsOK
  <2> QED
    BY <2>4, <2>5 DEF Typed
<1> QED
  BY <1>3, <1>4, <1>5, <1>7, <1>8, <1>9, <1>10, <1>11, <1>12 DEF Enter

(* A call that goes on keeps the types.                                     *)
LEMMA TypedContinue ==
    ASSUME Typed, NEW t \in Threads, Continue(t)
    PROVE  Typed'
<1>0. /\ pc \in [Threads -> Locations]
      /\ local[t] \in Locals
      /\ pc[t] \notin {"idle", "update"} => local[t].uni \in Universes
      /\ pc[t] \in {"fade", "start"} =>
           DOMAIN local[t].writes # {} /\ local[t].duration > 0
  BY DEF Typed, TypeOK, CallsOK
<1>1. /\ local[t].writes \in Writes
      /\ DOMAIN local[t].writes \subseteq Channels
      /\ \A c \in DOMAIN local[t].writes : local[t].writes[c] \in Value
  BY <1>0, WritesFacts DEF Locals
<1>2. CASE CancelFades(t)
  <2>1. Goto(t, "cancel", "write") /\ UNCHANGED local
    BY <1>2 DEF CancelFades
  <2>2. pc' \in [Threads -> Locations] /\ CallsOK'
    BY <2>1, TypedGoto DEF Locations
  <2>3. local[t].uni \in Universes
    BY <1>0, <2>1 DEF Goto
  <2>4. /\ fades' \in [Universes -> [Channels -> FadeState]]
        /\ active_fade_count' \in [Universes -> Int]
        /\ FadesLast'
    <3>1. CASE UNCHANGED <<fades, active_fade_count>>
      BY <3>1 DEF Typed, TypeOK, FadesLast, ActiveFades
    <3>2. CASE CancelOn(local[t].uni, Cancels(t))
      BY <1>1, <2>3, <3>2, TypedCancel DEF Cancels
    <3> QED
      BY <1>2, <3>1, <3>2 DEF CancelFades
  <2> QED
    BY <1>2, <2>2, <2>4 DEF CancelFades, Typed, TypeOK
<1>3. CASE CancelFadesUni(t)
  <2>1. CASE Goto(t, "cancel_uni", "write") /\ UNCHANGED local
             /\ CancelOn(local[t].uni, Cancels(t))
    <3>1. pc' \in [Threads -> Locations] /\ CallsOK'
      BY <2>1, TypedGoto DEF Locations
    <3>2. local[t].uni \in Universes
      BY <1>0, <2>1 DEF Goto
    <3>3. /\ fades' \in [Universes -> [Channels -> FadeState]]
          /\ active_fade_count' \in [Universes -> Int]
          /\ FadesLast'
      BY <1>1, <2>1, <3>2, TypedCancel DEF Cancels
    <3> QED
      BY <1>3, <2>1, <3>1, <3>3 DEF CancelFadesUni, Typed, TypeOK
  <2>2. CASE Return(t, "cancel_uni") /\ UNCHANGED <<fades, active_fade_count>>
    <3>1. /\ pc' \in [Threads -> Locations]
          /\ local' \in [Threads -> Locals]
          /\ CallsOK'
      BY <2>2, TypedReturn DEF Locations
    <3> QED
      BY <1>3, <2>2, <3>1 DEF CancelFadesUni, Typed, TypeOK, FadesLast, ActiveFades
  <2> QED
    BY <1>3, <2>1, <2>2 DEF CancelFadesUni
<1>4. CASE WriteData(t)
  <2>1. /\ pc' \in [Threads -> Locations]
        /\ local' \in [Threads -> Locals]
        /\ CallsOK'
    BY <1>4, TypedReturn DEF WriteData, Locations
  <2>2. dmx_data' \in [Universes -> [Channels -> Value]]
    <3> DEFINE w == local[t].writes
               row(u) == [c \in Channels |-> IF c \in DOMAIN w THEN w[c] ELSE dmx_data[u][c]]
    <3>1. ASSUME NEW u \in Universes PROVE row(u) \in [Channels -> Value]
      BY <1>1 DEF Typed, TypeOK
    <3> HIDE DEF row
    <3>2. dmx_data' = dmx_data \/ \E u \in universes : dmx_data' = [dmx_data EXCEPT ![u] = row(u)]
      BY <1>4 DEF WriteData, row, Typed, TypeOK
    <3> QED
      BY <3>1, <3>2 DEF Typed, TypeOK
  <2> QED
    BY <1>4, <2>1, <2>2 DEF WriteData, Typed, TypeOK, FadesLast, ActiveFades
<1>5. CASE FadeReadStart(t)
  <2>1. CASE Return(t, "fade") /\ UNCHANGED fade_mutex
    <3>1. /\ pc' \in [Threads -> Locations]
          /\ local' \in [Threads -> Locals]
          /\ CallsOK'
      BY <2>1, TypedReturn DEF Locations
    <3> QED
      BY <1>5, <2>1, <3>1 DEF FadeReadStart, Typed, TypeOK, FadesLast, ActiveFades, map
  <2>2. CASE /\ local[t].uni \in universes
             /\ Goto(t, "fade", "start")
             /\ fade_mutex' = t
             /\ local' = [local EXCEPT ![t].start_value =
                             dmx_data[local[t].uni][FadedChannel(t)]]
    <3>1. FadedChannel(t) \in Channels
      BY <1>0, <1>1, <2>2 DEF FadedChannel, Goto
    <3>2. local' \in [Threads -> Locals]
      <4>1. dmx_data[local[t].uni][FadedChannel(t)] \in Value
        BY <2>2, <3>1 DEF Typed, TypeOK
      <4>2. ASSUME NEW v \in Value PROVE [local[t] EXCEPT !.start_value = v] \in Locals
        BY <1>0 DEF Locals
      <4> QED
        BY <2>2, <4>1, <4>2 DEF Typed, TypeOK
    <3>3. pc' \in [Threads -> Locations]
      BY <2>2 DEF Typed, TypeOK, Goto, Locations
    <3>4. CallsOK'
      BY <1>0, <2>2 DEF Typed, TypeOK, CallsOK, Goto, Locals
    <3> QED
      BY <1>5, <2>2, <3>2, <3>3, <3>4
      DEF FadeReadStart, Typed, TypeOK, FadesLast, ActiveFades, map
  <2> QED
    BY <1>5, <2>1, <2>2 DEF FadeReadStart
<1>6. CASE FadeStart(t)
  <2>1. /\ pc' \in [Threads -> Locations]
        /\ local' \in [Threads -> Locals]
        /\ CallsOK'
    BY <1>6, TypedReturn DEF FadeStart, Locations
  <2> DEFINE u == local[t].uni
             c == FadedChannel(t)
             f == [active |-> TRUE, start_value |-> local[t].start_value,
                   target_value |-> local[t].writes[c],
                   start_time |-> now, duration |-> local[t].duration]
  <2>2. u \in Universes /\ c \in Channels /\ c \in DOMAIN local[t].writes
    BY <1>0, <1>1, <1>6 DEF FadeStart, Return, Goto, FadedChannel
  <2>3. f \in FadeState /\ f.duration > 0
    BY <1>0, <1>1, <1>6, <2>2
    DEF FadeState, Locals, FadeStart, Return, Goto, Typed, TypeOK
  <2>4. fades' = [fades EXCEPT ![u][c] = f]
    BY <1>6 DEF FadeStart
  <2>6. active_fade_count' \in [Universes -> Int]
    <3>1. active_fade_count[u] \in Int
      BY <2>2 DEF Typed, TypeOK
    <3>2. active_fade_count' = [active_fade_count EXCEPT ![u] = @ + NewlyActive(u, c)]
          /\ NewlyActive(u, c) \in Int
      BY <1>6 DEF FadeStart, NewlyActive
    <3> DEFINE n == NewlyActive(u, c)
    <3> HIDE DEF n
    <3>3. n \in Int /\ active_fade_count' = [active_fade_count EXCEPT ![u] = @ + n]
      BY <3>2 DEF n
    <3> HIDE DEF u
    <3> QED
      BY <3>1, <3>3, <2>2 DEF Typed, TypeOK
  <2> HIDE DEF f, c, u
  <2>5. fades' \in [Universes -> [Channels -> FadeState]] /\ FadesLast'
    BY <2>2, <2>3, <2>4 DEF Typed, TypeOK, FadesLast, ActiveFades
  <2> QED
    BY <1>6, <2>1, <2>5, <2>6 DEF FadeStart, Typed, TypeOK
<1>7. CASE UpdateFades(t)
  <2>1. /\ pc' \in [Threads -> Locations]
        /\ local' \in [Threads -> Locals]
        /\ CallsOK'
    BY <1>7, TypedReturn DEF UpdateFades, Locations
  <2> DEFINE at == local[t].now
             ended(u) == {c \in Driven(u) : Done(fades[u][c], at)}
  <2>2. dmx_data' \in [Universes -> [Channels -> Value]]
    <3>1. ASSUME NEW u \in Universes, NEW c \in Driven(u)
          PROVE  /\ fades[u][c].target_value \in Value
                 /\ Interpolate(fades[u][c], Elapsed(fades[u][c], at)) \in Value
      <4>1. c \in Channels /\ fades[u][c].active
        BY <3>1 DEF Driven, ActiveFades
      <4>2. fades[u][c] \in FadeState /\ fades[u][c].duration > 0
        BY <4>1 DEF Typed, TypeOK, FadesLast, ActiveFades
      <4>3. Elapsed(fades[u][c], at) \in Int
        BY <1>0, <4>2 DEF Elapsed, Locals, FadeState
      <4> QED
        BY <4>2, <4>3, InterpolateType DEF FadeState
    <3> QED
      BY <1>7, <3>1 DEF UpdateFades, Typed, TypeOK
  <2>3. fades' \in [Universes -> [Channels -> FadeState]]
    BY <1>7, BlankTypes DEF UpdateFades, Typed, TypeOK
  <2>4. FadesLast'
    BY <1>7, BlankTypes DEF UpdateFades, Typed, TypeOK, FadesLast, ActiveFades
  <2>5. active_fade_count' \in [Universes -> Int]
    <3>1. ASSUME NEW u \in Universes PROVE Cardinality(ended(u)) \in Nat
      <4>1. ended(u) \subseteq Channels
        BY DEF Driven, ActiveFades
      <4> QED
        BY <4>1, FS_Subset, FS_CardinalityType
    <3> QED
      BY <1>7, <3>1 DEF UpdateFades, Typed, TypeOK
  <2> QED
    BY <1>7, <2>1, <2>2, <2>3, <2>4, <2>5 DEF UpdateFades, Typed, TypeOK
<1>8. CASE Activate(t)
  <2>1. /\ pc' \in [Threads -> Locations]
        /\ local' \in [Threads -> Locals]
        /\ CallsOK'
    BY <1>8, TypedReturn DEF Activate, Locations
  <2>2. active_universe' \in Universes
    BY <1>0, <1>8 DEF Activate, Return, Goto
  <2> QED
    BY <1>8, <2>1, <2>2 DEF Activate, Typed, TypeOK, FadesLast, ActiveFades, map
<1>9. CASE AddToSource(t)
  <2>1. /\ pc' \in [Threads -> Locations]
        /\ local' \in [Threads -> Locals]
        /\ CallsOK'
    BY <1>9, TypedReturn, TypedGoto DEF AddToSource, Locations
  <2> QED
    BY <1>9, <2>1 DEF AddToSource, Typed, TypeOK, FadesLast, ActiveFades, map
<1>10. CASE RollBack(t)
  <2>1. /\ pc' \in [Threads -> Locations]
        /\ local' \in [Threads -> Locals]
        /\ CallsOK'
    BY <1>10, TypedReturn DEF RollBack, Locations
  <2>2. local[t].uni \in Universes /\ Erase(local[t].uni)
    BY <1>0, <1>10 DEF RollBack, Return, Goto
  <2>3. /\ universes' \subseteq Universes
        /\ dmx_data' \in [Universes -> [Channels -> Value]]
        /\ fades' \in [Universes -> [Channels -> FadeState]]
        /\ active_fade_count' \in [Universes -> Int]
        /\ FadesLast'
    BY <2>2, TypedReset
  <2> QED
    BY <1>10, <2>1, <2>3 DEF RollBack, Typed, TypeOK
<1> QED
  BY <1>2, <1>3, <1>4, <1>5, <1>6, <1>7, <1>8, <1>9, <1>10 DEF Continue

(* Every step keeps the types.                                              *)
LEMMA TypedNext == Typed /\ [Next]_vars => Typed'
<1> SUFFICES ASSUME Typed, [Next]_vars PROVE Typed'
  OBVIOUS
<1>1. CASE Tick
  BY <1>1 DEF Tick, Typed, TypeOK, CallsOK, FadesLast, ActiveFades, map
<1>2. CASE UNCHANGED vars
  BY <1>2 DEF vars, Typed, TypeOK, CallsOK, FadesLast, ActiveFades, map
<1> QED
  BY <1>1, <1>2, TypedEnter, TypedContinue DEF Next

(* The state of FadeEngine keeps its types, whatever the threads do.        *)
THEOREM TypeCorrect == Spec => []TypeOK
<1>1. Typed => TypeOK
  BY DEF Typed
<1> QED
  BY <1>1, TypedInit, TypedNext, PTL DEF Spec

-----------------------------------------------------------------------------
(* The fade counts.                                                         *)

CountInv == Typed /\ ActiveFadeCountExact

(* A universe has finitely many active fades.                               *)
LEMMA ActiveFadesFinite ==
    ASSUME NEW u \in Universes
    PROVE  IsFiniteSet(ActiveFades(u))
BY FS_Subset DEF ActiveFades

(* Cancelling the fades on S takes as many from the count as were active.   *)
LEMMA CountCancel ==
    ASSUME CountInv, NEW u \in Universes, NEW S \in SUBSET Channels, CancelOn(u, S)
    PROVE  ActiveFadeCountExact'
<1> SUFFICES ASSUME NEW v \in Universes
             PROVE  active_fade_count'[v] = Cardinality(ActiveFades(v)')
  BY DEF ActiveFadeCountExact
<1>1. CASE v = u
  <2>1. ActiveFades(u)' = ActiveFades(u) \ S
    BY BlankTypes DEF CancelOn, ActiveFades, CountInv, Typed, TypeOK
  <2>2. Cardinality(ActiveFades(u) \ S)
          = Cardinality(ActiveFades(u)) - Cardinality(ActiveFades(u) \cap S)
    BY ActiveFadesFinite, FS_Difference
  <2>3. ActiveFades(u) \cap S = S \cap ActiveFades(u)
    OBVIOUS
  <2>4. active_fade_count'[u] = active_fade_count[u] - Cardinality(S \cap ActiveFades(u))
    BY DEF CancelOn, Cancelled, CountInv, Typed, TypeOK
  <2> QED
    BY <1>1, <2>1, <2>2, <2>3, <2>4 DEF CountInv, ActiveFadeCountExact
<1>2. CASE v # u
  BY <1>2 DEF CancelOn, ActiveFades, CountInv, ActiveFadeCountExact, Typed, TypeOK
<1> QED
  BY <1>1, <1>2

(* A universe inserted or erased has no fade and counts none.               *)
LEMMA CountReset ==
    ASSUME CountInv, NEW u \in Universes, Insert(u) \/ Erase(u)
    PROVE  ActiveFadeCountExact'
<1>1. /\ fades' = [fades EXCEPT ![u] = NoFades]
      /\ active_fade_count' = [active_fade_count EXCEPT ![u] = 0]
  BY DEF Insert, Erase
<1>2. ActiveFades(u)' = {}
  BY <1>1, BlankTypes DEF ActiveFades, NoFades, CountInv, Typed, TypeOK
<1>3. ASSUME NEW v \in Universes, v # u PROVE ActiveFades(v)' = ActiveFades(v)
  BY <1>1, <1>3 DEF ActiveFades, CountInv, Typed, TypeOK
<1> QED
  BY <1>1, <1>2, <1>3, FS_EmptySet DEF ActiveFadeCountExact, CountInv, Typed, TypeOK

(* blackout() clears every fade of every universe in the map.               *)
LEMMA CountBlackout ==
    ASSUME CountInv, NEW t \in Threads, Blackout(t)
    PROVE  ActiveFadeCountExact'
<1> SUFFICES ASSUME NEW u \in Universes
             PROVE  active_fade_count'[u] = Cardinality(ActiveFades(u)')
  BY DEF ActiveFadeCountExact
<1>1. CASE u \in universes
  <2>1. ActiveFades(u)' = {}
    BY <1>1, BlankTypes DEF Blackout, ActiveFades, NoFades
  <2> QED
    BY <1>1, <2>1, FS_EmptySet DEF Blackout
<1>2. CASE u \notin universes
  BY <1>2 DEF Blackout, ActiveFades, CountInv, ActiveFadeCountExact
<1> QED
  BY <1>1, <1>2

(* A fade that starts counts once, restarted or new.                        *)
LEMMA CountFadeStart ==
    ASSUME CountInv, NEW t \in Threads, FadeStart(t)
    PROVE  ActiveFadeCountExact'
<1>1. PICK u \in Universes, c \in Channels : u = local[t].uni /\ c = FadedChannel(t)
  <2>1. /\ local[t] \in Locals /\ local[t].uni \in Universes
        /\ DOMAIN local[t].writes # {}
    BY DEF FadeStart, Return, Goto, CountInv, Typed, TypeOK, CallsOK
  <2>2. DOMAIN local[t].writes \subseteq Channels
    BY <2>1, WritesFacts DEF Locals
  <2> QED
    BY <2>1, <2>2 DEF FadedChannel
<1>2. ActiveFades(u)' = ActiveFades(u) \cup {c}
  <2>1. fades'[u][c].active /\ \A x \in Channels : x # c => fades'[u][x] = fades[u][x]
    BY <1>1 DEF FadeStart, CountInv, Typed, TypeOK
  <2> QED
    BY <2>1 DEF ActiveFades
<1>3. ASSUME NEW v \in Universes, v # u
      PROVE  ActiveFades(v)' = ActiveFades(v) /\ active_fade_count'[v] = active_fade_count[v]
  BY <1>1, <1>3 DEF FadeStart, ActiveFades, CountInv, Typed, TypeOK
<1>4. active_fade_count'[u] =
        IF c \in ActiveFades(u) THEN active_fade_count[u] ELSE active_fade_count[u] + 1
  BY <1>1 DEF FadeStart, NewlyActive, ActiveFades, CountInv, Typed, TypeOK
<1>5. Cardinality(ActiveFades(u) \cup {c}) =
        IF c \in ActiveFades(u) THEN Cardinality(ActiveFades(u))
                                ELSE Cardinality(ActiveFades(u)) + 1
  BY <1>1, ActiveFadesFinite, FS_AddElement
<1> QED
  BY <1>2, <1>3, <1>4, <1>5 DEF CountInv, ActiveFadeCountExact

(* update_fades() takes from the count the fades it ends.                   *)
LEMMA CountUpdate ==
    ASSUME CountInv, NEW t \in Threads, UpdateFades(t)
    PROVE  ActiveFadeCountExact'
<1> SUFFICES ASSUME NEW u \in Universes
             PROVE  active_fade_count'[u] = Cardinality(ActiveFades(u)')
  BY DEF ActiveFadeCountExact
<1> DEFINE ended == {c \in Driven(u) : Done(fades[u][c], local[t].now)}
<1>1. ended \subseteq ActiveFades(u)
  BY DEF Driven
<1>2. ActiveFades(u)' = ActiveFades(u) \ ended
  BY BlankTypes DEF UpdateFades, ActiveFades
<1>3. active_fade_count'[u] = active_fade_count[u] - Cardinality(ended)
  BY DEF UpdateFades
<1> HIDE DEF ended
<1>4. Cardinality(ActiveFades(u) \ ended)
        = Cardinality(ActiveFades(u)) - Cardinality(ActiveFades(u) \cap ended)
  BY ActiveFadesFinite, FS_Difference
<1>5. ActiveFades(u) \cap ended = ended
  BY <1>1
<1> QED
  BY <1>2, <1>3, <1>4, <1>5 DEF CountInv, ActiveFadeCountExact

(* A step that touches neither fades nor counts.                            *)
LEMMA CountSame ==
    ASSUME CountInv, UNCHANGED <<fades, active_fade_count>>
    PROVE  ActiveFadeCountExact'
BY DEF CountInv, ActiveFadeCountExact, ActiveFades

(* Every step keeps the counts.                                             *)
LEMMA CountNext == CountInv /\ [Next]_vars => CountInv'
<1> SUFFICES ASSUME CountInv, [Next]_vars PROVE ActiveFadeCountExact'
  BY TypedNext DEF CountInv
<1> USE DEF map
<1>1. CASE UNCHANGED vars
  BY <1>1, CountSame DEF vars
<1>2. CASE Tick
  BY <1>2, CountSame DEF Tick
<1>3. ASSUME NEW t \in Threads, Enter(t) PROVE ActiveFadeCountExact'
  <2>1. ASSUME NEW to, NEW args, Call(t, to, args) PROVE ActiveFadeCountExact'
    BY <2>1, CountSame DEF Call
  <2>2. CASE Blackout(t)
    BY <2>2, CountBlackout
  <2>3. ASSUME NEW u \in Universes, SetUniverse(t, u) \/ AddUniverse(t, u)
        PROVE  ActiveFadeCountExact'
    BY <2>3, CountReset, CountSame DEF SetUniverse, AddUniverse
  <2>4. ASSUME NEW u \in Universes, RemoveUniverse(t, u)
        PROVE  ActiveFadeCountExact'
    BY <2>4, CountReset DEF RemoveUniverse
  <2> QED
    BY <1>3, <2>1, <2>2, <2>3, <2>4
    DEF Enter, SetChannel, SetChannelUni, SetChannels, Fade, FadeUni, Send
<1>4. ASSUME NEW t \in Threads, Continue(t) PROVE ActiveFadeCountExact'
  <2>1. /\ pc[t] \notin {"idle", "update"} => local[t].uni \in Universes
        /\ DOMAIN local[t].writes \subseteq Channels
    BY WritesFacts DEF CountInv, Typed, TypeOK, CallsOK, Locals
  <2>2. CASE CancelFades(t)
    BY <2>1, <2>2, CountCancel, CountSame DEF CancelFades, Cancels, Goto
  <2>3. CASE CancelFadesUni(t)
    BY <2>1, <2>3, CountCancel, CountSame DEF CancelFadesUni, Cancels, Goto
  <2>4. CASE WriteData(t) \/ FadeReadStart(t) \/ Activate(t) \/ AddToSource(t)
    BY <2>4, CountSame DEF WriteData, FadeReadStart, Activate, AddToSource
  <2>5. CASE FadeStart(t)
    BY <2>5, CountFadeStart
  <2>6. CASE UpdateFades(t)
    BY <2>6, CountUpdate
  <2>7. CASE RollBack(t)
    BY <2>1, <2>7, CountReset DEF RollBack, Return, Goto
  <2> QED
    BY <1>4, <2>2, <2>3, <2>4, <2>5, <2>6, <2>7 DEF Continue
<1> QED
  BY <1>1, <1>2, <1>3, <1>4 DEF Next

(* Between any two critical sections of any threads, active_fade_count is   *)
(* the number of active fades of its universe.                              *)
THEOREM CountCorrect == Spec => []ActiveFadeCountExact
<1>1. Init => CountInv
  <2> SUFFICES ASSUME Init PROVE ActiveFadeCountExact
    BY TypedInit DEF CountInv
  <2>1. ASSUME NEW u \in Universes PROVE ActiveFades(u) = {}
    BY BlankTypes DEF Init, ActiveFades, NoFades
  <2> QED
    BY <2>1, FS_EmptySet DEF Init, ActiveFadeCountExact
<1>2. CountInv => ActiveFadeCountExact
  BY DEF CountInv
<1> QED
  BY <1>1, <1>2, CountNext, PTL DEF Spec

-----------------------------------------------------------------------------
(* The limit on universes.                                                  *)

LimitInv == IsFiniteSet(universes) /\ UniverseLimit

(* The map of universes never grows beyond MAX_UNIVERSES, in whatever order *)
(* threads create, add, roll back and remove universes.                     *)
THEOREM LimitCorrect == Spec => []UniverseLimit
<1>1. Init => LimitInv
  <2>1. IsFiniteSet({1}) /\ Cardinality({1}) = 1
    BY FS_Singleton
  <2> QED
    BY <2>1 DEF Init, LimitInv, UniverseLimit
<1>2. LimitInv /\ [Next]_vars => LimitInv'
  <2> SUFFICES ASSUME LimitInv, [Next]_vars PROVE LimitInv'
    OBVIOUS
  <2> USE DEF LimitInv, UniverseLimit
  <2>1. ASSUME NEW u, Insert(u), ~MapFull PROVE LimitInv'
    <3>0. Cardinality(universes) \in Nat
      BY FS_CardinalityType
    <3>1. /\ IsFiniteSet(universes \cup {u})
          /\ Cardinality(universes \cup {u}) \in
               {Cardinality(universes), Cardinality(universes) + 1}
      BY FS_AddElement
    <3>2. Cardinality(universes \cup {u}) <= MaxUniverses
      <4>1. Cardinality(universes \cup {u}) \in Nat
        BY <3>1, FS_CardinalityType
      <4> QED
        BY <2>1, <3>0, <3>1, <4>1 DEF MapFull
    <3> QED
      BY <2>1, <3>1, <3>2 DEF Insert
  <2>2. ASSUME NEW u, Erase(u) PROVE LimitInv'
    <3>1. /\ IsFiniteSet(universes \ {u})
          /\ Cardinality(universes \ {u}) <= Cardinality(universes)
      BY FS_Subset
    <3>2. Cardinality(universes \ {u}) \in Nat /\ Cardinality(universes) \in Nat
      BY <3>1, FS_CardinalityType
    <3> QED
      BY <2>2, <3>1, <3>2 DEF Erase
  <2>3. CASE UNCHANGED universes
    BY <2>3
  <2>4. ASSUME NEW t \in Threads, Enter(t) PROVE LimitInv'
    <3>1. CASE UNCHANGED universes
      BY <3>1, <2>3
    <3>2. ASSUME NEW u \in Universes,
                 SetUniverse(t, u) \/ AddUniverse(t, u) \/ RemoveUniverse(t, u)
          PROVE  LimitInv'
      BY <2>1, <2>2, <2>3, <3>2 DEF SetUniverse, AddUniverse, RemoveUniverse, map
    <3> QED
      BY <2>4, <3>1, <3>2
      DEF Enter, SetChannel, SetChannelUni, SetChannels, Fade, FadeUni, Send, Call,
          Blackout, map
  <2>5. ASSUME NEW t \in Threads, Continue(t) PROVE LimitInv'
    <3>1. CASE RollBack(t)
      BY <2>2, <3>1 DEF RollBack
    <3> QED
      BY <2>3, <2>5, <3>1
      DEF Continue, CancelFades, CancelFadesUni, WriteData, FadeReadStart, FadeStart,
          UpdateFades, Activate, AddToSource, map
  <2>6. CASE Tick \/ UNCHANGED vars
    BY <2>3, <2>6 DEF Tick, vars, map
  <2> QED
    BY <2>4, <2>5, <2>6 DEF Next
<1>3. LimitInv => UniverseLimit
  BY DEF LimitInv
<1> QED
  BY <1>1, <1>2, <1>3, PTL DEF Spec

-----------------------------------------------------------------------------
(* All of it together: the types, the counts of fades and the limit of the  *)
(* map hold between any two critical sections of any threads.               *)
THEOREM ConsistentCorrect == Spec => []Consistent
<1>1. TypeOK /\ ActiveFadeCountExact /\ UniverseLimit => Consistent
  BY DEF Consistent
<1> QED
  BY <1>1, TypeCorrect, CountCorrect, LimitCorrect, PTL

(***************************************************************************)
(* One thread.                                                              *)
(***************************************************************************)

(* Interpolation.                                                           *)

(* Part e of d of a difference k is no more than k.                         *)
LEMMA Portion ==
    ASSUME NEW e \in Nat, NEW d \in Nat, NEW k \in Nat, e < d
    PROVE  /\ (e * k) \div d \in Nat
           /\ (e * k) \div d <= k
<1> DEFINE q == (e * k) \div d
<1>1. e * k \in Nat /\ d * k \in Nat /\ e * k <= d * k
  OBVIOUS
<1>2. q \in Int /\ d * q <= e * k /\ e * k < d * q + d
  BY <1>1
<1> HIDE DEF q
<1>3. q >= 0
  <2> SUFFICES ASSUME q <= -1 PROVE FALSE
    BY <1>2
  <2>1. d * q <= d * (-1)
    BY <1>2
  <2> QED
    BY <1>1, <1>2, <2>1
<1>4. q <= k
  <2> SUFFICES ASSUME q >= k + 1 PROVE FALSE
    BY <1>2
  <2>1. d * q >= d * (k + 1) /\ d * (k + 1) = d * k + d
    BY <1>2
  <2> QED
    BY <1>1, <1>2, <2>1
<1> QED
  BY <1>2, <1>3, <1>4 DEF q

(* A larger part is no less.                                                *)
LEMMA PortionGrows ==
    ASSUME NEW e \in Nat, NEW g \in Nat, NEW d \in Nat \ {0}, NEW k \in Nat, e <= g
    PROVE  (e * k) \div d <= (g * k) \div d
<1>1. e * k \in Nat /\ g * k \in Nat /\ e * k <= g * k
  OBVIOUS
<1>2. \A a, b \in Nat : a <= b => a \div d <= b \div d
  OBVIOUS
<1> QED
  BY <1>1, <1>2

(* What a fade gives e milliseconds after it has begun.                     *)
Share(f, e, k) == (e * k) \div f.duration

(* What a fade interpolates is its start plus or minus a share of the way.  *)
LEMMA InterpolateIs ==
    ASSUME NEW f \in FadeState, NEW e \in Nat, e < f.duration
    PROVE  /\ f.start_value <= f.target_value =>
                /\ Interpolate(f, e) =
                      f.start_value + Share(f, e, f.target_value - f.start_value)
                /\ Share(f, e, f.target_value - f.start_value) \in
                      0 .. f.target_value - f.start_value
           /\ f.target_value <= f.start_value =>
                /\ Interpolate(f, e) =
                      f.start_value - Share(f, e, f.start_value - f.target_value)
                /\ Share(f, e, f.start_value - f.target_value) \in
                      0 .. f.start_value - f.target_value
<1> DEFINE a == f.start_value  b == f.target_value  d == f.duration
<1>1. /\ a \in Nat /\ a <= MaxValue /\ b \in Nat /\ b <= MaxValue /\ d \in Nat
  BY DEF FadeState, Value
<1>2. Interpolate(f, e) = ClampDmx(a + TruncDiv(e * (b - a), d))
  BY DEF Interpolate
<1> SUFFICES /\ a <= b => /\ ClampDmx(a + TruncDiv(e * (b - a), d)) = a + (e * (b - a)) \div d
                          /\ (e * (b - a)) \div d \in 0 .. b - a
             /\ b <= a => /\ ClampDmx(a + TruncDiv(e * (b - a), d)) = a - (e * (a - b)) \div d
                          /\ (e * (a - b)) \div d \in 0 .. a - b
  BY <1>2 DEF Share
<1>3. e < d
  OBVIOUS
<1> HIDE DEF a, b, d
<1>4. ASSUME a <= b
      PROVE  /\ ClampDmx(a + TruncDiv(e * (b - a), d)) = a + (e * (b - a)) \div d
             /\ (e * (b - a)) \div d \in 0 .. b - a
  <2>1. b - a \in Nat /\ e * (b - a) \in Nat
    BY <1>1, <1>4
  <2>2. (e * (b - a)) \div d \in Nat /\ (e * (b - a)) \div d <= b - a
    BY <1>1, <1>3, <2>1, Portion
  <2>3. TruncDiv(e * (b - a), d) = (e * (b - a)) \div d
    BY <2>1 DEF TruncDiv
  <2> DEFINE q == (e * (b - a)) \div d
  <2> HIDE DEF q
  <2>4. q \in Nat /\ q <= b - a
    BY <2>2 DEF q
  <2>5. ClampDmx(a + q) = a + q
    BY <1>1, <1>4, <2>4 DEF ClampDmx
  <2> QED
    BY <1>1, <1>4, <2>3, <2>4, <2>5 DEF q
<1>5. ASSUME b <= a
      PROVE  /\ ClampDmx(a + TruncDiv(e * (b - a), d)) = a - (e * (a - b)) \div d
             /\ (e * (a - b)) \div d \in 0 .. a - b
  <2>1. a - b \in Nat /\ e * (a - b) \in Nat /\ e * (b - a) = -(e * (a - b))
    BY <1>1, <1>5
  <2>2. (e * (a - b)) \div d \in Nat /\ (e * (a - b)) \div d <= a - b
    BY <1>1, <1>3, <2>1, Portion
  <2>3. TruncDiv(e * (b - a), d) = -((e * (a - b)) \div d)
    <3> DEFINE p == e * (a - b)
    <3>1. p \in Nat /\ e * (b - a) = -p
      BY <2>1
    <3> HIDE DEF p
    <3>2. TruncDiv(-p, d) = -(p \div d)
      BY <1>1, <1>3, <3>1 DEF TruncDiv
    <3> QED
      BY <3>1, <3>2 DEF p
  <2> DEFINE q == (e * (a - b)) \div d
  <2> HIDE DEF q
  <2>4. q \in Nat /\ q <= a - b
    BY <2>2 DEF q
  <2>5. ClampDmx(a + (-q)) = a - q
    BY <1>1, <1>5, <2>4 DEF ClampDmx
  <2> QED
    BY <1>1, <1>5, <2>3, <2>4, <2>5 DEF q
<1> QED
  BY <1>4, <1>5

(* A fade stays between its endpoints, comes no farther from its target as  *)
(* time passes, and begins at its start.                                    *)
LEMMA InterpolateSound ==
    ASSUME NEW f \in FadeState, NEW e \in Nat, NEW g \in Nat, e <= g, g < f.duration
    PROVE  /\ Between(Interpolate(f, e), f.start_value, f.target_value)
           /\ Distance(Interpolate(f, g), f.target_value)
                <= Distance(Interpolate(f, e), f.target_value)
           /\ Interpolate(f, 0) = f.start_value
<1> DEFINE a == f.start_value  b == f.target_value  d == f.duration
<1>1. a \in Nat /\ b \in Nat /\ d \in Nat \ {0} /\ e < d /\ 0 < d
  BY DEF FadeState, Value
<1>2. CASE a <= b
  <2>1. b - a \in Nat
    BY <1>1, <1>2
  <2>2. /\ Interpolate(f, e) = a + Share(f, e, b - a) /\ Share(f, e, b - a) \in 0 .. b - a
        /\ Interpolate(f, g) = a + Share(f, g, b - a) /\ Share(f, g, b - a) \in 0 .. b - a
        /\ Interpolate(f, 0) = a + Share(f, 0, b - a)
    BY <1>1, <1>2, InterpolateIs
  <2>3. Share(f, e, b - a) <= Share(f, g, b - a)
    BY <1>1, <2>1, PortionGrows DEF Share
  <2>4. Share(f, 0, b - a) = 0
    BY <1>1, <2>1 DEF Share
  <2> HIDE DEF a, b, d
  <2>5. /\ Between(Interpolate(f, e), a, b)
        /\ Distance(Interpolate(f, g), b) <= Distance(Interpolate(f, e), b)
        /\ Interpolate(f, 0) = a
    BY <1>1, <1>2, <2>2, <2>3, <2>4 DEF Between, Distance
  <2> QED
    BY <2>5 DEF a, b
<1>3. CASE b <= a
  <2>1. a - b \in Nat
    BY <1>1, <1>3
  <2>2. /\ Interpolate(f, e) = a - Share(f, e, a - b) /\ Share(f, e, a - b) \in 0 .. a - b
        /\ Interpolate(f, g) = a - Share(f, g, a - b) /\ Share(f, g, a - b) \in 0 .. a - b
        /\ Interpolate(f, 0) = a - Share(f, 0, a - b)
    BY <1>1, <1>3, InterpolateIs
  <2>3. Share(f, e, a - b) <= Share(f, g, a - b)
    BY <1>1, <2>1, PortionGrows DEF Share
  <2>4. Share(f, 0, a - b) = 0
    BY <1>1, <2>1 DEF Share
  <2> HIDE DEF a, b, d
  <2>5. /\ Between(Interpolate(f, e), a, b)
        /\ Distance(Interpolate(f, g), b) <= Distance(Interpolate(f, e), b)
        /\ Interpolate(f, 0) = a
    BY <1>1, <1>3, <2>2, <2>3, <2>4 DEF Between, Distance
  <2> QED
    BY <2>5 DEF a, b
<1> QED
  BY <1>1, <1>2, <1>3
-----------------------------------------------------------------------------
(* The invariant of one thread.                                             *)

(* A fade's channel shows what the fade gives at some time up to at.        *)
Shown(u, c, at) ==
    \E e \in Nat :
        /\ fades[u][c].start_time + e <= at
        /\ e < fades[u][c].duration
        /\ dmx_data[u][c] = Interpolate(fades[u][c], e)

(* The time a send() under way has read, which is the latest any has.       *)
LastRead == IF pc[t1] = "update" THEN local[t1].now ELSE now

OthersIdle == \A t \in Threads : t # t1 => pc[t] = "idle"

(* The active universe is in the map, and stays when the call under way     *)
(* goes on: it makes a universe active that is, or erases another one.      *)
MapSound ==
    /\ active_universe \in universes
    /\ pc[t1] = "activate" => local[t1].uni \in universes
    /\ pc[t1] \in {"source", "rollback"} => local[t1].uni # active_universe

(* Between the sections of a call nothing it has found out changes: the     *)
(* start value of a fade, and that what it writes does not fade.            *)
CallSound ==
    /\ pc[t1] = "start" =>
          /\ local[t1].uni \in universes
          /\ local[t1].start_value = dmx_data[local[t1].uni][FadedChannel(t1)]
    /\ pc[t1] = "write" /\ local[t1].uni \in universes =>
          DOMAIN local[t1].writes \cap ActiveFades(local[t1].uni) = {}
    /\ pc[t1] = "update" => local[t1].now <= now

FadesShown == \A u \in universes : \A c \in ActiveFades(u) : Shown(u, c, LastRead)

AloneInv == OthersIdle /\ MapSound /\ CallSound /\ FadesShown

(* At the start no fade is active and no call is under way.                 *)
LEMMA AloneInit == Init => AloneInv
<1> SUFFICES ASSUME Init PROVE AloneInv
  OBVIOUS
<1>1. \A u \in universes : ActiveFades(u) = {}
  BY BlankTypes DEF Init, ActiveFades, NoFades
<1> QED
  BY <1>1 DEF Init, AloneInv, OthersIdle, MapSound, CallSound, FadesShown

(* Fades that have not been touched, nor their channels, show what they did *)
(* before.                                                                  *)
LEMMA FadesShownKept ==
    ASSUME Typed, FadesShown, LastRead' \in Nat, LastRead \in Nat, LastRead <= LastRead',
           \A u \in universes' : \A c \in ActiveFades(u)' :
              /\ u \in universes
              /\ fades'[u][c] = fades[u][c]
              /\ dmx_data'[u][c] = dmx_data[u][c]
    PROVE  FadesShown'
<1> SUFFICES ASSUME NEW u \in universes', NEW c \in ActiveFades(u)'
             PROVE  Shown(u, c, LastRead)'
  BY DEF FadesShown
<1>1. u \in universes /\ fades'[u][c] = fades[u][c] /\ dmx_data'[u][c] = dmx_data[u][c]
  OBVIOUS
<1>2. c \in ActiveFades(u) /\ c \in Channels
  BY <1>1 DEF ActiveFades
<1>3. Shown(u, c, LastRead)
  BY <1>1, <1>2 DEF FadesShown
<1>4. fades[u][c].start_time \in Nat
  BY <1>1, <1>2 DEF Typed, TypeOK, FadeState
<1>5. PICK e \in Nat : /\ fades[u][c].start_time + e <= LastRead
                       /\ e < fades[u][c].duration
                       /\ dmx_data[u][c] = Interpolate(fades[u][c], e)
  BY <1>3 DEF Shown
<1>6. fades[u][c].start_time + e <= LastRead'
  BY <1>4, <1>5
<1>7. \E g \in Nat : /\ fades'[u][c].start_time + g <= LastRead'
                     /\ g < fades'[u][c].duration
                     /\ dmx_data'[u][c] = Interpolate(fades'[u][c], g)
  BY <1>1, <1>5, <1>6
<1> QED
  BY <1>7 DEF Shown

(* The clock a send() has read is not ahead.                                *)
LEMMA LastReadType ==
    ASSUME Typed, CallSound
    PROVE  LastRead \in Nat /\ LastRead <= now /\ now \in Nat
BY DEF Typed, TypeOK, Locals, LastRead, CallSound

(* A call begins.                                                           *)
LEMMA AloneCall ==
    ASSUME Typed, AloneInv, NEW to, NEW args, Call(t1, to, args),
           to \notin {"write", "start", "activate", "source", "rollback", "idle"},
           to = "update" => args.now = now
    PROVE  AloneInv'
<1> USE DEF AloneInv, Call, Goto, map
<1>1. /\ pc[t1] = "idle" /\ pc' = [pc EXCEPT ![t1] = to] /\ local' = [local EXCEPT ![t1] = args]
      /\ pc \in [Threads -> Locations] /\ local \in [Threads -> Locals]
  BY DEF Typed, TypeOK
<1>2. pc'[t1] = to /\ local'[t1] = args /\ \A t \in Threads : t # t1 => pc'[t] = pc[t]
  BY <1>1
<1>3. OthersIdle'
  BY <1>2 DEF OthersIdle
<1>4. MapSound'
  BY <1>2 DEF MapSound
<1>5. CallSound'
  BY <1>2 DEF CallSound, Typed, TypeOK
<1>6. LastRead = now /\ LastRead' = now /\ now \in Nat
  BY <1>1, <1>2 DEF LastRead, Typed, TypeOK
<1>7. FadesShown'
  <2>1. universes' = universes /\ fades' = fades /\ dmx_data' = dmx_data
    OBVIOUS
  <2>2. \A u : ActiveFades(u)' = ActiveFades(u)
    BY <2>1 DEF ActiveFades
  <2> QED
    BY <1>6, <2>1, <2>2, FadesShownKept
<1> QED
  BY <1>3, <1>4, <1>5, <1>7

(* Time passes.                                                             *)
LEMMA AloneTick == ASSUME Typed, AloneInv, Tick PROVE AloneInv'
<1> USE DEF AloneInv, Tick, map
<1>1. OthersIdle' /\ MapSound'
  BY DEF OthersIdle, MapSound
<1>2. now \in Nat /\ now' = now + 1
  BY DEF Typed, TypeOK
<1>3. local[t1].now \in Nat
  BY DEF Typed, TypeOK, Locals
<1>4. CallSound'
  <2>1. /\ pc[t1] = "start" =>
             /\ local[t1].uni \in universes
             /\ local[t1].start_value = dmx_data[local[t1].uni][FadedChannel(t1)]
        /\ pc[t1] = "write" /\ local[t1].uni \in universes =>
             DOMAIN local[t1].writes \cap ActiveFades(local[t1].uni) = {}
    BY DEF CallSound
  <2>2. (pc[t1] = "update" => local[t1].now <= now)'
    BY <1>2, <1>3 DEF CallSound
  <2> QED
    BY <2>1, <2>2 DEF CallSound, FadedChannel, ActiveFades
<1>5. LastRead \in Nat /\ LastRead' \in Nat /\ LastRead <= LastRead'
  BY <1>2, <1>3 DEF LastRead
<1>6. FadesShown'
  <2>1. \A u : ActiveFades(u)' = ActiveFades(u)
    BY DEF ActiveFades
  <2> QED
    BY <1>5, <2>1, FadesShownKept
<1> QED
  BY <1>1, <1>4, <1>6
(* A call that goes on or returns leaves the other threads where they are.  *)
LEMMA AlonePc ==
    ASSUME Typed, OthersIdle, NEW from, NEW to, Goto(t1, from, to)
    PROVE  OthersIdle' /\ pc[t1] = from /\ pc'[t1] = to
BY DEF Typed, TypeOK, OthersIdle, Goto

(* The fades of what is to be written are cancelled.                        *)
LEMMA AloneCancel ==
    ASSUME Typed, AloneInv, CancelFades(t1) \/ CancelFadesUni(t1)
    PROVE  AloneInv'
<1> DEFINE u == local[t1].uni
           S == Cancels(t1)
<1>1. /\ universes' = universes /\ dmx_data' = dmx_data
      /\ active_universe' = active_universe /\ now' = now
  BY DEF CancelFades, CancelFadesUni
<1>2. pc[t1] \in {"cancel", "cancel_uni"} /\ pc'[t1] \in {"write", "idle"} /\ OthersIdle'
  BY AlonePc DEF AloneInv, CancelFades, CancelFadesUni, Return
<1>3. \/ u \in universes /\ CancelOn(u, S)
      \/ u \notin universes /\ fades' = fades
  BY DEF CancelFades, CancelFadesUni
<1>4. pc'[t1] = "write" => local' = local
  BY <1>2, AlonePc DEF AloneInv, CancelFades, CancelFadesUni, Return
<1>5. \A v \in universes : \A c \in ActiveFades(v)' :
         fades'[v][c] = fades[v][c] /\ ~(v = u /\ c \in S)
  <2> SUFFICES ASSUME NEW v \in universes, NEW c \in ActiveFades(v)'
               PROVE  fades'[v][c] = fades[v][c] /\ ~(v = u /\ c \in S)
    OBVIOUS
  <2>1. v \in Universes /\ c \in Channels /\ fades'[v][c].active
    BY <1>1 DEF Typed, TypeOK, ActiveFades
  <2>2. CASE u \notin universes /\ fades' = fades
    BY <2>2
  <2>3. CASE u \in universes /\ CancelOn(u, S)
    <3>1. /\ fades \in [Universes -> [Channels -> FadeState]]
          /\ fades' = [fades EXCEPT ![u] = [x \in Channels |-> IF x \in S THEN IdleFade
                                                               ELSE fades[u][x]]]
      BY <2>3 DEF CancelOn, Typed, TypeOK
    <3> HIDE DEF u, S
    <3>2. CASE v # u
      BY <2>1, <3>1, <3>2
    <3>3. CASE v = u
      <4>1. fades'[v][c] = IF c \in S THEN IdleFade ELSE fades[v][c]
        BY <2>1, <3>1, <3>3
      <4> QED
        BY <2>1, <4>1, BlankTypes
    <3> QED
      BY <3>2, <3>3
  <2> QED
    BY <1>3, <2>2, <2>3
<1>6. MapSound'
  BY <1>1, <1>2 DEF AloneInv, MapSound
<1>7. CallSound'
  <2>1. CASE pc'[t1] = "idle"
    BY <2>1 DEF CallSound
  <2>2. CASE pc'[t1] = "write"
    <3>1. local'[t1].uni \in universes' =>
             DOMAIN local'[t1].writes \cap ActiveFades(u)' = {}
      BY <1>1, <1>4, <1>5, <2>2 DEF Cancels
    <3>2. local'[t1].uni = u
      BY <1>4, <2>2
    <3> QED
      BY <2>2, <3>1, <3>2 DEF CallSound, ActiveFades
  <2> QED
    BY <1>2, <2>1, <2>2
<1>8. FadesShown'
  <2>1. LastRead = now /\ LastRead' = now /\ now \in Nat
    BY <1>1, <1>2 DEF LastRead, Typed, TypeOK
  <2> QED
    BY <1>1, <1>5, <2>1, FadesShownKept DEF AloneInv
<1> QED
  BY <1>2, <1>6, <1>7, <1>8 DEF AloneInv

(* The values are written, to channels that do not fade.                    *)
LEMMA AloneWrite ==
    ASSUME Typed, AloneInv, WriteData(t1)
    PROVE  AloneInv'
<1> DEFINE u == local[t1].uni
           w == local[t1].writes
<1>1. /\ universes' = universes /\ fades' = fades
      /\ active_universe' = active_universe /\ now' = now
  BY DEF WriteData
<1>2. pc[t1] = "write" /\ pc'[t1] = "idle" /\ OthersIdle'
  BY AlonePc DEF AloneInv, WriteData, Return
<1>3. \A v : ActiveFades(v)' = ActiveFades(v)
  BY <1>1 DEF ActiveFades
<1>4. \A v \in universes : \A c \in ActiveFades(v) : dmx_data'[v][c] = dmx_data[v][c]
  <2> SUFFICES ASSUME NEW v \in universes, NEW c \in ActiveFades(v)
               PROVE  dmx_data'[v][c] = dmx_data[v][c]
    OBVIOUS
  <2>1. /\ dmx_data \in [Universes -> [Channels -> Value]]
        /\ v \in Universes /\ c \in Channels
    BY DEF Typed, TypeOK, ActiveFades
  <2>2. v = u => c \notin DOMAIN w
    BY <1>2 DEF AloneInv, CallSound
  <2>3. dmx_data' = IF u \in universes
                    THEN [dmx_data EXCEPT ![u] =
                            [x \in Channels |-> IF x \in DOMAIN w THEN w[x]
                                                ELSE dmx_data[u][x]]]
                    ELSE dmx_data
    <3>1. u \in universes => u \in Universes
      BY DEF Typed, TypeOK
    <3> QED
      BY <2>1, <3>1 DEF WriteData
  <2> HIDE DEF u, w
  <2> QED
    BY <2>1, <2>2, <2>3
<1>5. MapSound' /\ CallSound'
  BY <1>1, <1>2 DEF AloneInv, MapSound, CallSound
<1>6. FadesShown'
  <2>1. LastRead = now /\ LastRead' = now /\ now \in Nat
    BY <1>1, <1>2 DEF LastRead, Typed, TypeOK
  <2> QED
    BY <1>1, <1>3, <1>4, <2>1, FadesShownKept DEF AloneInv
<1> QED
  BY <1>2, <1>5, <1>6 DEF AloneInv

(* blackout() leaves no fade.                                               *)
LEMMA AloneBlackout ==
    ASSUME Typed, AloneInv, Blackout(t1)
    PROVE  AloneInv'
<1>1. /\ universes' = universes /\ pc' = pc /\ local' = local
      /\ active_universe' = active_universe /\ now' = now /\ pc[t1] = "idle"
      /\ fades' = [u \in Universes |-> IF u \in universes THEN NoFades ELSE fades[u]]
  BY DEF Blackout
<1>2. \A u \in universes : ActiveFades(u)' = {}
  BY <1>1, BlankTypes DEF ActiveFades, NoFades, Typed, TypeOK
<1>3. FadesShown'
  BY <1>1, <1>2 DEF FadesShown
<1> QED
  BY <1>1, <1>3 DEF AloneInv, OthersIdle, MapSound, CallSound

(* fade() reads the start value, which nobody changes before it records the *)
(* fade.                                                                    *)
LEMMA AloneFadeReadStart ==
    ASSUME Typed, AloneInv, FadeReadStart(t1)
    PROVE  AloneInv'
<1>1. /\ universes' = universes /\ fades' = fades /\ dmx_data' = dmx_data
      /\ active_universe' = active_universe /\ now' = now
  BY DEF FadeReadStart, map
<1>2. pc[t1] = "fade" /\ pc'[t1] \in {"start", "idle"} /\ OthersIdle'
  BY AlonePc DEF AloneInv, FadeReadStart, Return
<1>3. \A u : ActiveFades(u)' = ActiveFades(u)
  BY <1>1 DEF ActiveFades
<1>4. MapSound'
  BY <1>1, <1>2 DEF AloneInv, MapSound
<1>5. CallSound'
  <2>1. CASE pc'[t1] = "start"
    <3>1. /\ local[t1].uni \in universes
          /\ local' = [local EXCEPT ![t1].start_value = dmx_data[local[t1].uni][FadedChannel(t1)]]
      BY <1>2, <2>1, AlonePc DEF AloneInv, FadeReadStart, Return
    <3>2. local[t1] \in Locals /\ local \in [Threads -> Locals]
      BY DEF Typed, TypeOK
    <3>3. /\ local'[t1].uni = local[t1].uni /\ local'[t1].writes = local[t1].writes
          /\ local'[t1].start_value = dmx_data[local[t1].uni][FadedChannel(t1)]
      BY <3>1, <3>2 DEF Locals
    <3>4. FadedChannel(t1)' = FadedChannel(t1)
      BY <3>3 DEF FadedChannel
    <3> QED
      BY <1>1, <2>1, <3>1, <3>3, <3>4 DEF CallSound
  <2>2. CASE pc'[t1] = "idle"
    BY <2>2 DEF CallSound
  <2> QED
    BY <1>2, <2>1, <2>2
<1>6. FadesShown'
  <2>1. LastRead = now /\ LastRead' = now /\ now \in Nat
    BY <1>1, <1>2 DEF LastRead, Typed, TypeOK
  <2> QED
    BY <1>1, <1>3, <2>1, FadesShownKept DEF AloneInv
<1> QED
  BY <1>2, <1>4, <1>5, <1>6 DEF AloneInv

(* A new fade begins at the value its channel shows.                        *)
LEMMA AloneFadeStart ==
    ASSUME Typed, AloneInv, FadeStart(t1)
    PROVE  AloneInv'
<1>1. /\ universes' = universes /\ dmx_data' = dmx_data
      /\ active_universe' = active_universe /\ now' = now /\ now \in Nat
  BY DEF FadeStart, Typed, TypeOK
<1>2. pc[t1] = "start" /\ pc'[t1] = "idle" /\ OthersIdle'
  BY AlonePc DEF AloneInv, FadeStart, Return
<1>3. PICK u \in Universes, c \in Channels :
         u = local[t1].uni /\ c = FadedChannel(t1) /\ c \in DOMAIN local[t1].writes
  <2>1. /\ local[t1] \in Locals /\ local[t1].uni \in Universes
        /\ DOMAIN local[t1].writes # {}
    BY <1>2 DEF Typed, TypeOK, CallsOK
  <2>2. DOMAIN local[t1].writes \subseteq Channels
    BY <2>1, WritesFacts DEF Locals
  <2> QED
    BY <2>1, <2>2 DEF FadedChannel
<1> DEFINE new == [active |-> TRUE, start_value |-> local[t1].start_value,
                   target_value |-> local[t1].writes[c],
                   start_time |-> now, duration |-> local[t1].duration]
<1>4. fades' = [fades EXCEPT ![u][c] = new]
  BY <1>3 DEF FadeStart
<1>5. new \in FadeState /\ new.duration > 0 /\ new.start_time = now
      /\ new.start_value = local[t1].start_value
  <2>1. local[t1] \in Locals /\ local[t1].duration > 0
    BY <1>2 DEF Typed, TypeOK, CallsOK
  <2>2. local[t1].writes[c] \in Value
    BY <1>3, <2>1, WritesFacts DEF Locals
  <2> QED
    BY <1>1, <2>1, <2>2 DEF Locals, FadeState
<1> HIDE DEF new
<1>6. /\ fades \in [Universes -> [Channels -> FadeState]]
      /\ universes \subseteq Universes
  BY DEF Typed, TypeOK
<1>7. /\ fades'[u][c] = new
      /\ \A v \in Universes, x \in Channels : v # u \/ x # c => fades'[v][x] = fades[v][x]
  BY <1>4, <1>6
<1>8. dmx_data[u][c] = new.start_value
  BY <1>2, <1>3, <1>5 DEF AloneInv, CallSound
<1>9. MapSound' /\ CallSound'
  BY <1>1, <1>2 DEF AloneInv, MapSound, CallSound
<1>10. LastRead = now /\ LastRead' = now
  BY <1>1, <1>2 DEF LastRead
<1>11. FadesShown'
  <2> SUFFICES ASSUME NEW v \in universes', NEW x \in ActiveFades(v)'
               PROVE  Shown(v, x, LastRead)'
    BY DEF FadesShown
  <2>1. v \in Universes /\ v \in universes /\ x \in Channels /\ fades'[v][x].active
    BY <1>1, <1>6 DEF ActiveFades
  <2>2. CASE v = u /\ x = c
    <3>1. Interpolate(new, 0) = new.start_value
      BY <1>5, InterpolateSound DEF FadeState
    <3>2. /\ fades'[v][x].start_time + 0 <= LastRead'
          /\ 0 < fades'[v][x].duration
          /\ dmx_data'[v][x] = Interpolate(fades'[v][x], 0)
      BY <1>1, <1>5, <1>7, <1>8, <1>10, <2>2, <3>1
    <3> QED
      BY <3>2 DEF Shown
  <2>3. CASE ~(v = u /\ x = c)
    <3>1. fades'[v][x] = fades[v][x]
      BY <1>7, <2>1, <2>3
    <3>2. Shown(v, x, LastRead)
      BY <2>1, <3>1 DEF AloneInv, FadesShown, ActiveFades
    <3> QED
      BY <1>1, <1>10, <3>1, <3>2 DEF Shown
  <2> QED
    BY <2>2, <2>3
<1> QED
  BY <1>2, <1>9, <1>11 DEF AloneInv

(* Every fade of the map is driven: one whose universe were skipped would   *)
(* stay where it is.                                                        *)
LEMMA AllDriven ==
    ASSUME CountInv, NEW u \in universes
    PROVE  Driven(u) = ActiveFades(u)
<1>1. u \in Universes
  BY DEF CountInv, Typed, TypeOK
<1>2. active_fade_count[u] = Cardinality(ActiveFades(u)) /\ IsFiniteSet(ActiveFades(u))
  BY <1>1, ActiveFadesFinite DEF CountInv, ActiveFadeCountExact
<1>3. CASE active_fade_count[u] = 0
  BY <1>2, <1>3, FS_EmptySet DEF Driven
<1>4. CASE active_fade_count[u] # 0
  BY <1>4 DEF Driven
<1> QED
  BY <1>3, <1>4

(* What update_fades() makes of a fade and its channel.                     *)
LEMMA UpdatedFade ==
    ASSUME CountInv, AloneInv, UpdateFades(t1), NEW u \in universes, NEW c \in ActiveFades(u)
    PROVE  LET f == fades[u][c]
               g == local[t1].now - f.start_time IN
           /\ f \in FadeState /\ f.duration > 0
           /\ g \in Nat
           /\ Shown(u, c, local[t1].now)
           /\ IF g >= f.duration
                THEN fades'[u][c] = IdleFade /\ dmx_data'[u][c] = f.target_value
                ELSE fades'[u][c] = f /\ dmx_data'[u][c] = Interpolate(f, g)
<1> DEFINE f == fades[u][c]
           at == local[t1].now
           g == at - f.start_time
<1>1. u \in Universes /\ c \in Channels /\ f \in FadeState /\ f.duration > 0
  BY DEF CountInv, Typed, TypeOK, ActiveFades, FadesLast
<1>2. pc[t1] = "update" /\ at \in Nat
  BY DEF UpdateFades, Return, Goto, CountInv, Typed, TypeOK, Locals
<1>3. Shown(u, c, at)
  BY <1>2 DEF AloneInv, FadesShown, LastRead
<1>4. g \in Nat
  <2>1. PICK e \in Nat : f.start_time + e <= at
    BY <1>3 DEF Shown
  <2>2. f.start_time \in Nat
    BY <1>1 DEF FadeState
  <2> HIDE DEF f, at
  <2> QED
    BY <1>2, <2>1, <2>2
<1>5. c \in Driven(u)
  BY AllDriven
<1>6. IF g >= f.duration
        THEN fades'[u][c] = IdleFade /\ dmx_data'[u][c] = f.target_value
        ELSE fades'[u][c] = f /\ dmx_data'[u][c] = Interpolate(f, g)
  <2>1. Done(f, at) <=> g >= f.duration
    BY DEF Done, Elapsed
  <2>2. Elapsed(f, at) = g
    BY DEF Elapsed
  <2>3. dmx_data'[u][c] = IF c \notin Driven(u) THEN dmx_data[u][c]
                          ELSE IF c \in Driven(u) /\ Done(f, at) THEN f.target_value
                          ELSE Interpolate(f, Elapsed(f, at))
    BY <1>1 DEF UpdateFades
  <2>4. fades'[u][c] = IF c \in Driven(u) /\ Done(f, at) THEN IdleFade ELSE f
    BY <1>1 DEF UpdateFades
  <2> HIDE DEF f, at, g
  <2> QED
    BY <1>5, <2>1, <2>2, <2>3, <2>4
<1> QED
  BY <1>1, <1>3, <1>4, <1>6

(* update_fades().                                                          *)
LEMMA AloneUpdate ==
    ASSUME CountInv, AloneInv, UpdateFades(t1)
    PROVE  AloneInv'
<1>1. /\ universes' = universes
      /\ active_universe' = active_universe /\ now' = now /\ now \in Nat
  BY DEF UpdateFades, CountInv, Typed, TypeOK
<1>2. pc[t1] = "update" /\ pc'[t1] = "idle" /\ OthersIdle'
  BY AlonePc DEF AloneInv, UpdateFades, Return, CountInv
<1>3. MapSound' /\ CallSound'
  BY <1>1, <1>2 DEF AloneInv, MapSound, CallSound
<1>4. LastRead' = now /\ local[t1].now <= now /\ local[t1].now \in Nat
  BY <1>1, <1>2 DEF LastRead, AloneInv, CallSound, CountInv, Typed, TypeOK, Locals
<1>5. FadesShown'
  <2> SUFFICES ASSUME NEW u \in universes', NEW c \in ActiveFades(u)'
               PROVE  Shown(u, c, LastRead)'
    BY DEF FadesShown
  <2>1. u \in universes /\ u \in Universes /\ c \in Channels /\ fades'[u][c].active
    BY <1>1 DEF ActiveFades, CountInv, Typed, TypeOK
  <2>2. c \in ActiveFades(u)
    BY <2>1, BlankTypes DEF UpdateFades, ActiveFades
  <2> DEFINE f == fades[u][c]
             g == local[t1].now - f.start_time
  <2>3. /\ f \in FadeState /\ g \in Nat
        /\ IF g >= f.duration
             THEN fades'[u][c] = IdleFade /\ dmx_data'[u][c] = f.target_value
             ELSE fades'[u][c] = f /\ dmx_data'[u][c] = Interpolate(f, g)
    BY <2>1, <2>2, UpdatedFade
  <2>4. f.start_time \in Nat /\ f.duration \in Nat
    BY <2>3 DEF FadeState
  <2>5. ~(g >= f.duration)
    BY <2>1, <2>3, BlankTypes
  <2>6. f.start_time + g = local[t1].now
    BY <1>4, <2>4
  <2> HIDE DEF f, g
  <2>7. /\ fades'[u][c].start_time + g <= LastRead'
        /\ g < fades'[u][c].duration
        /\ dmx_data'[u][c] = Interpolate(fades'[u][c], g)
    BY <1>4, <2>3, <2>4, <2>5, <2>6
  <2> QED
    BY <2>3, <2>7 DEF Shown
<1> QED
  BY <1>2, <1>3, <1>5 DEF AloneInv

(* A universe that is inserted or erased has no fades; the others keep      *)
(* theirs.                                                                  *)
LEMMA AloneReset ==
    ASSUME Typed, AloneInv, NEW u \in Universes, Insert(u) \/ Erase(u),
           LastRead = now, LastRead' = now, now \in Nat
    PROVE  FadesShown'
<1>1. /\ fades' = [fades EXCEPT ![u] = NoFades]
      /\ dmx_data' = [dmx_data EXCEPT ![u] = ZeroData]
      /\ \A v \in universes' : v # u => v \in universes
  BY DEF Insert, Erase
<1>2. /\ fades \in [Universes -> [Channels -> FadeState]]
      /\ dmx_data \in [Universes -> [Channels -> Value]]
      /\ universes \subseteq Universes
  BY DEF Typed, TypeOK
<1>3. ActiveFades(u)' = {}
  BY <1>1, <1>2, BlankTypes DEF ActiveFades, NoFades
<1>4. \A v \in universes' : \A c \in ActiveFades(v)' :
         /\ v \in universes
         /\ fades'[v][c] = fades[v][c]
         /\ dmx_data'[v][c] = dmx_data[v][c]
  BY <1>1, <1>2, <1>3
<1> QED
  BY <1>4, FadesShownKept DEF AloneInv

(* universe(u) and addUniverse(u) put u into the map.                       *)
LEMMA AloneInsert ==
    ASSUME Typed, AloneInv, NEW u \in Universes,
           SetUniverse(t1, u) \/ AddUniverse(t1, u)
    PROVE  AloneInv'
<1>1. /\ pc[t1] = "idle" /\ pc'[t1] \in {"activate", "source"} /\ OthersIdle'
      /\ active_universe' = active_universe /\ now' = now
      /\ local' = [local EXCEPT ![t1] = [NoLocals EXCEPT !.uni = u]]
      /\ pc'[t1] = "source" => u \notin universes
  BY AlonePc DEF AloneInv, SetUniverse, AddUniverse, IsNew
<1>2. local'[t1].uni = u /\ now \in Nat
  BY <1>1, NoLocalsType DEF Typed, TypeOK, NoLocals
<1>3. \/ UNCHANGED map /\ u \in universes
      \/ Insert(u)
  BY DEF SetUniverse, AddUniverse
<1>4. universes \subseteq universes' /\ u \in universes'
  BY <1>3 DEF Insert, map
<1>5. LastRead = now /\ LastRead' = now
  BY <1>1 DEF LastRead
<1>6. MapSound'
  BY <1>1, <1>2, <1>4 DEF AloneInv, MapSound
<1>7. CallSound'
  BY <1>1 DEF CallSound
<1>8. FadesShown'
  <2>1. CASE Insert(u)
    BY <1>2, <1>5, <2>1, AloneReset
  <2>2. CASE UNCHANGED map
    <3>1. \A v : ActiveFades(v)' = ActiveFades(v)
      BY <2>2 DEF ActiveFades, map
    <3> QED
      BY <1>2, <1>5, <2>2, <3>1, FadesShownKept DEF AloneInv, map
  <2> QED
    BY <1>3, <2>1, <2>2
<1> QED
  BY <1>1, <1>6, <1>7, <1>8 DEF AloneInv

(* universe() makes active what it has found or inserted; addUniverse()     *)
(* goes on to sACN.                                                         *)
LEMMA AloneMapKept ==
    ASSUME Typed, AloneInv, Activate(t1) \/ AddToSource(t1)
    PROVE  AloneInv'
<1>1. /\ UNCHANGED map /\ now' = now /\ now \in Nat
      /\ pc[t1] \in {"activate", "source"} /\ pc'[t1] \in {"idle", "rollback"} /\ OthersIdle'
      /\ pc'[t1] = "rollback" => pc[t1] = "source" /\ local' = local
      /\ \/ pc[t1] = "activate" /\ active_universe' = local[t1].uni
         \/ active_universe' = active_universe
  BY AlonePc DEF AloneInv, Activate, AddToSource, Return, Typed, TypeOK
<1>2. MapSound'
  BY <1>1 DEF AloneInv, MapSound, map
<1>3. CallSound'
  BY <1>1 DEF CallSound
<1>4. LastRead = now /\ LastRead' = now
  BY <1>1 DEF LastRead
<1>5. \A v : ActiveFades(v)' = ActiveFades(v)
  BY <1>1 DEF ActiveFades, map
<1>6. FadesShown'
  BY <1>1, <1>4, <1>5, FadesShownKept DEF AloneInv, map
<1> QED
  BY <1>1, <1>2, <1>3, <1>6 DEF AloneInv

(* A universe that sACN refused is erased, and is not the active one.       *)
LEMMA AloneRollBack ==
    ASSUME Typed, AloneInv, RollBack(t1)
    PROVE  AloneInv'
<1>1. /\ pc[t1] = "rollback" /\ pc'[t1] = "idle" /\ OthersIdle'
      /\ active_universe' = active_universe /\ now' = now /\ now \in Nat
      /\ Erase(local[t1].uni)
  BY AlonePc DEF AloneInv, RollBack, Return, Typed, TypeOK
<1>2. local[t1].uni \in Universes
  BY <1>1 DEF Typed, CallsOK
<1>3. MapSound' /\ CallSound'
  BY <1>1 DEF AloneInv, MapSound, CallSound, Erase
<1>4. LastRead = now /\ LastRead' = now
  BY <1>1 DEF LastRead
<1> QED
  BY <1>1, <1>2, <1>3, <1>4, AloneReset DEF AloneInv

(* removeUniverse() makes another universe active when it removes that one. *)
LEMMA AloneRemoveUniverse ==
    ASSUME Typed, AloneInv, NEW u \in Universes, RemoveUniverse(t1, u)
    PROVE  AloneInv'
<1>1. /\ pc[t1] = "idle" /\ pc' = pc /\ local' = local /\ now' = now /\ now \in Nat
      /\ u \in universes /\ Cardinality(universes) > 1 /\ Erase(u)
      /\ active_universe' = ActiveWithout(u)
  BY DEF RemoveUniverse, Typed, TypeOK
<1>2. universes \ {u} # {}
  <2>1. universes # {u}
    BY <1>1, FS_Singleton
  <2> QED
    BY <1>1, <2>1
<1>3. active_universe' \in universes'
  <2>1. universes' = universes \ {u} /\ universes \ {u} \in SUBSET Nat
    BY <1>1 DEF Erase, Typed, TypeOK
  <2>2. CASE active_universe = u
    BY <1>1, <1>2, <2>1, <2>2, MinType DEF ActiveWithout
  <2>3. CASE active_universe # u
    BY <1>1, <2>1, <2>3 DEF ActiveWithout, AloneInv, MapSound
  <2> QED
    BY <2>2, <2>3
<1>4. OthersIdle' /\ MapSound' /\ CallSound'
  BY <1>1, <1>3 DEF AloneInv, OthersIdle, MapSound, CallSound
<1>5. LastRead = now /\ LastRead' = now
  BY <1>1 DEF LastRead
<1> QED
  BY <1>1, <1>4, <1>5, AloneReset DEF AloneInv

-----------------------------------------------------------------------------
(* One thread.                                                              *)

(* One thread keeps the invariant, whatever call it makes or goes on with.  *)
LEMMA AloneStep ==
    ASSUME CountInv, AloneInv, Enter(t1) \/ Continue(t1)
    PROVE  AloneInv'
<1>0. Typed
  BY DEF CountInv
<1>1. ASSUME NEW to, NEW args, Call(t1, to, args), to \in {"cancel", "cancel_uni", "fade"}
      PROVE  AloneInv'
  BY <1>0, <1>1, AloneCall
<1>2. CASE Send(t1)
  <2>1. [NoLocals EXCEPT !.now = now].now = now
    BY DEF NoLocals
  <2> QED
    BY <1>0, <1>2, <2>1, AloneCall DEF Send
<1>3. ASSUME NEW c, NEW v, SetChannel(t1, c, v) PROVE AloneInv'
  BY <1>1, <1>3 DEF SetChannel
<1>4. ASSUME NEW u, NEW c, NEW v, SetChannelUni(t1, u, c, v) PROVE AloneInv'
  BY <1>1, <1>4 DEF SetChannelUni
<1>5. ASSUME NEW w, SetChannels(t1, w) PROVE AloneInv'
  BY <1>1, <1>5 DEF SetChannels
<1>6. ASSUME NEW c, NEW v, NEW d, Fade(t1, c, v, d) PROVE AloneInv'
  <2> DEFINE to == IF d = 0 THEN "cancel" ELSE "fade"
  <2>1. to \in {"cancel", "cancel_uni", "fade"}
    OBVIOUS
  <2>2. Call(t1, to, FadeArgs(active_universe, c, v, d))
    BY <1>6 DEF Fade
  <2> HIDE DEF to
  <2> QED
    BY <1>1, <2>1, <2>2
<1>7. ASSUME NEW u, NEW c, NEW v, NEW d, FadeUni(t1, u, c, v, d) PROVE AloneInv'
  <2> DEFINE to == IF d = 0 THEN "cancel_uni" ELSE "fade"
  <2>1. to \in {"cancel", "cancel_uni", "fade"}
    OBVIOUS
  <2>2. Call(t1, to, FadeArgs(u, c, v, d))
    BY <1>7 DEF FadeUni
  <2> HIDE DEF to
  <2> QED
    BY <1>1, <2>1, <2>2
<1>8. CASE Enter(t1)
  BY <1>0, <1>2, <1>3, <1>4, <1>5, <1>6, <1>7, <1>8, AloneBlackout, AloneInsert,
     AloneRemoveUniverse DEF Enter
<1>9. CASE Continue(t1)
  BY <1>0, <1>9, AloneCancel, AloneWrite, AloneFadeReadStart, AloneFadeStart, AloneUpdate,
     AloneMapKept, AloneRollBack DEF Continue
<1> QED
  BY <1>8, <1>9

(* One thread keeps the invariant, when it is the only one.                 *)
AloneHolds == Alone => CountInv /\ AloneInv

(* Every step of a scenario of one thread keeps the invariant.              *)
LEMMA AloneNext == AloneHolds /\ [MCNext]_mcvars => AloneHolds'
<1> SUFFICES ASSUME AloneHolds, [MCNext]_mcvars, Alone' PROVE CountInv' /\ AloneInv'
  BY DEF AloneHolds
<1>1. scenario' = scenario
  BY DEF MCNext, mcvars
<1>2. Alone /\ CountInv /\ AloneInv
  BY <1>1 DEF Alone, AloneHolds
<1>3. scenario.threads = {t1}
  BY <1>2 DEF Alone
<1>4. CASE UNCHANGED vars
  <2>1. CountInv'
    BY <1>2, <1>4, CountNext
  <2>2. AloneInv'
    BY <1>2, <1>4 DEF AloneInv, OthersIdle, MapSound, CallSound, FadesShown, Shown, LastRead,
       FadedChannel, ActiveFades, vars, map
  <2> QED
    BY <2>1, <2>2
<1>5. CASE Tick
  BY <1>2, <1>5, CountNext, AloneTick DEF CountInv, Next
<1>6. CASE Enter(t1) \/ Continue(t1)
  BY <1>2, <1>6, CountNext, AloneStep DEF Next
<1> QED
  BY <1>3, <1>4, <1>5, <1>6 DEF MCNext, mcvars

(* A scenario of one thread starts with the invariant.                      *)
LEMMA AloneStart == MCInit => AloneHolds
<1> SUFFICES ASSUME MCInit PROVE CountInv /\ AloneInv
  BY DEF AloneHolds
<1>1. Init
  BY DEF MCInit
<1>2. \A u \in Universes : ActiveFades(u) = {}
  BY <1>1, BlankTypes DEF Init, ActiveFades, NoFades
<1>3. ActiveFadeCountExact
  BY <1>1, <1>2, FS_EmptySet DEF Init, ActiveFadeCountExact
<1> QED
  BY <1>1, <1>3, TypedInit, AloneInit DEF CountInv

(* With one thread a fading channel shows exactly what its fade gives at a  *)
(* time that has passed since it began, so a value between its endpoints,   *)
(* and the active universe is in the map, whatever is called in whatever    *)
(* order.                                                                   *)
THEOREM SoundAloneCorrect == MCSpec => []SoundAlone
<1>1. AloneHolds => SoundAlone
  <2> SUFFICES ASSUME CountInv, AloneInv
               PROVE  /\ FadeOnCourse /\ FadeWithinEndpoints
                      /\ UniverseRemains /\ ActiveUniverseExists
    BY DEF AloneHolds, SoundAlone
  <2>1. ASSUME NEW u \in universes, NEW c \in ActiveFades(u)
        PROVE  /\ Between(dmx_data[u][c], fades[u][c].start_value, fades[u][c].target_value)
               /\ \E e \in 0 .. fades[u][c].duration - 1 :
                     /\ fades[u][c].start_time + e <= now
                     /\ dmx_data[u][c] = Interpolate(fades[u][c], e)
    <3>1. fades[u][c] \in FadeState
      BY DEF CountInv, Typed, TypeOK, ActiveFades
    <3>2. PICK e \in Nat : /\ fades[u][c].start_time + e <= LastRead
                           /\ e < fades[u][c].duration
                           /\ dmx_data[u][c] = Interpolate(fades[u][c], e)
      BY DEF AloneInv, FadesShown, Shown
    <3>3. LastRead \in Nat /\ LastRead <= now /\ now \in Nat
      BY DEF AloneInv, CallSound, LastRead, CountInv, Typed, TypeOK, Locals
    <3>4. /\ fades[u][c].start_time \in Nat /\ fades[u][c].duration \in Nat
      BY <3>1 DEF FadeState
    <3>5. e \in 0 .. fades[u][c].duration - 1 /\ fades[u][c].start_time + e <= now
      BY <3>2, <3>3, <3>4
    <3> QED
      BY <3>1, <3>2, <3>5, InterpolateSound
  <2> QED
    BY <2>1 DEF FadeOnCourse, FadeWithinEndpoints, UniverseRemains, ActiveUniverseExists,
       AloneInv, MapSound
<1> QED
  BY <1>1, AloneStart, AloneNext, PTL DEF MCSpec

(* A send() never takes a fading channel back, however long the last one is *)
(* ago and whatever was called since, and leaves it at its target in the    *)
(* end; and what a call writes does not fade.                               *)
THEOREM FadesYieldCorrect == MCSpec => FadesYield
<1>1. AloneHolds /\ [MCNext]_mcvars => (Alone => SendApproaches /\ WriteStands) \/ UNCHANGED vars
  <2> SUFFICES ASSUME CountInv, AloneInv PROVE SendApproaches /\ WriteStands
    BY DEF AloneHolds
  <2>1. ASSUME NEW t \in Threads, UpdateFades(t), NEW u \in universes, NEW c \in ActiveFades(u)
        PROVE  LET target == fades[u][c].target_value IN
               IF fades'[u][c].active
                 THEN Distance(dmx_data'[u][c], target) <= Distance(dmx_data[u][c], target)
                 ELSE dmx_data'[u][c] = target
    <3> DEFINE f == fades[u][c]
               g == local[t1].now - f.start_time
    <3>1. t = t1
      BY <2>1 DEF UpdateFades, Return, Goto, AloneInv, OthersIdle
    <3>2. /\ f \in FadeState /\ g \in Nat /\ f.duration > 0 /\ Shown(u, c, local[t1].now)
          /\ IF g >= f.duration
               THEN fades'[u][c] = IdleFade /\ dmx_data'[u][c] = f.target_value
               ELSE fades'[u][c] = f /\ dmx_data'[u][c] = Interpolate(f, g)
      BY <2>1, <3>1, UpdatedFade
    <3>3. PICK e \in Nat : /\ f.start_time + e <= local[t1].now
                           /\ dmx_data[u][c] = Interpolate(f, e)
      BY <3>2 DEF Shown
    <3>4. local[t1].now \in Nat /\ f.start_time \in Nat /\ f.duration \in Nat
      BY <3>2 DEF CountInv, Typed, TypeOK, Locals, FadeState
    <3>5. e <= g
      BY <3>3, <3>4
    <3> HIDE DEF f, g
    <3>6. CASE g >= f.duration
      <4>1. fades'[u][c] = IdleFade /\ dmx_data'[u][c] = f.target_value /\ ~IdleFade.active
        BY <3>2, <3>6, BlankTypes
      <4> QED
        BY <4>1 DEF f
    <3>7. CASE ~(g >= f.duration)
      <4>1. fades'[u][c] = f /\ dmx_data'[u][c] = Interpolate(f, g) /\ g < f.duration
        BY <3>2, <3>4, <3>7
      <4>2. Distance(Interpolate(f, g), f.target_value) <= Distance(Interpolate(f, e), f.target_value)
        BY <3>2, <3>5, <4>1, InterpolateSound
      <4>3. f.active
        BY DEF f, ActiveFades
      <4> QED
        BY <3>3, <4>1, <4>2, <4>3 DEF f
    <3> QED
      BY <3>6, <3>7
  <2>2. ASSUME NEW t \in Threads, WriteData(t), local[t].uni \in universes
        PROVE  DOMAIN local[t].writes \cap ActiveFades(local[t].uni) = {}
    <3>1. t = t1 /\ pc[t1] = "write"
      BY <2>2 DEF WriteData, Return, Goto, AloneInv, OthersIdle
    <3> QED
      BY <2>2, <3>1 DEF AloneInv, CallSound
  <2>3. SendApproaches
    BY <2>1 DEF SendApproaches
  <2>4. WriteStands
    BY <2>2 DEF WriteStands
  <2> QED
    BY <2>3, <2>4
<1> QED
  BY <1>1, AloneStart, AloneNext, PTL DEF MCSpec, FadesYield

=============================================================================
