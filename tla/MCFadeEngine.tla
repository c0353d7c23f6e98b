--------------------------- MODULE MCFadeEngine ---------------------------
(***************************************************************************)
(* Small instances of FadeEngine for TLC.  A scenario, chosen once, says    *)
(* which threads call, with which arguments, and when the clock stops: not  *)
(* before the fades it allows are over.                                     *)
(***************************************************************************)
EXTENDS FadeEngine, TLC

CONSTANTS t1, t2, Scenarios

ASSUME ScenarioAssumption == t1 \in Threads

VARIABLE scenario

mcvars == <<scenario, vars>>

(* One thread, as ChucK's VM calls the plugin, and two channels.            *)
Fading ==
    [threads |-> {t1}, universes |-> {1}, channels |-> {1, 2}, inputs |-> {0, 3},
     durations |-> {0, 2}, until |-> 3]

(* One thread, and universes that come and go under the fades.              *)
Moving ==
    [threads |-> {t1}, universes |-> {1, 2}, channels |-> {1}, inputs |-> {0, 3},
     durations |-> {0, 2}, until |-> 3]

(* Two threads with fades on two universes.                                 *)
Sharing ==
    [threads |-> {t1, t2}, universes |-> {1, 2}, channels |-> {1}, inputs |-> {3},
     durations |-> {0, 1}, until |-> 2]

(* Two threads and more universes than the map may have.                    *)
Crowding ==
    [threads |-> {t1, t2}, universes |-> {1, 2, 3}, channels |-> {}, inputs |-> {},
     durations |-> {0}, until |-> 0]

MCThreads == {t1, t2}
MCScenarios == {Fading, Moving, Sharing, Crowding}

(* A step keeps to the scenario.                                            *)
Within(t) ==
    /\ universes' \subseteq scenario.universes
    /\ local'[t].uni \in scenario.universes \cup {0}
    /\ local'[t].duration \in scenario.durations
    /\ DOMAIN (local'[t].writes) \subseteq scenario.channels
    /\ \A c \in DOMAIN (local'[t].writes) : local'[t].writes[c] \in scenario.inputs

MCInit == Init /\ scenario \in Scenarios

MCNext ==
    /\ UNCHANGED scenario
    /\ \/ now < scenario.until /\ Tick
       \/ \E t \in scenario.threads : (Enter(t) \/ Continue(t)) /\ Within(t)

(* A call that has begun goes on, every thread calls send() again and       *)
(* again, as the documentation of send() asks, and time passes.             *)
MCSpec ==
    /\ MCInit /\ [][MCNext]_mcvars
    /\ WF_vars(now < scenario.until /\ Tick)
    /\ \A t \in Threads :
          WF_vars(Continue(t)) /\ SF_vars(t \in scenario.threads /\ Send(t))

-----------------------------------------------------------------------------
(* What two threads on one object can break.                                *)

Alone == scenario.threads = {t1}

(* With one thread, a fading channel shows what its fade gives at a time    *)
(* that has passed, never a value outside its endpoints; there is always a  *)
(* universe, and the active one is in the map.                              *)
SoundAlone ==
    Alone => /\ FadeOnCourse /\ FadeWithinEndpoints
             /\ UniverseRemains /\ ActiveUniverseExists

(* With one thread, send() never moves a channel away from its fade's       *)
(* target, and no fade goes on under a value written directly.              *)
FadesYield == [][Alone => SendApproaches /\ WriteStands]_vars

(* Every fade ends when send() keeps being called, whatever other calls     *)
(* start, cancel or restart fades and add or remove universes meanwhile.    *)
(* Only these are faded in the scenarios.                                   *)
FadesEnd ==
    \A f \in {<<1, 1>>, <<1, 2>>, <<2, 1>>} :
        fades[f[1]][f[2]].active ~> ~fades[f[1]][f[2]].active
=============================================================================
