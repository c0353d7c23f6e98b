--------------------------- MODULE MCDMXInstance ---------------------------
(***************************************************************************)
(* Small instances of DMXInstance for TLC.  A scenario, chosen once, says   *)
(* which threads call, with which arguments, and whether they send again    *)
(* and again.                                                               *)
(***************************************************************************)
EXTENDS DMXInstance, TLC

CONSTANTS t1, t2, Scenarios

ASSUME ScenariosAssumption == t1 \in Threads

VARIABLES
    scenario,
    missed,   \* the universes that universe(u) created beside a running source
    stopped   \* has the last priority() of the running source stopped early?

mcvars == <<scenario, missed, stopped, vars>>

(* One thread, as ChucK's VM calls the plugin, over the three protocols.    *)
Switching ==
    [threads |-> {t1}, universes |-> {1, 2}, protocols |-> {"Serial", "sACN", "ArtNet"},
     priorities |-> {100, 50}, names |-> {"short", "long"}, sends |-> TRUE]

(* One thread with universes of two Art-Net subnets, more than the ports.   *)
Mapping ==
    [threads |-> {t1}, universes |-> {1, 2, 3, 17}, protocols |-> {"ArtNet"},
     priorities |-> {100}, names |-> {"short"}, sends |-> TRUE]

(* Two threads over Art-Net.                                                *)
Sharing ==
    [threads |-> {t1, t2}, universes |-> {1, 2}, protocols |-> {"ArtNet"},
     priorities |-> {100}, names |-> {"short"}, sends |-> FALSE]

(* Two threads that change an sACN source.                                  *)
Renaming ==
    [threads |-> {t1, t2}, universes |-> {1}, protocols |-> {"sACN"},
     priorities |-> {100}, names |-> {"short", "long"}, sends |-> FALSE]

MCThreads == {t1, t2}
MCScenarios == {Switching, Mapping, Sharing, Renaming}

MCSwitching == {Switching}

(* A step keeps to the scenario.                                            *)
Within(t) ==
    /\ universes' \subseteq scenario.universes
    /\ local'[t].uni \in scenario.universes \cup {0}
    /\ protocol' # protocol => protocol' \in scenario.protocols
    /\ serial_port' = NoPort \/ "Serial" \in scenario.protocols
    /\ {sacn_priority', local'[t].priority} \subseteq scenario.priorities
    /\ {source_name', local'[t].name} \subseteq scenario.names

MCInit ==
    /\ Init
    /\ scenario \in Scenarios
    /\ missed = {}
    /\ stopped = FALSE

(* The history of the running source: what universe(u) does not tell it     *)
(* (DMX.cpp:483), and how its last priority() ended (DMX.cpp:610).  A new    *)
(* source starts with neither.                                              *)
Creates == \E t \in Threads : pc[t] # "activate" /\ pc'[t] = "activate"

EndsPriority(t) == pc[t] = "priority" /\ pc'[t] = "idle"

Marked ==
    /\ missed' = IF ~source'.up THEN {}
                 ELSE IF Creates THEN missed \cup (universes' \ universes)
                 ELSE missed \cap universes'
    /\ stopped' = /\ source'.up
                  /\ IF \E t \in Threads : EndsPriority(t)
                     THEN \E t \in Threads :
                             EndsPriority(t) /\ ~(local[t].keys \subseteq DOMAIN source.live)
                     ELSE stopped

MCNext ==
    /\ UNCHANGED scenario
    /\ \/ CooldownElapses
       \/ \E t \in scenario.threads : (Enter(t) \/ Continue(t)) /\ Within(t)
    /\ Marked

(* A call that has begun goes on, and a mutex that is free again and again  *)
(* is granted in the end.  Where the scenario says so send() is called      *)
(* again and again, as its documentation asks, and the cooldown passes.     *)
MCSpec ==
    /\ MCInit /\ [][MCNext]_mcvars
    /\ WF_vars(scenario.sends /\ CooldownElapses)
    /\ SF_vars(scenario.sends /\ SendState(t1))
    /\ \A t \in Threads : SF_vars(Continue(t))

-----------------------------------------------------------------------------
(* What two threads on one object can break.                                *)

Alone == scenario.threads = {t1}

(* With one thread, a universe goes to no address but its own.              *)
FramesRightAlone == Alone => FramesReachTheirUniverse

(* With one thread, a running source has the universes of the object but     *)
(* those that universe(u) created beside it, the priority of the object     *)
(* unless priority() stopped at one of those, and no Art-Net node is on      *)
(* beside it.                                                               *)
SourceRightAlone ==
    Alone =>
        /\ Idle /\ "sACN" \in initialized => DOMAIN source.live = universes \ missed
        /\ ~stopped => PrioritiesAgree
        /\ OneProtocolUp

(* A call returns, whatever the other thread does: the order of the locks   *)
(* (send_mutex before state_mutex) leaves no two threads waiting for each   *)
(* other, and every path out of a call releases what it holds.  The two     *)
(* threads are alike.                                                       *)
CallsReturn == pc[t1] # "idle" ~> pc[t1] = "idle"

(* send() tries to open a closed serial port again whenever the cooldown    *)
(* is over: it never stays closed with the cooldown long past.              *)
SerialRetried ==
    []<>(scenario.sends => open_port # NoPort \/ ~cooled_down \/ protocol # "Serial")
=============================================================================
