---------------------------- MODULE SacnLibrary ----------------------------
(***************************************************************************)
(* Initialization of the sACN library: sacn_init_features() and            *)
(* sacn_deinit_features() of src/sACN/src/sacn/common.c.  The network      *)
(* features are initialized together, the DMX merger apart; each of the    *)
(* two has a counter of its own.                                           *)
(*                                                                         *)
(* outstanding is a history variable: the calls of sacn_init_features()    *)
(* that succeeded and were not followed by their sacn_deinit_features().   *)
(***************************************************************************)
EXTENDS Integers

CONSTANT MaxOutstanding   \* calls outstanding of each kind, for TLC

VARIABLES
    counts,      \* all_network_features_init_count, dmx_merger_feature_init_count
    up,          \* which features are initialized
    outstanding

vars == <<counts, up, outstanding>>

Features == {"network", "merger"}

FeatureSets == (SUBSET Features) \ {{}}

Init ==
    /\ counts = [f \in Features |-> 0]
    /\ up = {}
    /\ outstanding = [F \in FeatureSets |-> 0]

(* The features that a call has to initialize: Redundant ones are counted   *)
(* only.                                                                    *)
ToInit(F) == {f \in F : counts[f] = 0}

InitFeatures(F) ==
    /\ up' = up \cup ToInit(F)
    /\ counts' = [f \in Features |-> IF f \in F THEN counts[f] + 1 ELSE counts[f]]

(* A part fails to initialize: those initialized before it are undone.      *)
InitFeaturesFails(F) ==
    /\ ToInit(F) # {}
    /\ UNCHANGED <<counts, up>>

ToDeinit(F) == {f \in F : counts[f] = 1}

(* The counters a call decrements.  For the merger the code looks at the    *)
(* features of the call, for the network at those it has deinitialized.     *)
Decremented(F) ==
    {f \in F : f = "merger" /\ counts[f] > 0} \cup {f \in ToDeinit(F) : f = "network"}

DeinitFeatures(F) ==
    /\ up' = up \ ToDeinit(F)
    /\ counts' = [f \in Features |->
                    IF f \in Decremented(F) THEN counts[f] - 1 ELSE counts[f]]

-----------------------------------------------------------------------------
(* Any client that calls deinit as often as init, feature by feature.       *)

sacn_init_features(F) ==
    /\ outstanding[F] < MaxOutstanding
    /\ \/ InitFeatures(F) /\ outstanding' = [outstanding EXCEPT ![F] = @ + 1]
       \/ InitFeaturesFails(F) /\ UNCHANGED outstanding

sacn_deinit_features(F) ==
    /\ outstanding[F] > 0
    /\ DeinitFeatures(F)
    /\ outstanding' = [outstanding EXCEPT ![F] = @ - 1]

Next == \E F \in FeatureSets : sacn_init_features(F) \/ sacn_deinit_features(F)

Spec == Init /\ [][Next]_vars

-----------------------------------------------------------------------------

=============================================================================
