--------------------------- MODULE MCSacnSockets ---------------------------
(* Instances of SacnSockets for TLC.                                        *)
EXTENDS SacnSockets

MCIpTypes == {4, 6}
MCNetints == {<<4, 1>>, <<4, 2>>, <<6, 1>>}

(* Receivers that share sockets come and go, the library too.               *)
Sharing ==
    [handles |-> {1, 2, 3}, universes |-> {1, 2, 3}, netints |-> {<<4, 1>>}, configs |-> {},
     types |-> {{4}}, workings |-> {}, changes |-> FALSE, ends |-> TRUE]

(* A receiver and the source detector on two types, with resets.            *)
Resetting ==
    [handles |-> {1, Detector}, universes |-> {1}, netints |-> MCNetints,
     configs |-> {{}, {<<4, 1>>}}, types |-> {{4, 6}},
     workings |-> {{}, {<<4, 1>>, <<6, 1>>}, {<<4, 1>>, <<4, 2>>}}, changes |-> FALSE,
     ends |-> FALSE]

(* Receivers whose universes are changed.                                   *)
Changing ==
    [handles |-> {1, 2}, universes |-> {1, 2, 3}, netints |-> {<<4, 1>>}, configs |-> {},
     types |-> {{4}}, workings |-> {}, changes |-> TRUE, ends |-> FALSE]

MCScenarios == {Sharing, Resetting, Changing}

(* One at a time, to see how large each is.                                 *)
MCSharing == {Sharing}
MCResetting == {Resetting}
MCChanging == {Changing}
=============================================================================
