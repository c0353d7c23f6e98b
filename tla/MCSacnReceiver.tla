--------------------------- MODULE MCSacnReceiver ---------------------------
(* Three networks, for what takes two sources, a source too many, and two   *)
(* interfaces.                                                              *)
EXTENDS SacnReceiver

MCNetworks == {
    [netints |-> {1}, source_count_max |-> 2, previews |-> {},
     sends |-> <<{"dmx", "pap", "end"}, {"dmx"}>>, reaches |-> <<{1}, {1}>>],
    [netints |-> {1}, source_count_max |-> 1, previews |-> {2},
     sends |-> <<{"dmx"}, {"dmx", "other"}>>, reaches |-> <<{1}, {1}>>],
    [netints |-> {1, 2}, source_count_max |-> 1, previews |-> {},
     sends |-> <<{"dmx", "end"}>>, reaches |-> <<{1, 2}>>]}
=============================================================================
