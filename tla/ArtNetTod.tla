------------------------------ MODULE ArtNetTod ------------------------------
(***************************************************************************)
(* The table of RDM devices of an Art-Net output port                      *)
(* (src/libartnet/artnet/tod.c): memory for some devices of which the      *)
(* first "length" are in the table.                                        *)
(***************************************************************************)
EXTENDS Integers, SequencesExt, FiniteSetsExt

CONSTANTS
    ARTNET_TOD_INITIAL_SIZE, ARTNET_TOD_INCREMENT,
    Uids

ASSUME TodAssumption ==
    ARTNET_TOD_INITIAL_SIZE \in Nat \ {0} /\ ARTNET_TOD_INCREMENT \in Nat \ {0}

(* reset_tod and flush_tod: no memory.                                      *)
reset_tod == [data |-> <<>>, length |-> 0]

flush_tod == reset_tod

Listed(tod) == {tod.data[i] : i \in 1 .. tod.length}

(* New memory holds whatever was there before.                              *)
Grown(data, by, before) == data \o [i \in 1 .. by |-> before]

add_tod_uid(tod, uid, before) ==
    LET room == IF tod.data = <<>> THEN Grown(<<>>, ARTNET_TOD_INITIAL_SIZE, before)
                ELSE IF tod.length = Len(tod.data)
                THEN Grown(tod.data, ARTNET_TOD_INCREMENT, before)
                ELSE tod.data IN
    [data |-> [room EXCEPT ![tod.length + 1] = uid], length |-> tod.length + 1]

(* mutant: the table ends before the device that is removed.                *)
RemovesRest(tod, uid, after) ==
    LET Next(i) == IF i < Len(tod.data) THEN tod.data[i + 1] ELSE after
        those == {i \in 1 .. tod.length : Next(i) = uid} IN
    IF those = {} THEN tod ELSE [tod EXCEPT !.length = Min(those)]

(* remove_tod_uid.  The device after the i-th is compared, so the first is  *)
(* not found, and what is behind the last is looked at: what was removed    *)
(* before, or what is behind the memory.                                    *)
remove_tod_uid(tod, uid, after) ==
    LET Next(i) == IF i < Len(tod.data) THEN tod.data[i + 1] ELSE after
        those == {i \in 1 .. tod.length : Next(i) = uid}
        at == Min(those) + 1 IN
    IF those = {} THEN tod
    ELSE [data |-> IF at > Len(tod.data) THEN tod.data
                   ELSE [tod.data EXCEPT ![at] = tod.data[tod.length]],
          length |-> tod.length - 1]
=============================================================================
