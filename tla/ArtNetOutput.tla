---------------------------- MODULE ArtNetOutput ----------------------------
(***************************************************************************)
(* An output port of an Art-Net node (src/libartnet/artnet/receive.c): the *)
(* levels of two sources at most are merged, what a port has not heard of  *)
(* for MERGE_TIMEOUT_SECONDS is forgotten.  Times are ages: the whole      *)
(* seconds since the time the code stores.                                 *)
(***************************************************************************)
EXTENDS Integers, FiniteSetsExt, SequencesExt

CONSTANTS
    MERGE_TIMEOUT_SECONDS,
    ARTNET_DMX_LENGTH,
    Levels,
    NoIp           \* the address 0

ASSUME OutputAssumption ==
    /\ MERGE_TIMEOUT_SECONDS \in Nat /\ ARTNET_DMX_LENGTH \in Nat \ {0}
    /\ Levels \subseteq Nat /\ 0 \in Levels

Slots == 1 .. ARTNET_DMX_LENGTH

NoLevels == [i \in Slots |-> 0]

(* An age of a second more than the time-out stands for all above.          *)
OldAge == MERGE_TIMEOUT_SECONDS + 1

(* The merge part of output_port_t, as artnet_new leaves it: the times are  *)
(* those of the epoch.                                                      *)
NewMerge ==
    [merge_mode |-> "HTP", length |-> 0, data |-> NoLevels, dataA |-> NoLevels,
     dataB |-> NoLevels, ipA |-> NoIp, ipB |-> NoIp, ageA |-> OldAge, ageB |-> OldAge]

OlderOutput(port) ==
    [port EXCEPT !.ageA = IF @ < OldAge THEN @ + 1 ELSE @,
                 !.ageB = IF @ < OldAge THEN @ + 1 ELSE @]

(* memcpy of the levels of a packet: the slots it has not are left alone.   *)
Copied(levels, p) == [i \in Slots |-> IF i <= p.length THEN p.levels[i] ELSE levels[i]]

(* mutant: the second source is never forgotten.                            *)
KeepsB(port) ==
    [port EXCEPT !.ipA = IF port.ageA > MERGE_TIMEOUT_SECONDS THEN NoIp ELSE @]

check_merge_timeouts(port) ==
    [port EXCEPT !.ipA = IF port.ageA > MERGE_TIMEOUT_SECONDS THEN NoIp ELSE @,
                 !.ipB = IF port.ageB > MERGE_TIMEOUT_SECONDS THEN NoIp ELSE @]

(* Highest takes precedence, or the latest does.                            *)
merge(port, length, latest) ==
    [port EXCEPT !.data = [i \in Slots |->
        IF i > length THEN @[i]
        ELSE IF port.merge_mode = "HTP" THEN Max({port.dataA[i], port.dataB[i]})
        ELSE latest[i]]]

TakenA(port, p) ==
    [port EXCEPT !.ageA = 0, !.dataA = Copied(@, p), !.length = p.length]

TakenB(port, p) ==
    [port EXCEPT !.ageB = 0, !.dataB = Copied(@, p), !.length = p.length]

Alone(port, p) == [port EXCEPT !.data = Copied(@, p)]

(* What handle_dmx does for one port that a packet is for.  The case is     *)
(* chosen by the addresses the port had before the time-outs were looked    *)
(* at; with only the second source left, one more is not taken.             *)
Output(port, p) ==
    LET A == port.ipA
        B == port.ipB
        t == check_merge_timeouts(port) IN
    CASE A = NoIp /\ B = NoIp             -> [Alone(TakenA(t, p), p) EXCEPT !.ipA = p.from]
      [] A = p.from /\ B = NoIp           -> Alone(TakenA(t, p), p)
      [] A = NoIp /\ B = p.from           -> Alone(TakenB(t, p), p)
      [] A \notin {NoIp, p.from} /\ B = NoIp ->
            LET b == [TakenB(t, p) EXCEPT !.ipB = p.from] IN merge(b, p.length, b.dataB)
      [] A = p.from /\ B \notin {NoIp, p.from} ->
            LET a == TakenA(t, p) IN merge(a, p.length, a.dataA)
      [] A \notin {NoIp, p.from} /\ B = p.from ->
            LET b == TakenB(t, p) IN merge(b, p.length, b.dataB)
      [] OTHER                            -> t
=============================================================================
