---------------------------- MODULE SacnStream ----------------------------
(***************************************************************************)
(* What a universe of an sACN source promises to one who listens to it, on *)
(* an interface or at a unicast address, independently of ticks,           *)
(* suppression, timers, threads and other listeners.  SacnSource           *)
(* implements this specification for each universe and listener.           *)
(***************************************************************************)
EXTENDS Integers, Sequences

CONSTANTS Terminations, SequenceNumbers

VARIABLES
    lossy,     \* may packets be lost on the way out, or interfaces go?
    only,      \* is this the only listener the universe can have?
    phase,     \* off, live, or ending
    contents,  \* the latest levels, per-address priorities, and the label
    number,    \* that of the next packet
    seen       \* the last packet that left, since the stream began

vars == <<lossy, only, phase, contents, number, seen>>

Nothing == [kind |-> "none", seq |-> SequenceNumbers, terminations |-> 0, levels |-> <<>>, pap |-> <<>>,
            label |-> <<>>]

Init == phase = "off" /\ seen = Nothing

(* The listener is added; also while it is still being told that the one    *)
(* before has ended, and to a universe that is ending.                      *)
Begin ==
    /\ phase' \in {"live", "ending"}
    /\ \/ seen' = Nothing
       \/ lossy /\ phase = "off" /\ UNCHANGED seen
    /\ UNCHANGED <<lossy, only>>

(* New contents for one who is told: levels may come back while they are    *)
(* ending.                                                                  *)
Change ==
    /\ phase # "off" /\ phase' \in {phase, "live"}
    /\ phase' # phase => contents'.levels # <<>>
    /\ UNCHANGED <<lossy, only, number, seen>>

After(n) == (n + 1) % SequenceNumbers

Withdraw ==
    /\ phase = "live" /\ phase' = "ending" /\ contents'.levels = contents.levels
    /\ number' = number \/ (~only /\ number' = After(number))
    /\ UNCHANGED <<lossy, only, seen>>

(* A packet has the next number, or that after it when another packet of    *)
(* the tick, which may be for others, had the first; the numbers are not    *)
(* used again.                                                              *)
Numbered == seen'.seq = number \/ (~only /\ seen'.seq = After(number))

NumberTaken ==
    \/ number' = After(seen'.seq)
    \/ ~only /\ number' = After(After(seen'.seq))

(* Only the latest contents are ever sent.                                  *)
Send ==
    /\ phase = "live" /\ contents.levels # <<>>
    /\ \/ Numbered
       \/ /\ seen'.seq = After(number) /\ seen'.levels = contents.levels
          /\ contents.pap # <<>> /\ seen'.pap = contents.pap
    /\ NumberTaken
    /\ seen'.kind = "data" /\ seen'.terminations = 0 /\ seen'.label = contents.label
    /\ seen'.levels \in {seen.levels, contents.levels}
    /\ seen'.pap \in {seen.pap, contents.pap}
    /\ \/ seen'.levels = contents.levels
       \/ contents.pap # <<>> /\ seen'.pap = contents.pap
    /\ UNCHANGED <<lossy, only, phase, contents>>

(* A packet with another start code.                                        *)
SendOther ==
    /\ phase # "off" /\ Numbered /\ NumberTaken
    /\ seen' = [seen EXCEPT !.seq = seen'.seq]
    /\ UNCHANGED <<lossy, only, phase, contents>>

(* Numbers are taken by packets for others, if there are others: a packet   *)
(* that reaches nobody takes none.                                          *)
Others ==
    /\ ~only
    /\ number' \in {After(number), After(After(number))}
    /\ UNCHANGED <<lossy, only, phase, contents, seen>>

(* One of the termination packets.                                          *)
Terminated ==
    /\ contents.levels # <<>> /\ Numbered
    /\ seen'.kind = "terminated"
    /\ seen'.terminations = IF seen.terminations < Terminations
                            THEN seen.terminations + 1 ELSE Terminations

Terminate ==
    /\ phase # "off" /\ phase' = "ending" /\ Terminated /\ NumberTaken
    /\ UNCHANGED <<lossy, only, contents>>

(* The stream ends; the listener may stay, for levels to come.  One who has *)
(* seen data has seen all termination packets.                              *)
End ==
    /\ phase \in {"live", "ending"}
    /\ \/ phase' = "off"
       \/ phase' = "live" /\ contents'.levels = <<>>
    /\ \/ Terminated /\ (phase' = "live" => NumberTaken)
       \/ UNCHANGED seen /\ (phase' = "live" /\ only => number' = number)
    /\ \/ lossy \/ contents.levels = <<>>
       \/ seen'.kind = "none" \/ seen'.terminations = Terminations
    /\ UNCHANGED <<lossy, only>>

(* The source or the universe is replaced by a new one that the listener is *)
(* not told of; or one that is not there for it changes.                    *)
Elsewhere ==
    /\ phase' = "off" /\ UNCHANGED <<lossy, only>>
    /\ \/ phase = "off" /\ UNCHANGED seen
       \/ phase # "live" /\ seen' = Nothing

Next == \/ Begin \/ Change \/ Withdraw \/ Send \/ SendOther \/ Others
        \/ Terminate \/ End \/ Elsewhere

Spec == Init /\ [][Next]_vars
=============================================================================
