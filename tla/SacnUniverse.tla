---------------------------- MODULE SacnUniverse ----------------------------
(***************************************************************************)
(* One universe of an sACN source, as the functions of the library in      *)
(* src/sACN/src/sacn work on it (source_state.c, mem/source/).  Operators  *)
(* take a universe and return it changed, with the packets that left.      *)
(*                                                                         *)
(* A listener is a network interface, that stands for those who receive    *)
(* multicast there, or a unicast address; both are <<ip type, number>>.    *)
(***************************************************************************)
EXTENDS Integers, Sequences, FiniteSets, Functions, SequencesExt

CONSTANTS
    NUM_PRE_SUPPRESSION_PACKETS,  \* 4 in the code
    Terminations,                 \* termination packets, 3 in the code
    SequenceNumbers               \* how many there are, 256 in the code

ASSUME UniverseAssumption ==
    /\ NUM_PRE_SUPPRESSION_PACKETS \in Nat \ {0} /\ Terminations \in Nat \ {0}
    /\ SequenceNumbers \in Nat \ {0}

Type(listener) == listener[1]

One(condition) == IF condition THEN 1 ELSE 0

(* add_sacn_unicast_dest.                                                   *)
NewDest(addr) == [addr |-> addr, state |-> "live", num |-> 0]

(* add_sacn_source_universe.  A buffer without data is empty; due stands    *)
(* for a keep-alive timer that has expired.                                 *)
NewUniverse(config, name, netints) ==
    [state |-> "live", num |-> 0, seq |-> 0,
     label |-> [priority |-> config.priority, preview |-> config.preview, name |-> name],
     levels |-> <<>>, pap |-> <<>>, force_sync |-> FALSE,
     sent |-> [levels |-> 0, pap |-> 0], due |-> [levels |-> FALSE, pap |-> FALSE],
     unicast_only |-> config.unicast_only, netints |-> netints,
     dests |-> [i \in DOMAIN config.dests |-> NewDest(config.dests[i])]]

(* IS_PART_OF_UNIVERSE_DISCOVERY.                                           *)
IsPart(u) == u.levels # <<>> /\ ~u.unicast_only

(* get_unicast_dest_index, 0 when it is not found.                          *)
DestIndex(u, addr) == SelectInSeq(u.dests, LAMBDA d : d.addr = addr)

(* get_source_unicast_dests.                                                *)
get_source_unicast_dests(u) == SelectSeq(u.dests, LAMBDA d : d.state # "removing")

-----------------------------------------------------------------------------
(* Termination and suppression.                                             *)

(* set_unicast_dest_terminating; a removal in progress goes on.             *)
SetTerminating(x, behavior) ==
    [x EXCEPT !.num = IF x.state = "live" THEN 0 ELSE @,
              !.state = IF @ = "removing" THEN @ ELSE behavior]

set_universe_terminating(u, behavior) ==
    [SetTerminating(u, behavior) EXCEPT
       !.dests = [i \in DOMAIN @ |-> SetTerminating(@[i], behavior)]]

(* reset_unicast_dest.                                                      *)
Reset(x) == [x EXCEPT !.state = "live", !.num = 0]

reset_universe(u) == [Reset(u) EXCEPT !.levels = <<>>, !.pap = <<>>]

cancel_termination_if_not_removing(u) ==
    IF u.state # "ending" THEN u
    ELSE [Reset(u) EXCEPT
            !.dests = [i \in DOMAIN @ |-> IF @[i].state = "ending" THEN Reset(@[i]) ELSE @[i]]]

(* mutant: the packets after a change are not sent again.                   *)
StillSuppressed(u, buffers) == [u EXCEPT !.due = [b \in DOMAIN @ |-> @[b] /\ b \notin buffers]]

reset_transmission_suppression(u, buffers) ==
    [u EXCEPT !.sent = [b \in DOMAIN @ |-> IF b \in buffers THEN 0 ELSE @[b]],
              !.due = [b \in DOMAIN @ |-> @[b] /\ b \notin buffers]]

Both == {"levels", "pap"}

(* finish_unicast_dest_termination.                                         *)
FinishDest(u, i) ==
    IF u.dests[i].state = "removing" THEN [u EXCEPT !.dests = RemoveAt(@, i)]
    ELSE [u EXCEPT !.dests[i] = Reset(@)]

Downward(n) == [k \in 1 .. n |-> n + 1 - k]

FinishDests(u) == FoldLeft(FinishDest, u, Downward(Len(u.dests)))

-----------------------------------------------------------------------------
(* What the application gives.                                              *)

zero_levels_where_pap_is_zero(levels, pap) ==
    [i \in DOMAIN levels |-> IF i > Len(pap) THEN 0 ELSE IF pap[i] = 0 THEN 0 ELSE levels[i]]

update_levels(u, levels, force_sync) ==
    reset_transmission_suppression(
        [cancel_termination_if_not_removing(u) EXCEPT
           !.force_sync = force_sync,
           !.levels = IF u.pap = <<>> THEN levels
                      ELSE zero_levels_where_pap_is_zero(levels, u.pap)],
        {"levels"})

update_pap(u, pap) == reset_transmission_suppression([u EXCEPT !.pap = pap], {"pap"})

(* update_levels_and_or_pap: the levels are zeroed by the new priorities.   *)
update_levels_and_or_pap(u, levels, pap, force_sync) ==
    update_levels(IF pap = <<>> THEN u ELSE update_pap(u, pap), levels, force_sync)

disable_pap_data(u) == [u EXCEPT !.pap = <<>>]

(* sacn_source_update_levels and its variant that forces synchronization;   *)
(* no levels is the end of them.                                            *)
LevelsUpdated(u, levels, force_sync) ==
    IF levels = <<>> THEN disable_pap_data(set_universe_terminating(u, "ending"))
    ELSE update_levels_and_or_pap(u, levels, <<>>, force_sync)

(* The variants with per-address priorities.                                *)
LevelsAndPapUpdated(u, levels, pap, force_sync) ==
    IF levels = <<>> THEN disable_pap_data(set_universe_terminating(u, "ending"))
    ELSE update_levels_and_or_pap(IF pap = <<>> THEN disable_pap_data(u) ELSE u,
                                  levels, pap, force_sync)

(* set_universe_priority, set_preview_flag, and set_source_name.            *)
set_universe_priority(u, priority) ==
    reset_transmission_suppression([u EXCEPT !.label.priority = priority], Both)

set_preview_flag(u, preview) ==
    reset_transmission_suppression([u EXCEPT !.label.preview = preview], Both)

Renamed(u, name) == reset_transmission_suppression([u EXCEPT !.label.name = name], Both)

-----------------------------------------------------------------------------
(* Sending.  The network: those who can be reached now, and the IP types of *)
(* the source.  For an interface of another type nothing leaves, and that   *)
(* counts as sent.                                                          *)

(* mutant: a packet that was tried has left.                                *)
Tried(targets, net) ==
    [to |-> {t \in targets \cap net.up : Type(t) \in net.types},
     left |-> targets # {},
     all |-> targets \subseteq net.up \cup {t \in targets : Type(t) \notin net.types}]

Multicast(targets, net) ==
    LET other == {t \in targets : Type(t) \notin net.types} IN
    [to |-> (targets \cap net.up) \ other,
     left |-> targets \cap (net.up \cup other) # {},
     all |-> targets \subseteq net.up \cup other]

Unicast(targets, net) ==
    LET to == {t \in targets \cap net.up : Type(t) \in net.types} IN
    [to |-> to, left |-> to # {}, all |-> to = targets]

NothingSent == [to |-> {}, left |-> FALSE, all |-> TRUE]

send_universe_multicast(u, net) == Multicast(IF u.unicast_only THEN {} ELSE u.netints, net)

LiveDests(u) == {u.dests[i].addr : i \in {i \in DOMAIN u.dests : u.dests[i].state = "live"}}

send_universe_unicast(u, net) == Unicast(LiveDests(u), net)

Packet(kind, u, seq, to) ==
    [kind |-> kind, seq |-> seq % SequenceNumbers, to |-> to,
     levels |-> u.levels, pap |-> u.pap, label |-> u.label]

PacketIf(condition, packet) == IF condition THEN <<packet>> ELSE <<>>

(* Multicast first; unicast only when nothing of that has failed.           *)
SentBoth(u, net) ==
    LET multi == send_universe_multicast(u, net)
        uni == IF multi.all THEN send_universe_unicast(u, net) ELSE NothingSent IN
    [to |-> multi.to \cup uni.to, left |-> multi.left \/ uni.left, all |-> multi.all /\ uni.all]

(* increment_sequence_number, for the kinds of packets that left.           *)
increment_sequence_number(u, levels, pap) ==
    [u EXCEPT !.seq = (@ + One(levels) + One(pap)) % SequenceNumbers]

(* mutant: no keep-alive.                                                   *)
NeverAgain(u, buffer) == u[buffer] # <<>> /\ u.sent[buffer] < NUM_PRE_SUPPRESSION_PACKETS

(* The conditions of transmit_levels_and_pap_when_needed.                   *)
IsNeeded(u, buffer) ==
    /\ u[buffer] # <<>>
    /\ u.sent[buffer] < NUM_PRE_SUPPRESSION_PACKETS \/ u.due[buffer]

(* What is counted and reset whether or not the packet left.                *)
Counted(u, buffer) ==
    [u EXCEPT !.sent[buffer] = IF @ < NUM_PRE_SUPPRESSION_PACKETS THEN @ + 1 ELSE @,
              !.due[buffer] = FALSE]

(* transmit_levels_and_pap_when_needed; before tells that a packet with the *)
(* number of the levels has left already in this tick.                      *)
Transmitted(u, mode, before, net) ==
    LET needed == {b \in mode : IsNeeded(u, b)}
        sends(b, ok) == IF b \in needed /\ ok THEN SentBoth(u, net) ELSE NothingSent
        levels == sends("levels", TRUE)
        pap == sends("pap", levels.all)
        taken == before \/ levels.left IN
    [u |-> FoldSet(LAMBDA b, v : Counted(v, b), u, needed),
     ok |-> levels.all /\ pap.all, ends |-> FALSE, levels |-> taken, pap |-> pap.left,
     out |-> PacketIf(levels.to # {}, Packet("levels", u, u.seq, levels.to))
             \o PacketIf(pap.to # {}, Packet("pap", u, u.seq + One(taken), pap.to))]

-----------------------------------------------------------------------------
(* The termination packets of a destination; waiting means that it still    *)
(* owes some.  After one that failed no other is sent in this pass.         *)
DestProcessed(done, i, net) ==
    LET dest == done.u.dests[i]
        sends == dest.num < Terminations /\ done.u.levels # <<>> /\ done.ok
        sent == IF sends THEN Unicast({dest.addr}, net) ELSE NothingSent
        u == IF sends THEN [done.u EXCEPT !.dests[i].num = @ + 1] ELSE done.u
        over == u.dests[i].num >= Terminations \/ u.levels = <<>> IN
    IF dest.state = "live" THEN done
    ELSE [u |-> IF over THEN FinishDest(u, i) ELSE u,
          ok |-> done.ok /\ sent.all, waiting |-> done.waiting \/ ~over,
          left |-> done.left \/ sent.left, to |-> done.to \cup sent.to]

process_unicast_termination(u, net) ==
    FoldLeft(LAMBDA done, i : DestProcessed(done, i, net),
             [u |-> u, ok |-> TRUE, waiting |-> FALSE, left |-> FALSE, to |-> {}],
             Downward(Len(u.dests)))

(* mutant: a universe without levels waits for packets it does not send.    *)
OnlyWhenTold(u, unicast_terminating) == u.num >= Terminations /\ ~unicast_terminating

(* The condition at the end of process_multicast_termination.               *)
IsOver(u, unicast_terminating) ==
    \/ u.num >= Terminations /\ ~unicast_terminating
    \/ u.levels = <<>>

(* process_multicast_termination; ends: the termination is to be finished.  *)
process_multicast_termination(u, unicast_terminating, before, net) ==
    LET sends == u.num < Terminations /\ u.levels # <<>>
        sent == IF sends THEN send_universe_multicast(u, net) ELSE NothingSent
        counted == IF sends THEN [u EXCEPT !.num = @ + 1] ELSE u IN
    [u |-> counted, ok |-> sent.all, ends |-> IsOver(counted, unicast_terminating),
     levels |-> before \/ sent.left, pap |-> FALSE,
     out |-> PacketIf(sent.to # {}, Packet("terminated", u, u.seq, sent.to))]

LeftAlone(u, ok, before) ==
    [u |-> u, ok |-> ok, ends |-> FALSE, levels |-> before, pap |-> FALSE, out |-> <<>>]

(* What follows the unicast terminations of the universe.                   *)
AfterUnicast(ended, mode, net) ==
    IF ~ended.ok THEN LeftAlone(ended.u, FALSE, ended.left)
    ELSE IF ended.u.state = "live" THEN Transmitted(ended.u, mode, ended.left, net)
    ELSE IF "levels" \notin mode THEN LeftAlone(ended.u, TRUE, FALSE)
    ELSE process_multicast_termination(ended.u, ended.waiting, ended.left, net)

Together(u, ended, rest) ==
    [u |-> increment_sequence_number(rest.u, rest.levels, rest.pap),
     ok |-> rest.ok, ends |-> rest.ends,
     out |-> PacketIf(ended.to # {}, Packet("terminated", u, u.seq, ended.to)) \o rest.out]

(* The body of the loop of process_universes; ok is what the universes      *)
(* before left of it.  Terminations and levels of a tick share a number.    *)
WithUnicast(u, ended, mode, net) == Together(u, ended, AfterUnicast(ended, mode, net))

Processed(u, mode, ok, net) ==
    WithUnicast(u, IF "levels" \in mode THEN process_unicast_termination(u, net)
                   ELSE [u |-> u, ok |-> ok, waiting |-> FALSE, left |-> FALSE, to |-> {}],
                mode, net)
=============================================================================
