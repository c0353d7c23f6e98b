---------------------------- MODULE SacnReceiver ----------------------------
(***************************************************************************)
(* One sACN receiver (src/sACN/src/sacn/receiver.c, receiver_state.c and   *)
(* mem/receiver): the sources it tracks on its universe, how it decides    *)
(* that one is new, has per-address priorities, lost them or is lost, its  *)
(* sampling periods, and the notifications it gives to the application.    *)
(*                                                                         *)
(* The receive thread handles a packet or, periodically, all sources:      *)
(* under the receiver lock it changes the receiver and collects            *)
(* notifications, then it releases that lock and delivers them one by one, *)
(* under the callback lock.  The application's calls change_universe and   *)
(* reset_networking take the receiver lock only, so they happen between    *)
(* collecting and delivering too; destroy takes both.                      *)
(*                                                                         *)
(* Time passes in units (Tick); a timer is the units it has left.          *)
(***************************************************************************)
EXTENDS Integers, Sequences, FiniteSets, Functions, SourceLoss

CONSTANTS
    Networks,            \* the networks the receiver may be on
    Seqs,                \* the sequence numbers packets carry
    FilterPreview,       \* filter_preview_data
    SourceLossTimeout,   \* kSacnSourceLossTimeout, 2500 ms
    WaitForPriority,     \* kSacnWaitForPriority, 1500 ms
    SampleTime,          \* kSacnSampleTime, 1500 ms
    ExpiredWait          \* expired_wait, 1000 ms unless the application sets it

(* Of a network: its interfaces; what its sources, known by their handles,  *)
(* send, and whether as a preview; on which interfaces; and how many of     *)
(* them the application wants at most.                                      *)
Kinds == {"dmx", "pap", "other", "end"}

ASSUME NetworksAssumption == \A net \in Networks :
    /\ DOMAIN net.sends \subseteq Nat
    /\ net.sends \in [DOMAIN net.sends -> SUBSET Kinds]
    /\ net.reaches \in [DOMAIN net.sends -> SUBSET net.netints]
    /\ net.previews \subseteq DOMAIN net.sends
    /\ IsFiniteSet(net.netints) /\ net.source_count_max \in Nat
ASSUME SeqsAssumption == Seqs \subseteq 0 .. 255
ASSUME TimesAssumption ==
    /\ {SourceLossTimeout, WaitForPriority, SampleTime, ExpiredWait} \subseteq Nat \ {0}
    /\ WaitForPriority <= SourceLossTimeout
    /\ FilterPreview \in BOOLEAN

VARIABLES
    network,    \* the one of Networks this is, for good
    created,    \* the application has the receiver
    receiver,   \* SacnReceiver
    due,        \* the thread's periodic_timer has expired
    notes,      \* the notifications collected and not delivered yet
    app         \* what the application was told

Handles == DOMAIN network.sends
Netints == network.netints

vars == <<network, created, receiver, due, notes, app>>

-----------------------------------------------------------------------------
(* Timers.                                                                  *)

Elapse(left) == IF left > 0 THEN left - 1 ELSE 0

IsExpired(left) == left = 0

-----------------------------------------------------------------------------
(* The sources.                                                             *)

Without(sources, handles) == Restrict(sources, DOMAIN sources \ handles)

(* check_sequence, on the difference of the two as integers.  The number    *)
(* of a source's last packet is not kept here, it is any: packets come in   *)
(* order, late or twice at any time.                                        *)
check_sequence(new_seq, old_seq) == new_seq - old_seq > 0 \/ new_seq - old_seq <= -20

(* add_sacn_tracked_source: outside a sampling period a source with levels  *)
(* waits for its priorities.  The priority timer keeps the interval it was  *)
(* started with, which a reset of the timer starts again; in HaveDmxOnly    *)
(* nobody reads it.                                                         *)
NewSource(n, kind, sampling) ==
    [netint |-> n, packet_timer |-> SourceLossTimeout,
     terminated |-> FALSE, dmx_received_since_last_tick |-> TRUE,
     recv_state |-> CASE kind = "pap" -> "HavePapOnly"
                      [] kind = "dmx" /\ sampling -> "HaveDmxOnly"
                      [] kind = "dmx" /\ ~sampling -> "WaitingForPap",
     pap_interval |-> IF ~sampling THEN WaitForPriority
                      ELSE IF kind = "pap" THEN SourceLossTimeout ELSE 0,
     pap_timer |-> IF ~sampling THEN WaitForPriority
                   ELSE IF kind = "pap" THEN SourceLossTimeout ELSE 0]

StartPapTimer(source, interval) ==
    [source EXCEPT !.pap_interval = interval, !.pap_timer = interval]

(* mark_source_terminated.                                                  *)
mark_source_terminated(source) ==
    [source EXCEPT !.terminated = TRUE, !.packet_timer = 0]

(* process_null_start_code: the source after levels.                        *)
process_null_start_code(source) ==
    LET heard == [source EXCEPT !.dmx_received_since_last_tick = TRUE,
                                !.packet_timer = SourceLossTimeout]
        overdue == IsExpired(source.pap_timer) IN
    CASE source.recv_state = "HavePapOnly" ->
            [heard EXCEPT !.recv_state = "HaveDmxAndPap"]
      [] source.recv_state \in {"WaitingForPap", "HaveDmxAndPap"} /\ overdue ->
            StartPapTimer([heard EXCEPT !.recv_state = "HaveDmxOnly"], 0)
      [] OTHER -> heard

(* process_pap: the source after priorities.                                *)
process_pap(source) ==
    IF source.recv_state \in {"WaitingForPap", "HaveDmxOnly"}
    THEN StartPapTimer([source EXCEPT !.recv_state = "HaveDmxAndPap"], SourceLossTimeout)
    ELSE StartPapTimer(source, source.pap_interval)

(* Whether the application is to get the packet.                            *)
Notifies(source, kind) ==
    ~(kind = "dmx" /\ source.recv_state = "WaitingForPap" /\ ~IsExpired(source.pap_timer))

(* mutant: priorities that stop are dropped without a word.                 *)
PapGoesSilently(source, kind) == FALSE

(* mutant: lost are also priorities there never were.                       *)
NeverHad(source, kind) == kind = "dmx" /\ IsExpired(source.pap_timer)

PapLost(source, kind) ==
    kind = "dmx" /\ source.recv_state = "HaveDmxAndPap" /\ IsExpired(source.pap_timer)

-----------------------------------------------------------------------------
(* The sampling period: on which interfaces the receiver samples, now or in *)
(* the period after this one (in_future_sampling_period).                   *)

NextToSample(sp) == {n \in DOMAIN sp : sp[n]}

begin_sampling_period(r) ==
    IF r.sampling THEN r
    ELSE [r EXCEPT !.sampling = TRUE, !.notified_sampling_started = FALSE,
                   !.sample_timer = SampleTime]

(* mutant: in their period too the interfaces are to wait for the next.     *)
StillInFuture(r) ==
    LET rest == [r EXCEPT !.sampling = FALSE,
                          !.sp = [n \in NextToSample(r.sp) |-> TRUE]] IN
    IF NextToSample(r.sp) = {} THEN rest ELSE begin_sampling_period(rest)

end_current_sampling_period(r) ==
    LET rest == [r EXCEPT !.sampling = FALSE,
                          !.sp = [n \in NextToSample(r.sp) |-> FALSE]] IN
    IF NextToSample(r.sp) = {} THEN rest ELSE begin_sampling_period(rest)

(* update_sampling_period_netints: interfaces that are new join, in the     *)
(* next period if one is running; interfaces that went leave a running one. *)
update_sampling_period_netints(r, netints) ==
    LET kept == IF r.sampling THEN DOMAIN r.sp \ (r.netints \ netints) ELSE DOMAIN r.sp
        new == netints \ r.netints IN
    [n \in kept \cup new |-> IF n \in DOMAIN r.sp THEN r.sp[n] ELSE r.sampling]

(* terminate_sources_on_removed_netints.                                    *)
TerminateRemoved(r) ==
    [r EXCEPT !.sources =
        [h \in DOMAIN @ |-> IF @[h].netint \in r.netints THEN @[h]
                            ELSE mark_source_terminated(@[h])]]

-----------------------------------------------------------------------------
(* Notifications.  One that is still pending when the universe changes      *)
(* names the old universe: it is stale.                                     *)

DataNote(h, kind, is_sampling, stray) ==
    [kind |-> kind, source |-> h, is_sampling |-> is_sampling, stray |-> stray,
     stale |-> FALSE]
ListNote(kind, lost) == [kind |-> kind, lost |-> lost, stale |-> FALSE]
Note(kind) == [kind |-> kind, stale |-> FALSE]

When(condition, note) == IF condition THEN <<note>> ELSE <<>>

-----------------------------------------------------------------------------
(* The application.                                                         *)

(* known: the sources whose levels or priorities it has, pap: those whose   *)
(* priorities it has, sampled: those whose data it got as part of a         *)
(* sampling period, stray: those heard on an interface the receiver does    *)
(* not use any more.  After a call that failed it has to destroy the        *)
(* receiver, and listens no more (receiver.c:260, 355).                     *)
NothingTold ==
    [known |-> {}, pap |-> {}, sampled |-> {}, stray |-> {},
     sampling |-> FALSE, failed |-> FALSE]
AfterFailure == [NothingTold EXCEPT !.failed = TRUE]

NewReceiver(netints) ==
    [netints |-> netints, sp |-> [n \in netints |-> FALSE],
     sampling |-> TRUE, notified_sampling_started |-> FALSE, sample_timer |-> SampleTime,
     suppress_limit_exceeded |-> FALSE, sources |-> [h \in {} |-> {}], term_sets |-> {}]

Init ==
    /\ network \in Networks
    /\ created = TRUE /\ receiver = NewReceiver(network.netints)
    /\ due = FALSE /\ notes = <<>> /\ app = NothingTold

(* sacn_receiver_create.                                                    *)
Create ==
    /\ ~created
    /\ created' = TRUE
    /\ \E netints \in (SUBSET network.netints) \ {{}} : receiver' = NewReceiver(netints)
    /\ app' = NothingTold
    /\ UNCHANGED <<network, due, notes>>

(* sacn_receiver_destroy, which waits for the callbacks under way.          *)
Destroy ==
    /\ created /\ notes = <<>>
    /\ created' = FALSE
    /\ receiver' = NewReceiver({}) /\ app' = NothingTold
    /\ UNCHANGED <<network, due, notes>>

(* mutant: the termination sets outlive their sources.                      *)
SourcesOnlyCleared(r) == [r EXCEPT !.sources = [h \in {} |-> {}]]

(* clear_term_sets_and_sources.                                             *)
ClearTermSetsAndSources(r) == [r EXCEPT !.sources = [h \in {} |-> {}], !.term_sets = {}]

(* sacn_receiver_change_universe.  When the sockets cannot be made the      *)
(* receiver is left on the new universe without a sampling period.          *)
ChangeUniverse ==
    LET cleared == ClearTermSetsAndSources(receiver)
        all == [n \in receiver.netints |-> FALSE] IN
    /\ created /\ ~app.failed
    /\ \/ receiver' = begin_sampling_period([cleared EXCEPT !.sp = all]) /\ app' = NothingTold
       \/ receiver' = cleared /\ app' = AfterFailure
    /\ notes' = [i \in DOMAIN notes |-> [notes[i] EXCEPT !.stale = TRUE]]
    /\ UNCHANGED <<network, created, due>>

(* sacn_receiver_reset_networking, for the interfaces the system now has.   *)
(* When the sockets cannot be made nothing is sampled or terminated.        *)
ResetNetworking ==
    /\ created /\ ~app.failed
    /\ \E netints \in SUBSET network.netints :
          LET updated == [receiver EXCEPT
                            !.sp = update_sampling_period_netints(receiver, netints),
                            !.netints = netints] IN
          \/ receiver' = begin_sampling_period(TerminateRemoved(updated)) /\ app' = app
          \/ receiver' = updated /\ app' = AfterFailure
    /\ UNCHANGED <<network, created, due, notes>>

-----------------------------------------------------------------------------
(* The receive thread.                                                      *)

Idle == created /\ notes = <<>>

(* The packet is from source h, on interface n: perhaps one that was just   *)
(* removed, from the socket's buffer.                                       *)
IsSampled(n) == n \in DOMAIN receiver.sp
IsIgnored(n) == IsSampled(n) /\ receiver.sp[n]
IsStray(n) == n \notin receiver.netints

KnownSource(h, n, in_order, kind, hidden) ==
    LET source == [receiver.sources[h] EXCEPT !.netint = n]
        ended == IF kind = "end" THEN mark_source_terminated(source) ELSE source
        next == CASE kind = "dmx" -> process_null_start_code(source)
                  [] kind = "pap" -> process_pap(source)
                  [] OTHER -> source IN
    /\ h \in DOMAIN receiver.sources
    /\ receiver.sources[h].netint = n \/ receiver.sampling
    /\ IF ended.terminated \/ ~in_order
       THEN receiver' = [receiver EXCEPT !.sources[h] = ended] /\ notes' = notes
       ELSE /\ receiver' = [receiver EXCEPT !.sources[h] = next]
            /\ notes' = When(PapLost(source, kind), DataNote(h, "pap lost", FALSE, FALSE))
                          \o When(Notifies(source, kind) /\ ~hidden, DataNote(h, kind, IsSampled(n), IsStray(n)))

(* process_new_source_data.                                                 *)
NewSourceData(h, n, kind, hidden) ==
    LET full == Cardinality(DOMAIN receiver.sources) >= network.source_count_max IN
    /\ h \notin DOMAIN receiver.sources /\ kind \in {"dmx", "pap"}
    /\ IF full
       THEN /\ notes' = When(~receiver.suppress_limit_exceeded, Note("limit"))
            /\ receiver' = [receiver EXCEPT !.suppress_limit_exceeded = TRUE]
       ELSE /\ receiver' = [receiver EXCEPT !.sources =
                  [x \in DOMAIN @ \cup {h} |->
                      IF x = h THEN NewSource(n, kind, receiver.sampling) ELSE @[x]]]
            /\ notes' = When((kind = "pap" \/ receiver.sampling) /\ ~hidden,
                             DataNote(h, kind, IsSampled(n), IsStray(n)))

(* handle_sacn_data_packet.                                                 *)
Orders == {check_sequence(seq, last_seq) : seq, last_seq \in Seqs}
MayPreview(h) == IF h \in network.previews THEN BOOLEAN ELSE {FALSE}

Packet(h) ==
    /\ Idle
    /\ \E n \in network.reaches[h], kind \in network.sends[h],
          in_order \in Orders, preview \in MayPreview(h) :
          LET hidden == preview /\ FilterPreview IN
          /\ ~IsIgnored(n)
          /\ \/ KnownSource(h, n, in_order, kind, hidden)
             \/ NewSourceData(h, n, kind, hidden)
    /\ UNCHANGED <<network, created, due, app>>

(* check_source_timeouts and update_source_status.                          *)
IsForgotten(s) == s.recv_state = "WaitingForPap" /\ IsExpired(s.packet_timer)
IsOffline(s) == s.recv_state # "WaitingForPap" /\ IsExpired(s.packet_timer)
IsOnline(s) ==
    /\ s.recv_state # "WaitingForPap" /\ ~IsExpired(s.packet_timer)
    /\ s.dmx_received_since_last_tick
IsUnknown(s) ==
    /\ s.recv_state # "WaitingForPap" /\ ~IsExpired(s.packet_timer)
    /\ ~s.dmx_received_since_last_tick

StatusLists(sources) ==
    [forgotten |-> {h \in DOMAIN sources : IsForgotten(sources[h])},
     offline |-> {h \in DOMAIN sources : IsOffline(sources[h])},
     online |-> {h \in DOMAIN sources : IsOnline(sources[h])},
     unknown |-> {h \in DOMAIN sources : IsUnknown(sources[h])}]

(* mutant: the lost are looked for before those that are back leave.        *)
LostFirst(term_sets, online) ==
    LET expired == get_expired_sources(term_sets) IN
    [expired EXCEPT !.term_sets = mark_sources_online(@, online)]

OnlineThenLost(term_sets, online) ==
    get_expired_sources(mark_sources_online(term_sets, online))

(* process_receiver_sources: the receiver, and the sources lost.            *)
process_receiver_sources(r) ==
    LET lists == StatusLists(r.sources)
        offline == [h \in lists.offline |-> r.sources[h].terminated]
        marked == mark_sources_offline(r.term_sets, offline, lists.unknown, ExpiredWait)
        expired == OnlineThenLost(marked, lists.online)
        gone == lists.forgotten \cup DOMAIN expired.lost
        seen == [h \in DOMAIN r.sources |->
                   IF h \in lists.online
                   THEN [r.sources[h] EXCEPT !.dmx_received_since_last_tick = FALSE]
                   ELSE r.sources[h]] IN
    [lost |-> expired.lost,
     receiver |-> [r EXCEPT
        !.sources = Without(seen, gone), !.term_sets = expired.term_sets,
        !.suppress_limit_exceeded = @ /\ DOMAIN expired.lost = {}]]

(* process_receivers.                                                       *)
Process ==
    LET ends == receiver.sampling /\ IsExpired(receiver.sample_timer)
        sampled == IF ends THEN end_current_sampling_period(receiver) ELSE receiver
        result == process_receiver_sources(
                     [sampled EXCEPT !.notified_sampling_started = TRUE]) IN
    /\ Idle /\ due
    /\ due' = FALSE
    /\ receiver' = result.receiver
    /\ notes' = When(ends, Note("ended"))
                  \o When(~sampled.notified_sampling_started, Note("started"))
                  \o When(DOMAIN result.lost # {}, ListNote("lost", result.lost))
    /\ UNCHANGED <<network, created, app>>

(* deliver_receive_callbacks and deliver_periodic_callbacks.  The           *)
(* application drops what is about a universe it left.                      *)
GotData(note) ==
    [app EXCEPT !.known = @ \cup {note.source},
                !.sampled = IF note.is_sampling THEN @ \cup {note.source}
                            ELSE @ \ {note.source},
                !.stray = IF note.stray THEN @ \cup {note.source} ELSE @]

Listens(note) == ~note.stale /\ ~app.failed

Told(note) ==
    IF ~Listens(note) THEN app
    ELSE CASE note.kind = "dmx" -> GotData(note)
           [] note.kind = "pap" -> [GotData(note) EXCEPT !.pap = @ \cup {note.source}]
           [] note.kind = "pap lost" -> [app EXCEPT !.pap = @ \ {note.source}]
           [] note.kind = "lost" ->
                [app EXCEPT !.known = @ \ DOMAIN note.lost, !.pap = @ \ DOMAIN note.lost,
                            !.sampled = @ \ DOMAIN note.lost,
                            !.stray = @ \ DOMAIN note.lost]
           [] note.kind \in {"limit", "other"} -> app
           [] note.kind = "started" -> [app EXCEPT !.sampling = TRUE]
           [] note.kind = "ended" -> [app EXCEPT !.sampling = FALSE, !.sampled = {}]

Deliver ==
    /\ notes # <<>>
    /\ app' = Told(Head(notes))
    /\ notes' = Tail(notes)
    /\ UNCHANGED <<network, created, receiver, due>>

(* A unit passes, in which the thread processed its receivers.              *)
Aged(source) == [source EXCEPT !.packet_timer = Elapse(@), !.pap_timer = Elapse(@)]
AgedSet(set) == [set EXCEPT !.wait_period = Elapse(@)]

Tick ==
    /\ created /\ ~due
    /\ due' = TRUE
    /\ receiver' = [receiver EXCEPT
          !.sample_timer = Elapse(@), !.sources = [h \in DOMAIN @ |-> Aged(@[h])],
          !.term_sets = {AgedSet(set) : set \in @}]
    /\ UNCHANGED <<network, created, notes, app>>

Next ==
    \/ Create \/ Destroy \/ ChangeUniverse \/ ResetNetworking
    \/ \E h \in Handles : Packet(h)
    \/ Process \/ Deliver \/ Tick

(* Time passes, and the thread delivers what it collected.  After every     *)
(* packet it looks at the timer: packets do not keep it from processing.    *)
(* Each formula holds of the steps of one action, and is enabled with it.   *)
Processing == Idle /\ due /\ due' = FALSE
Ticking == created /\ ~due /\ due' = TRUE
Delivering == notes # <<>> /\ notes' = Tail(notes)

Fairness == SF_due(Processing) /\ WF_due(Ticking) /\ WF_notes(Delivering)

Spec == Init /\ [][Next]_vars /\ Fairness

-----------------------------------------------------------------------------
(* Properties.                                                              *)

Tracked == DOMAIN receiver.sources

Source ==
    [netint : Netints, packet_timer : 0 .. SourceLossTimeout,
     terminated : BOOLEAN, dmx_received_since_last_tick : BOOLEAN,
     recv_state : {"WaitingForPap", "HaveDmxOnly", "HavePapOnly", "HaveDmxAndPap"},
     pap_interval : {0, WaitForPriority, SourceLossTimeout},
     pap_timer : 0 .. SourceLossTimeout]

(* The type invariant.                                                      *)
TypeOK ==
    /\ network \in Networks /\ created \in BOOLEAN /\ due \in BOOLEAN
    /\ receiver.netints \subseteq Netints
    /\ DOMAIN receiver.sp \subseteq Netints
    /\ receiver.sp \in [DOMAIN receiver.sp -> BOOLEAN]
    /\ receiver.sampling \in BOOLEAN /\ receiver.notified_sampling_started \in BOOLEAN
    /\ receiver.sample_timer \in 0 .. SampleTime
    /\ receiver.suppress_limit_exceeded \in BOOLEAN
    /\ Tracked \subseteq Handles /\ receiver.sources \in [Tracked -> Source]
    /\ \A set \in receiver.term_sets :
          /\ set.wait_period \in 0 .. ExpiredWait
          /\ set.sources \in TermSetSources(DOMAIN set.sources)
    /\ \A note \in Range(notes) : note.stale \in BOOLEAN
    /\ app \in [known : SUBSET Handles, pap : SUBSET Handles,
                sampled : SUBSET Handles, stray : SUBSET Handles, sampling : BOOLEAN, failed : BOOLEAN]

(* A source is in one termination set at most, sets are never empty, and    *)
(* every source in one is tracked: the sets hold the handles, nothing else  *)
(* ties them to the tracked sources.                                        *)
TermSetsTrackSources ==
    \A set, other \in receiver.term_sets :
        /\ DOMAIN set.sources # {} /\ DOMAIN set.sources \subseteq Tracked
        /\ set # other => DOMAIN set.sources \cap DOMAIN other.sources = {}

(* Between any two steps of the thread and the calls: the types, and what   *)
(* ties the termination sets to the sources.                                *)
Consistent == TypeOK /\ TermSetsTrackSources

Pend(kind, h) == \E note \in Range(notes) :
    ~note.stale /\ note.kind = kind
      /\ IF kind = "lost" THEN h \in DOMAIN note.lost ELSE note.source = h

(* Every source whose levels or priorities the application uses is tracked, *)
(* or the application is about to be told that it is lost: none is dropped  *)
(* behind its back.                                                         *)
TrackedOrLost(h) == h \in Tracked \/ Pend("lost", h)

KnownAreTracked == \A h \in app.known : TrackedOrLost(h)

(* A source whose priorities the application uses has them still, or the    *)
(* application is about to be told that they, or the source, are lost.      *)
PapTold ==
    \A h \in app.pap :
        \/ Pend("pap lost", h) \/ Pend("lost", h)
        \/ h \in Tracked
             /\ receiver.sources[h].recv_state \in {"HavePapOnly", "HaveDmxAndPap"}

(* Nothing the application uses is dropped behind its back.                 *)
LossesTold == KnownAreTracked /\ PapTold

(* A source is reported lost only when it was silent for the timeout or     *)
(* ended, although its set was made when another one went offline.          *)
LossIsReal ==
    [][\A i \in DOMAIN notes' : notes'[i].kind = "lost" /\ notes = <<>> =>
          \A h \in DOMAIN notes'[i].lost : IsExpired(receiver.sources[h].packet_timer)]_vars

(* A source that ended is removed in the end, whatever the others of its    *)
(* termination set do.                                                      *)
Ended(h) == h \in Tracked /\ receiver.sources[h].terminated
MayEnd == UNION {{h \in DOMAIN net.sends : "end" \in net.sends[h]} : net \in Networks}
EndedIsRemoved == \A h \in MayEnd : Ended(h) ~> ~Ended(h)

(* An interface that came up during a sampling period is sampled after it.  *)
WaitsToSample(n) == n \in DOMAIN receiver.sp /\ receiver.sp[n]
NewNetintIsSampled == \A n \in UNION {net.netints : net \in Networks} : WaitsToSample(n) ~> ~WaitsToSample(n)

(* What waits for the periodic processing gets its turn.                    *)
WaitsEnd == EndedIsRemoved /\ NewNetintIsSampled

(* The receiver keeps the promises its other users are built on: it         *)
(* implements ReceiverApi, callback by callback, but for a source heard on  *)
(* several interfaces, or from the buffer of one just removed: its data may *)
(* move into what is sampled, or out of it.                                 *)
ToldOfUniverse ==
    [known |-> app.known, pap |-> app.pap, sampled |-> app.sampled, sampling |-> app.sampling]

Api(net) == INSTANCE ReceiverApi WITH
    Handles <- DOMAIN net.sends, Previewers <- net.previews,
    MaxSources <- net.source_count_max, told <- ToldOfUniverse

MayMove(net, h) == Cardinality(net.reaches[h]) > 1 \/ h \in app.stray

KeepsPromise(net, note) ==
    CASE note.kind = "dmx" ->
            \/ Api(net)!ApiLevels(note.source, note.is_sampling)
            \/ MayMove(net, note.source) /\ Api(net)!ApiLevelsMove(note.source, note.is_sampling)
      [] note.kind = "pap" ->
            \/ Api(net)!ApiPriorities(note.source, note.is_sampling)
            \/ MayMove(net, note.source) /\ Api(net)!ApiPrioritiesMove(note.source, note.is_sampling)
      [] note.kind = "pap lost" -> Api(net)!ApiPapLost(note.source)
      [] note.kind = "lost" -> Api(net)!ApiSourcesLost(DOMAIN note.lost)
      [] note.kind = "started" -> Api(net)!ApiSamplingStarted
      [] note.kind = "ended" -> Api(net)!ApiSamplingEnded
      [] OTHER -> UNCHANGED ToldOfUniverse

KeepsPromises ==
    [][\A net \in Networks : network = net =>
          IF Delivering /\ Listens(Head(notes))
          THEN KeepsPromise(net, Head(notes))
          ELSE Api(net)!ApiForget \/ UNCHANGED ToldOfUniverse]_vars
=============================================================================
