---------------------------- MODULE SacnSource ----------------------------
(***************************************************************************)
(* The sACN sources of the library in src/sACN/src/sacn: the calls of the  *)
(* API (source.c), the thread that transmits, or the application in its    *)
(* place (source_state.c), the tables of sources, universes, destinations  *)
(* and interfaces (mem/source/), and the sockets sources send with         *)
(* (sockets.c).                                                            *)
(*                                                                         *)
(* Every call of the API and every pass of the thread takes the one        *)
(* sacn_source_mutex for as long as it lasts, so each is one action.       *)
(***************************************************************************)
EXTENDS SacnUniverse, FiniteSetsExt

CONSTANTS
    MaxUniversesPerPage,  \* kSacnUniverseDiscoveryMaxUniversesPerPage, 512 in the code
    Scenarios             \* which sources, interfaces and calls there are

ASSUME ScenariosAssumption ==
    /\ MaxUniversesPerPage \in Nat \ {0}
    /\ \A s \in Scenarios :
          /\ {s.system, s.listeners} \subseteq SUBSET ({"v4", "v6"} \X Nat)
          /\ s.universes \subseteq Nat /\ s.failures \subseteq SUBSET s.listeners
          /\ <<>> \notin s.levels /\ s.lively \in BOOLEAN

VARIABLES
    scenario,  \* chosen once
    sources,   \* the SacnSource of every handle in use
    net,       \* the interfaces usable to send on, and the types of unicast sockets
    thread,    \* the tick thread: none, running, or told to stop
    next,      \* what the thread does next: levels, pap, or check
    tracked,   \* num_thread_based_sources > 0, as the last pass found it
    seen,      \* what was sent last, by source, universe and listener
    pages,     \* the universe discovery packets of the last step, by source
    unreached, \* the listeners whose packets failed in the last pass
    asked,     \* the universes and destinations added and not removed since
    torn       \* sources whose interfaces could not all be set, or not reset

loop == <<thread, next, tracked>>
past == <<seen, pages, unreached, asked, torn>>
vars == <<scenario, sources, net, loop, past>>

Calls(name) == name \in scenario.calls

With(f, x, v) == [y \in DOMAIN f \cup {x} |-> IF y = x THEN v ELSE f[y]]

Upward(S) == SetToSortSeq(S, <)

-----------------------------------------------------------------------------
(* Interfaces.                                                              *)

Default == [all |-> TRUE, netints |-> {}]

Only(netints) == [all |-> FALSE, netints |-> netints]

(* sacn_initialize_source_netints.                                          *)
InternalNetints(config, usable) ==
    IF config.all THEN usable ELSE config.netints \cap usable

NoNetints(config, usable) == config # Only({}) /\ InternalNetints(config, usable) = {}

(* An interface is usable when a socket can be made for it.                 *)
test_sacn_source_netint(netint, works) == netint \in works

(* Those of the system that are configured are tested.                      *)
apply_netint_config(config, works) ==
    {n \in InternalNetints(config, scenario.system) : test_sacn_source_netint(n, works)}

(* init_unicast_send_sockets: for all types, or an error.                   *)
UnicastSockets == {"v4", "v6"}

(* sockets_init: unicast sockets are made only when an interface is usable  *)
(* or none was wanted.                                                      *)
SocketsInit(config, works) ==
    LET usable == apply_netint_config(config, works) IN
    [sys |-> usable, unicast |-> IF NoNetints(config, usable) THEN {} ELSE UnicastSockets]

(* send_multicast and send_unicast need a socket.                           *)
Network(source, down) ==
    [up |-> {l \in scenario.listeners \ down :
               \/ l \in net.sys
               \/ l \notin scenario.system /\ Type(l) \in net.unicast},
     types |-> source.types]

(* add_sacn_source_netint.                                                  *)
AddNetint(refs, n) == With(refs, n, IF n \in DOMAIN refs THEN refs[n] + 1 ELSE 1)

(* mutant: the last reference does not remove the interface.                *)
KeepsNetint(refs, n) ==
    IF n \notin DOMAIN refs THEN refs ELSE [refs EXCEPT ![n] = IF @ > 1 THEN @ - 1 ELSE 1]

remove_from_source_netints(refs, n) ==
    IF n \notin DOMAIN refs THEN refs
    ELSE IF refs[n] > 1 THEN [refs EXCEPT ![n] = @ - 1]
    ELSE Restrict(refs, DOMAIN refs \ {n})

Referenced(source, netints) ==
    [source EXCEPT !.netints = FoldSet(LAMBDA n, refs : AddNetint(refs, n), @, netints)]

-----------------------------------------------------------------------------
(* Sources.                                                                 *)

(* add_sacn_source.                                                         *)
NewSource(config) ==
    [manual |-> config.manual, types |-> config.types, max |-> config.max, name |-> config.name,
     terminating |-> FALSE, discovery_due |-> FALSE, num_active_universes |-> 0,
     netints |-> [n \in {} |-> 0], universes |-> [u \in {} |-> 0]]

set_source_terminating(source) ==
    IF source.terminating THEN source
    ELSE [source EXCEPT !.terminating = TRUE,
                        !.universes = [id \in DOMAIN @ |->
                                         set_universe_terminating(@[id], "removing")]]

finish_source_universe_termination(source, id) ==
    LET u == FinishDests(source.universes[id])
        counted == [source EXCEPT !.num_active_universes = @ - One(IsPart(u))] IN
    IF u.state = "removing"
    THEN [counted EXCEPT
            !.netints = FoldSet(LAMBDA n, refs : remove_from_source_netints(refs, n), @,
                                u.netints),
            !.universes = Restrict(@, DOMAIN @ \ {id})]
    ELSE [counted EXCEPT !.universes[id] = reset_universe(u)]

(* get_source_universes.                                                    *)
get_source_universes(source) ==
    {id \in DOMAIN source.universes : source.universes[id].state # "removing"}

-----------------------------------------------------------------------------
(* Universe discovery.                                                      *)

LastPage(source) ==
    IF source.num_active_universes = 0 THEN 0
    ELSE (source.num_active_universes - 1) \div MaxUniversesPerPage

(* pack_universe_discovery_page, for as long as there is something to pack. *)
PackedPages(source) ==
    LET parts == Upward({id \in DOMAIN source.universes : IsPart(source.universes[id])})
        count == (Len(parts) + MaxUniversesPerPage - 1) \div MaxUniversesPerPage IN
    [k \in 1 .. count |->
       [page |-> k - 1, last_page |-> LastPage(source),
        universes |-> SubSeq(parts, (k - 1) * MaxUniversesPerPage + 1,
                             Min({k * MaxUniversesPerPage, Len(parts)}))]]

(* send_universe_discovery: after a page that left nowhere there is none.   *)
send_universe_discovery(source, e) ==
    LET all == PackedPages(source)
        sent == Multicast(DOMAIN source.netints, e) IN
    IF DOMAIN source.netints = {} \/ all = <<>> THEN [ok |-> TRUE, to |-> {}, pages |-> <<>>]
    ELSE [ok |-> sent.all, to |-> sent.to, pages |-> IF sent.left THEN all ELSE <<>>]

process_universe_discovery(source, e) ==
    IF source.terminating \/ ~source.discovery_due
    THEN [ok |-> TRUE, to |-> {}, pages |-> <<>>, source |-> source]
    ELSE send_universe_discovery(source, e)
         @@ [source |-> [source EXCEPT !.discovery_due = FALSE]]

(* process_universes, from the last one in the array: by universe number.   *)
WithProcessed(done, source, id, p) ==
    [source |-> IF p.ends THEN finish_source_universe_termination(source, id) ELSE source,
     ok |-> p.ok,
     out |-> done.out \o [i \in DOMAIN p.out |-> [universe |-> id] @@ p.out[i]]]

NextUniverse(done, id, p) ==
    WithProcessed(done, [done.source EXCEPT !.universes[id] = p.u], id, p)

process_universes(source, mode, e) ==
    FoldLeft(LAMBDA done, id :
               NextUniverse(done, id, Processed(done.source.universes[id], mode, done.ok, e)),
             [source |-> source, ok |-> TRUE, out |-> <<>>],
             Upward(DOMAIN source.universes))

(* What process_sources does for a source: after discovery that failed, no  *)
(* more.                                                                    *)
AfterDiscovery(discovery, mode, e) ==
    [pages |-> discovery.pages]
    @@ IF discovery.ok THEN process_universes(discovery.source, mode, e)
       ELSE [source |-> discovery.source, out |-> <<>>]

ProcessedSource(source, mode, e) ==
    AfterDiscovery(process_universe_discovery(source, e), mode, e)

-----------------------------------------------------------------------------
(* What listeners have seen.                                                *)

NothingSeen ==
    [kind |-> "none", seq |-> SequenceNumbers, terminations |-> 0, levels |-> <<>>,
     pap |-> <<>>, label |-> <<>>]

After(last, p) ==
    CASE p.kind = "levels" -> [last EXCEPT !.kind = "data", !.seq = p.seq, !.terminations = 0,
                                           !.levels = p.levels, !.label = p.label]
      [] p.kind = "pap"    -> [last EXCEPT !.kind = "data", !.seq = p.seq, !.terminations = 0,
                                           !.pap = p.pap, !.label = p.label]
      [] p.kind = "other"  -> [last EXCEPT !.seq = p.seq]
      [] p.kind = "terminated" ->
            [last EXCEPT !.kind = "terminated", !.seq = p.seq,
                         !.terminations = Min({@ + 1, Terminations})]

(* k is a source, a universe and a listener.                                *)
Heard(k, out) ==
    FoldLeft(LAMBDA last, p : IF p.universe = k[2] /\ k[3] \in p.to THEN After(last, p) ELSE last,
             seen[k], out)

Forgotten(test(_)) == [k \in DOMAIN seen |-> IF test(k) THEN NothingSeen ELSE seen[k]]
-----------------------------------------------------------------------------
(* The calls of the API.                                                    *)

NoPages == [h \in {} |-> <<>>]

Quiet == pages' = NoPages /\ unreached' = {}

Init ==
    /\ scenario \in Scenarios
    /\ sources = [h \in {} |-> 0]
    /\ net = SocketsInit(Default, scenario.system)
    /\ thread = "none" /\ next = "levels" /\ tracked = FALSE
    /\ seen = [k \in (DOMAIN scenario.handles) \X scenario.universes \X scenario.listeners |->
                 NothingSeen]
    /\ pages = NoPages /\ unreached = {} /\ asked = {} /\ torn = {}

(* sacn_source_create.  A new source has an identifier of its own.          *)
Create(h) ==
    /\ Calls("create") /\ h \notin DOMAIN sources /\ thread # "stopping"
    /\ sources' = With(sources, h, NewSource(scenario.handles[h]))
    /\ thread' = IF scenario.handles[h].manual THEN thread ELSE "running"
    /\ seen' = Forgotten(LAMBDA k : k[1] = h)
    /\ asked' = {a \in asked : a[1] # h} /\ torn' = torn \ {h}
    /\ Quiet /\ UNCHANGED <<scenario, net, next, tracked>>

(* There is no memory for the source, but a thread.                         *)
CreateFails ==
    /\ Calls("nomemory") /\ thread = "none" /\ thread' = "running"
    /\ Quiet /\ UNCHANGED <<scenario, sources, net, next, tracked, seen, asked, torn>>

Usable(h) == h \in DOMAIN sources /\ ~sources[h].terminating

Changes(h, source) ==
    /\ sources' = [sources EXCEPT ![h] = source]
    /\ Quiet /\ UNCHANGED <<scenario, net, loop, torn>>

(* sacn_source_destroy.                                                     *)
Destroy(h) ==
    /\ Calls("destroy") /\ Usable(h)
    /\ Changes(h, set_source_terminating(sources[h]))
    /\ asked' = {a \in asked : a[1] # h} /\ UNCHANGED seen

(* sacn_source_change_name, with set_source_name.                           *)
ChangeName(h, name) ==
    /\ Calls("name") /\ Usable(h)
    /\ Changes(h, [sources[h] EXCEPT !.name = name,
                                     !.universes = [id \in DOMAIN @ |-> Renamed(@[id], name)]])
    /\ UNCHANGED <<seen, asked>>

(* sacn_source_add_universe, when memory lasts.  What is left of a universe *)
(* that is being removed goes at once, though the new one may fail: because *)
(* there are too many, or no interface can be used.                         *)
Cleared(source, id) ==
    IF id \in DOMAIN source.universes THEN finish_source_universe_termination(source, id)
    ELSE source

Addable(h, id) == Usable(h) /\ id \notin get_source_universes(sources[h])

AddUniverse(h, id, config, netint_config) ==
    /\ Calls("add") /\ Addable(h, id)
    /\ LET rest == Cleared(sources[h], id)
           netints == InternalNetints(netint_config, net.sys) IN
       IF Cardinality(DOMAIN rest.universes) < rest.max /\ ~NoNetints(netint_config, net.sys)
       THEN /\ Changes(h, Referenced([rest EXCEPT !.universes =
                             With(@, id, NewUniverse(config, rest.name, netints))], netints))
            /\ seen' = Forgotten(LAMBDA k : k[1] = h /\ k[2] = id)
            /\ asked' = asked \cup {<<h, id>>} \cup {<<h, id, a>> : a \in Range(config.dests)}
       ELSE Changes(h, rest) /\ UNCHANGED <<seen, asked>>

(* There is no memory for the universe, or for the references to its        *)
(* interfaces: then it stays, though the call fails.                        *)
AddUniverseFails(h, id, config) ==
    /\ Calls("nomemory") /\ Addable(h, id)
    /\ LET rest == Cleared(sources[h], id) IN
       \/ Changes(h, rest) /\ UNCHANGED <<seen, asked>>
       \/ /\ Cardinality(DOMAIN rest.universes) < rest.max /\ net.sys # {}
          /\ sources' = [sources EXCEPT ![h] = [rest EXCEPT !.universes =
                             With(@, id, NewUniverse(config, rest.name, net.sys))]]
          /\ seen' = Forgotten(LAMBDA k : k[1] = h /\ k[2] = id)
          /\ asked' = asked \cup {<<h, id>>} \cup {<<h, id, a>> : a \in Range(config.dests)}
          /\ torn' = torn \cup {h}
          /\ Quiet /\ UNCHANGED <<scenario, net, loop>>

(* The calls about a universe are for one that is not being removed.        *)
Has(h, id) == Usable(h) /\ id \in get_source_universes(sources[h])

Updates(h, id, u) == Changes(h, [sources[h] EXCEPT !.universes[id] = u])

(* sacn_source_remove_universe.                                             *)
RemoveUniverse(h, id) ==
    /\ Calls("remove") /\ Has(h, id)
    /\ Updates(h, id, set_universe_terminating(sources[h].universes[id], "removing"))
    /\ asked' = {a \in asked : a[1] # h \/ a[2] # id} /\ UNCHANGED seen

(* sacn_source_add_unicast_destination, of one that is not there or that is *)
(* being removed.                                                           *)
AddDest(h, id, addr) ==
    /\ Calls("dests") /\ Has(h, id)
    /\ LET u == sources[h].universes[id]
           i == DestIndex(u, addr)
           rest == IF i = 0 THEN u ELSE FinishDest(u, i) IN
       /\ i # 0 => u.dests[i].state = "removing"
       /\ Updates(h, id, reset_transmission_suppression(
                    [rest EXCEPT !.dests = Append(@, NewDest(addr))], Both))
    /\ seen' = Forgotten(LAMBDA k : k = <<h, id, addr>>)
    /\ asked' = asked \cup {<<h, id, addr>>}

(* sacn_source_remove_unicast_destination.                                  *)
RemoveDest(h, id, addr) ==
    /\ Calls("dests") /\ Has(h, id)
    /\ LET u == sources[h].universes[id]
           i == DestIndex(u, addr) IN
       /\ i # 0 /\ u.dests[i].state # "removing"
       /\ Updates(h, id, [u EXCEPT !.dests[i] = SetTerminating(@, "removing")])
    /\ asked' = asked \ {<<h, id, addr>>} /\ UNCHANGED seen

(* sacn_source_change_priority and sacn_source_change_preview_flag.         *)
ChangePriority(h, id, priority) ==
    /\ Calls("priority") /\ Has(h, id)
    /\ Updates(h, id, set_universe_priority(sources[h].universes[id], priority))
    /\ UNCHANGED <<seen, asked>>

ChangePreview(h, id, preview) ==
    /\ Calls("preview") /\ Has(h, id)
    /\ Updates(h, id, set_preview_flag(sources[h].universes[id], preview))
    /\ UNCHANGED <<seen, asked>>

(* The end of update_levels.                                                *)
LevelsGiven(h, id, u) ==
    /\ Changes(h, [sources[h] EXCEPT
         !.universes[id] = u,
         !.num_active_universes = @ + One(~IsPart(sources[h].universes[id]) /\ IsPart(u))])
    /\ UNCHANGED <<seen, asked>>

(* sacn_source_update_levels and sacn_source_update_levels_and_force_sync.  *)
UpdateLevels(h, id, levels, force_sync) ==
    /\ Calls("levels") /\ Has(h, id)
    /\ LevelsGiven(h, id, LevelsUpdated(sources[h].universes[id], levels, force_sync))

(* sacn_source_update_levels_and_pap and ..._and_force_sync.                *)
UpdateLevelsAndPap(h, id, levels, pap, force_sync) ==
    /\ Calls("pap") /\ Has(h, id)
    /\ LevelsGiven(h, id, LevelsAndPapUpdated(sources[h].universes[id], levels, pap, force_sync))

(* sacn_source_send_now: a packet with another start code, at once.         *)
SendNow(h, id, down) ==
    /\ Calls("send_now") /\ Has(h, id)
    /\ LET u == sources[h].universes[id]
           e == Network(sources[h], down)
           multi == send_universe_multicast(u, e)
           uni == send_universe_unicast(u, e)
           p == [universe |-> id] @@ Packet("other", u, u.seq, multi.to \cup uni.to) IN
       /\ Updates(h, id, increment_sequence_number(u, multi.left \/ uni.left, FALSE))
       /\ seen' = [k \in DOMAIN seen |-> IF k[1] = h THEN Heard(k, <<p>>) ELSE seen[k]]
       /\ UNCHANGED asked
-----------------------------------------------------------------------------
(* The sockets are made again: sacn_source_reset_networking, with the same  *)
(* interfaces for all, and sacn_source_reset_networking_per_universe.  What *)
(* sacn_sockets_reset_source returns is not looked at.                      *)

(* reset_source_universe_networking.                                        *)
ResetUniverse(done, id, config, usable) ==
    IF NoNetints(config, usable) THEN [done EXCEPT !.ok = FALSE]
    ELSE LET netints == InternalNetints(config, usable) IN
         [done EXCEPT
            !.source = Referenced([@ EXCEPT !.universes[id] =
               reset_transmission_suppression([@ EXCEPT !.netints = netints], Both)], netints)]

(* One that is being removed keeps its interfaces when each has its own.    *)
ResetSource(source, configs, each, usable) ==
    FoldLeft(LAMBDA done, id :
               IF ~done.ok THEN done
               ELSE IF each /\ source.universes[id].state = "removing"
               THEN [done EXCEPT !.source = Referenced(@, source.universes[id].netints)]
               ELSE ResetUniverse(done, id, configs[id], usable),
             [source |-> [source EXCEPT !.netints = [n \in {} |-> 0]], ok |-> TRUE],
             Reverse(Upward(DOMAIN source.universes)))

(* The first failure is the end of it.                                      *)
ResetAll(config, works, configs, each) ==
    LET new == SocketsInit(config, works)
        done == FoldLeft(LAMBDA d, h :
                   IF ~d.ok THEN [d EXCEPT !.torn = @ \cup {h}]
                   ELSE LET r == ResetSource(sources[h], configs[h], each, new.sys) IN
                        [sources |-> [d.sources EXCEPT ![h] = r.source], ok |-> r.ok,
                         torn |-> IF r.ok THEN d.torn \ {h} ELSE d.torn \cup {h}],
                   [sources |-> sources, ok |-> TRUE, torn |-> torn], Upward(DOMAIN sources)) IN
    /\ net' = new /\ sources' = done.sources /\ torn' = done.torn
    /\ Quiet /\ UNCHANGED <<scenario, loop, seen, asked>>

ResetNetworking(config, works) ==
    /\ Calls("reset")
    /\ ResetAll(config, works,
                [h \in DOMAIN sources |-> [id \in DOMAIN sources[h].universes |-> Default]], FALSE)

(* The application gives a list for each universe it has.                   *)
ResetNetworkingPerUniverse(config, works, lists) ==
    /\ Calls("reset_each")
    /\ \E h \in DOMAIN sources : get_source_universes(sources[h]) # {}
    /\ ResetAll(config, works,
                [h \in DOMAIN sources |-> [id \in DOMAIN sources[h].universes |-> lists[id]]], TRUE)

-----------------------------------------------------------------------------
(* Passes.                                                                  *)

(* Keep-alive and discovery timers.                                         *)
KeepAliveExpires(h, id, buffer) ==
    /\ Has(h, id)
    /\ LET u == sources[h].universes[id] IN
       /\ u.state = "live" /\ u[buffer] # <<>> /\ ~IsNeeded(u, buffer)
       /\ Updates(h, id, [u EXCEPT !.due[buffer] = TRUE])
    /\ UNCHANGED <<seen, asked>>

DiscoveryExpires(h) ==
    /\ Calls("discovery") /\ Usable(h) /\ ~sources[h].discovery_due
    /\ Changes(h, [sources[h] EXCEPT !.discovery_due = TRUE]) /\ UNCHANGED <<seen, asked>>

(* process_sources: for the thread or for the application.  While the       *)
(* thread is told to stop its sources are terminated.  Those through with   *)
(* their last universe go.                                                  *)
IsThrough(source) == source.terminating /\ DOMAIN source.universes = {}

SourcesProcessed(done, over) ==
    /\ sources' = [h \in DOMAIN sources \ over |->
                      IF h \in DOMAIN done THEN done[h].source ELSE sources[h]]
    /\ seen' = [k \in DOMAIN seen |->
                   IF k[1] \in DOMAIN done THEN Heard(k, done[k[1]].out) ELSE seen[k]]
    /\ pages' = [h \in {h \in DOMAIN done : done[h].pages # <<>>} |-> done[h].pages]
    /\ torn' = torn \ over

AllProcessed(done) ==
    SourcesProcessed(done, {h \in DOMAIN done : IsThrough(done[h].source)})

ProcessSources(manual, mode, down) ==
    LET told(source) == IF ~manual /\ thread = "stopping" THEN set_source_terminating(source)
                        ELSE source IN
    /\ AllProcessed([h \in {h \in DOMAIN sources : sources[h].manual = manual} |->
                       ProcessedSource(told(sources[h]), mode, Network(sources[h], down))])
    /\ unreached' = down
    /\ UNCHANGED <<scenario, net, asked>>

(* sacn_source_process_manual.                                              *)
ProcessManual(mode, down) ==
    /\ Calls("manual") /\ ProcessSources(TRUE, mode, down) /\ UNCHANGED loop

(* source_thread_function.                                                  *)
LevelsPass(down) ==
    /\ thread # "none" /\ next = "levels"
    /\ ProcessSources(FALSE, {"levels"}, down)
    /\ next' = "pap" /\ UNCHANGED <<thread, tracked>>

PapPass(down) ==
    /\ thread # "none" /\ next = "pap"
    /\ ProcessSources(FALSE, {"pap"}, down)
    /\ next' = "check" /\ tracked' = (\E h \in DOMAIN sources : ~sources[h].manual)
    /\ UNCHANGED thread

GoOn ==
    /\ next = "check" /\ (thread = "running" \/ tracked)
    /\ next' = "levels"
    /\ Quiet /\ UNCHANGED <<scenario, sources, net, thread, tracked, seen, asked, torn>>

(* sacn_source_state_deinit: the thread is told to stop, and joined.        *)
Deinit ==
    /\ Calls("deinit") /\ thread = "running"
    /\ thread' = "stopping"
    /\ Quiet
    /\ UNCHANGED <<scenario, sources, net, next, tracked, seen, asked, torn>>

(* The thread found no source of its own in its last pass.  The sources     *)
(* created since, and those processed by the application, are dropped by    *)
(* deinit_sources.                                                          *)
ThreadEnds ==
    /\ next = "check" /\ thread = "stopping" /\ ~tracked
    /\ thread' = "none" /\ next' = "levels" /\ UNCHANGED tracked
    /\ sources' = [h \in {} |-> 0] /\ asked' = {} /\ torn' = {}
    /\ Quiet /\ UNCHANGED <<scenario, net, seen>>

-----------------------------------------------------------------------------

UniverseCall(h, id) ==
    \/ \E config \in scenario.configs :
          \/ \E netint_config \in scenario.netint_configs : AddUniverse(h, id, config, netint_config)
          \/ AddUniverseFails(h, id, config)
    \/ RemoveUniverse(h, id)
    \/ \E addr \in scenario.listeners \ scenario.system :
          AddDest(h, id, addr) \/ RemoveDest(h, id, addr)
    \/ \E priority \in {100, 150} : ChangePriority(h, id, priority)
    \/ \E preview \in BOOLEAN : ChangePreview(h, id, preview)
    \/ \E levels \in scenario.levels \cup {<<>>}, force_sync \in scenario.force_syncs :
          \/ UpdateLevels(h, id, levels, force_sync)
          \/ \E pap \in scenario.paps : UpdateLevelsAndPap(h, id, levels, pap, force_sync)
    \/ \E down \in scenario.failures : SendNow(h, id, down)
    \/ \E buffer \in Both : KeepAliveExpires(h, id, buffer)

Next ==
    \/ \E h \in DOMAIN scenario.handles :
          \/ Create(h) \/ Destroy(h) \/ DiscoveryExpires(h)
          \/ \E name \in {"A", "B"} : ChangeName(h, name)
          \/ \E id \in scenario.universes : UniverseCall(h, id)
    \/ CreateFails \/ Deinit
    \/ \E config \in scenario.netint_configs, works \in scenario.workings :
          \/ ResetNetworking(config, works)
          \/ \E lists \in [scenario.universes -> scenario.netint_configs] :
                ResetNetworkingPerUniverse(config, works, lists)
    \/ \E down \in scenario.failures :
          \/ LevelsPass(down) \/ PapPass(down)
          \/ \E mode \in (SUBSET Both) \ {{}} : ProcessManual(mode, down)
    \/ GoOn \/ ThreadEnds

Spec == Init /\ [][Next]_vars

(* The thread never stops passing and the clock never stops, so keep-alive  *)
(* timers expire.  The network does not fail for ever: of the passes there  *)
(* are, and of those with levels to send, some go through.                  *)
Lively == {s \in Scenarios : s.lively}
Handles == UNION {DOMAIN s.handles : s \in Lively}
Universes == UNION {s.universes : s \in Lively}

(* Each is a condition on few variables, that only this action fulfils.     *)
Passes(kind, after) ==
    /\ scenario.lively /\ thread # "none" /\ next = kind
    /\ next' = after /\ unreached' = {}

GoesOn == scenario.lively /\ next = "check" /\ (thread = "running" \/ tracked) /\ next' = "levels"

Ends ==
    /\ scenario.lively /\ next = "check" /\ thread = "stopping" /\ ~tracked
    /\ thread' = "none"

HasNeeded(h, id) ==
    /\ h \in DOMAIN sources /\ id \in DOMAIN (sources[h].universes)
    /\ IsNeeded(sources[h].universes[id], "levels")

FairSpec ==
    /\ Spec
    /\ SF_<<next, unreached>>(Passes("levels", "pap"))
    /\ SF_<<next, unreached>>(Passes("pap", "check"))
    /\ WF_next(GoesOn) /\ WF_thread(Ends)
    /\ \A h \in Handles, id \in Universes :
         /\ SF_<<next, unreached>>(HasNeeded(h, id) /\ Passes("levels", "pap"))
         /\ WF_vars(scenario.lively /\ KeepAliveExpires(h, id, "levels"))

-----------------------------------------------------------------------------
(* The type invariant.  The counters stay in their bounds although several  *)
(* functions step them: those of packets before suppression, of termination *)
(* packets of universes and destinations, and of active universes.          *)
IsUniverse(u) ==
    /\ u.state \in {"live", "ending", "removing"} /\ u.num \in 0 .. Terminations
    /\ u.seq \in 0 .. SequenceNumbers - 1
    /\ u.sent \in [Both -> 0 .. NUM_PRE_SUPPRESSION_PACKETS] /\ u.due \in [Both -> BOOLEAN]
    /\ u.netints \subseteq scenario.system
    /\ \A d \in Range(u.dests) :
          /\ d.addr \in scenario.listeners \ scenario.system
          /\ d.state \in {"live", "ending", "removing"} /\ d.num \in 0 .. Terminations

TypeOK ==
    /\ DOMAIN sources \subseteq DOMAIN scenario.handles
    /\ \A h \in DOMAIN sources :
          /\ sources[h].num_active_universes \in 0 .. Cardinality(scenario.universes)
          /\ Cardinality(DOMAIN sources[h].universes) <= sources[h].max
          /\ \A id \in DOMAIN sources[h].universes : IsUniverse(sources[h].universes[id])
    /\ net.sys \subseteq scenario.system
    /\ thread \in {"none", "running", "stopping"}
    /\ next \in {"levels", "pap", "check"} /\ tracked \in BOOLEAN

(* num_active_universes, from which the last page of universe discovery is  *)
(* computed, is kept by hand where levels arrive and universes end; it is   *)
(* the number of universes with levels at all times.                        *)
ActiveUniversesExact ==
    \A h \in DOMAIN sources :
        sources[h].num_active_universes =
            Cardinality({id \in DOMAIN sources[h].universes : IsPart(sources[h].universes[id])})

(* A source's interfaces, where its discovery packets go, are those of its  *)
(* universes, with as many references, whatever was added, removed and      *)
(* reset, unless an interface could not be set or memory did not last.      *)
NetintsCounted ==
    \A h \in DOMAIN sources \ torn :
        LET universes == sources[h].universes
            users(n) == {id \in DOMAIN universes : n \in universes[id].netints} IN
        sources[h].netints = [n \in {n \in scenario.system : users(n) # {}} |->
                                Cardinality(users(n))]

(* Those who are to get the packets of a universe.                          *)
Listeners(source, u) ==
    {l \in (IF u.unicast_only THEN {} ELSE u.netints) \cup LiveDests(u) : Type(l) \in source.types}

(* Suppression never hides a change of contents, destinations, or           *)
(* interfaces: when no packet is lost, a universe that is suppressed has    *)
(* shown its contents to every listener, unless a reset has failed.         *)
SuppressedIsShown ==
    scenario.failures = {{}} =>
        \A h \in DOMAIN sources \ torn : \A id \in DOMAIN sources[h].universes :
            LET u == sources[h].universes[id] IN
            u.state = "live" =>
                \A l \in Listeners(sources[h], u) :
                    LET last == seen[h, id, l] IN
                    /\ u.levels # <<>> /\ ~IsNeeded(u, "levels") =>
                          last.kind = "data" /\ last.levels = u.levels /\ last.label = u.label
                    /\ u.pap # <<>> /\ ~IsNeeded(u, "pap") =>
                          last.kind = "data" /\ last.pap = u.pap /\ last.label = u.label

(* The pages of a universe discovery name every universe with levels that   *)
(* is multicast once, in order, each page but the last is full, and each    *)
(* tells truly which page is the last.                                      *)
DiscoveryExact ==
    [][\A h \in DOMAIN pages' :
          LET sent == pages'[h] IN
          /\ FlattenSeq([k \in DOMAIN sent |-> sent[k].universes])
                = Upward({id \in DOMAIN sources[h].universes : IsPart(sources[h].universes[id])})
          /\ \A k \in DOMAIN sent :
                /\ sent[k].page = k - 1 /\ sent[k].last_page = Len(sent) - 1
                /\ k < Len(sent) => Len(sent[k].universes) = MaxUniversesPerPage]_vars

(* The application asks.                                                    *)
sacn_source_get_universes(h) ==
    IF sources[h].terminating THEN {} ELSE get_source_universes(sources[h])

sacn_source_get_unicast_destinations(h, id) ==
    IF id \in get_source_universes(sources[h])
    THEN get_source_unicast_dests(sources[h].universes[id]) ELSE <<>>

(* What the library answers about its universes and their destinations is   *)
(* what the application added and has not removed, however far the passes   *)
(* are with terminations; until all is taken down.                          *)
GettersTell ==
    thread # "stopping" => \A h \in DOMAIN sources :
        /\ sacn_source_get_universes(h) = {id \in scenario.universes : <<h, id>> \in asked}
        /\ \A id \in scenario.universes :
              LET dests == sacn_source_get_unicast_destinations(h, id) IN
              /\ {dests[i].addr : i \in DOMAIN dests}
                    = {a \in scenario.listeners : <<h, id, a>> \in asked}
              /\ IsInjective([i \in DOMAIN dests |-> dests[i].addr])

(* What the calls and the passes keep by hand about a source: its numbers,  *)
(* its interfaces, and what it answers.                                     *)
Consistent == TypeOK /\ ActiveUniversesExact /\ NetintsCounted /\ GettersTell

(* Each universe is to each listener a stream of packets as SacnStream      *)
(* promises: the contents are the latest, the numbers go on, and it ends    *)
(* with all its termination packets, unless packets may be lost, interfaces *)
(* may go, or the library is shut down under sources of the application.    *)
HasUniverse(h, id) == h \in DOMAIN sources /\ id \in DOMAIN (sources[h].universes)

Phase(h, id, l) ==
    IF ~HasUniverse(h, id) THEN "off"
    ELSE LET u == sources[h].universes[id]
             i == DestIndex(u, l)
             state == IF i = 0 THEN u.state ELSE u.dests[i].state IN
         IF i = 0 /\ (u.unicast_only \/ l \notin u.netints) THEN "off"
         ELSE IF state = "live" /\ u.state = "live" THEN "live" ELSE "ending"

Contents(h, id) ==
    IF ~HasUniverse(h, id) THEN [levels |-> <<>>, pap |-> <<>>, label |-> <<>>]
    ELSE LET u == sources[h].universes[id] IN
         [levels |-> u.levels, pap |-> u.pap, label |-> u.label]

NextNumber(h, id) == IF HasUniverse(h, id) THEN sources[h].universes[id].seq ELSE 0

MayLose ==
    \/ scenario.failures # {{}}
    \/ {"reset", "reset_each", "nomemory"} \cap scenario.calls # {}
    \/ Calls("deinit") /\ \E h \in DOMAIN scenario.handles : scenario.handles[h].manual

Stream(h, id, l) == INSTANCE SacnStream WITH
    lossy <- MayLose, only <- scenario.listeners = {l}, phase <- Phase(h, id, l), contents <- Contents(h, id),
    number <- NextNumber(h, id), seen <- seen[h, id, l]

StreamsImplemented ==
    /\ \A k \in DOMAIN seen : Stream(k[1], k[2], k[3])!Init
    /\ [][\A k \in DOMAIN seen :
             \/ Stream(k[1], k[2], k[3])!Next
             \/ UNCHANGED Stream(k[1], k[2], k[3])!vars]_vars

(* A packet that fails on every interface and at every destination takes no *)
(* number: the last number a universe took is that of the last packet of    *)
(* some listener.                                                           *)
NumbersUsed ==
    [][\A h \in DOMAIN scenario.handles, id \in scenario.universes :
          LET number == NextNumber(h, id)' IN
          /\ HasUniverse(h, id) /\ HasUniverse(h, id)' /\ asked' = asked
          /\ number # NextNumber(h, id)
          => \E l \in scenario.listeners :
                /\ seen'[h, id, l].seq # NothingSeen.seq
                /\ (seen'[h, id, l].seq + 1) % SequenceNumbers = number]_vars

(* The packets a source sends, of levels and of universe discovery, are those*)
(* of its universes.                                                        *)
PacketsExact == StreamsImplemented /\ NumbersUsed /\ DiscoveryExact

(* Levels that the application leaves alone reach every listener in the     *)
(* end, however many packets fail before: keep-alive repeats them.          *)
LatestLevelsShown ==
    \A h \in Handles, id \in Universes,
       levels \in UNION {s.levels : s \in Lively}, l \in UNION {s.listeners : s \in Lively} :
        (/\ scenario.lively /\ HasUniverse(h, id) /\ <<h, id, l>> \in DOMAIN seen
         /\ Phase(h, id, l) = "live" /\ Contents(h, id).levels = levels)
            ~> \/ ~HasUniverse(h, id)
               \/ Phase(h, id, l) # "live" \/ Contents(h, id).levels # levels
               \/ /\ seen[h, id, l].kind = "data"
                  /\ seen[h, id, l].levels = levels

(* sacn_deinit() returns: the thread sends what the sources owe and ends.   *)
DeinitReturns == (scenario.lively /\ thread = "stopping") ~> thread = "none"
=============================================================================
