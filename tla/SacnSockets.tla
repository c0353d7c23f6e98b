---------------------------- MODULE SacnSockets ----------------------------
(***************************************************************************)
(* The receive sockets of the sACN library (src/sACN/src/sacn/sockets.c,   *)
(* mem/receiver/recv_thread_context.c and the socket parts of receiver.c,  *)
(* receiver_state.c and source_detector.c).  Receivers and the source      *)
(* detector share sockets; what is to be joined, left, polled and closed   *)
(* is queued for the one receive thread.  This is the build for Linux: a   *)
(* socket serves all interfaces (SACN_RECEIVER_SOCKET_PER_NIC is 0) and    *)
(* one socket of an IP type is bound and polled                            *)
(* (SACN_RECEIVER_LIMIT_BIND is 1).                                        *)
(*                                                                         *)
(* An operation is one action: it holds sacn_receiver_mutex, which the     *)
(* thread takes for its pass through the queues.  Operators named for a    *)
(* function take the state of the sockets and return it changed.           *)
(***************************************************************************)
EXTENDS Integers, Sequences, FiniteSets, Functions, SequencesExt, Bags

CONSTANTS
    MaxDead,     \* bound: no calls are made while more sockets wait to be closed
    MaxLeaving,  \* or while more requests to leave a group wait
    Handles,     \* of receivers; Detector is the source detector's
    Detector,
    Universes,   \* of receivers
    DiscoveryUniverse,
    IpTypes,
    Netints,     \* <<ip type, index>>
    Sockets,     \* the numbers sockets may have
    NoSocket,
    MaxSubs,     \* SACN_RECEIVER_MAX_SUBS_PER_SOCKET
    Scenarios    \* which calls the application makes

ASSUME SocketsAssumption ==
    /\ Handles \subseteq Nat /\ Detector \notin Handles
    /\ IpTypes \subseteq Nat /\ IsFiniteSet(IpTypes)
    /\ Netints \subseteq IpTypes \X Nat
    /\ Sockets \subseteq Nat /\ NoSocket \notin Sockets
    /\ MaxSubs \in Nat \ {0} /\ {MaxDead, MaxLeaving} \subseteq Nat
    /\ \A s \in Scenarios :
          /\ s.handles \subseteq Handles \cup {Detector} /\ s.netints \subseteq Netints
          /\ s.configs \subseteq SUBSET Netints /\ s.types \subseteq (SUBSET IpTypes) \ {{}}
          /\ s.universes \subseteq Universes /\ s.workings \subseteq SUBSET s.netints
          /\ {s.changes, s.ends} \subseteq BOOLEAN

VARIABLES
    scenario,    \* what the application may do, chosen once
    sys,         \* receiver_sys_netints and source_detector_sys_netints: those usable
    listeners,   \* receivers by handle, and the source detector
    net,         \* SacnRecvThreadContext, and its sockets in the system
    failed,      \* those whose last networking call failed: to be destroyed
    changed,     \* receivers whose universe was changed, to state properties
    deaf         \* a read failed, to state properties

vars == <<scenario, sys, listeners, net, failed, changed, deaf>>

-----------------------------------------------------------------------------
(* recv_thread_context.c.                                                   *)

(* init_recv_thread_context_entry; open and polled are the system's.        *)
NewContext ==
    [running |-> FALSE, poll_context_initialized |-> FALSE,
     socket_refs |-> <<>>, new_socket_refs |-> 0, bound |-> {},
     subscribes |-> EmptyBag, unsubscribes |-> EmptyBag, dead_sockets |-> <<>>,
     open |-> [s \in {} |-> {}], polled |-> {}, deinit_signal |-> FALSE]

Type(netint) == netint[1]

Request(socket, universe, netint) ==
    [socket |-> socket, universe |-> universe, netint |-> netint]

(* The requests for a group, on the interfaces of the socket's type.        *)
Requests(socket, ip_type, universe, netints) ==
    {Request(socket, universe, n) : n \in {n \in netints : Type(n) = ip_type}}

(* remove_socket_ref.                                                       *)
remove_socket_ref(c, i) ==
    LET ref == c.socket_refs[i] IN
    IF ref.refcount > 1 THEN [c EXCEPT !.socket_refs[i].refcount = @ - 1]
    ELSE [c EXCEPT !.socket_refs = RemoveAt(@, i),
                   !.new_socket_refs = IF ref.pending THEN @ - 1 ELSE @,
                   !.bound = IF ref.socket.bound THEN @ \ {ref.socket.ip_type} ELSE @]

mark_socket_ref_bound(c, i) ==
    [c EXCEPT !.socket_refs[i].socket.bound = TRUE,
              !.bound = @ \cup {c.socket_refs[i].socket.ip_type}]

add_socket_ref(c, socket) ==
    [c EXCEPT !.socket_refs =
                  Append(@, [socket |-> socket, refcount |-> 1, pending |-> TRUE]),
              !.new_socket_refs = @ + 1,
              !.bound = IF socket.bound THEN @ \cup {socket.ip_type} ELSE @]

Least(S) == CHOOSE x \in S : \A y \in S : x <= y

FirstRef(those) == IF those = {} THEN 0 ELSE Least(those)

RefsOfType(c, ip_type) ==
    {i \in DOMAIN c.socket_refs : c.socket_refs[i].socket.ip_type = ip_type}

find_socket_ref_with_room(c, ip_type) ==
    FirstRef({i \in RefsOfType(c, ip_type) : c.socket_refs[i].refcount < MaxSubs})

find_socket_ref_by_type(c, ip_type) == FirstRef(RefsOfType(c, ip_type))

find_socket_ref_by_handle(c, handle) ==
    FirstRef({i \in DOMAIN c.socket_refs : c.socket_refs[i].socket.handle = handle})

-----------------------------------------------------------------------------
(* sockets.c.                                                               *)

(* poll_add_socket.                                                         *)
poll_add_socket(c, i) ==
    IF ~c.poll_context_initialized THEN c
    ELSE [c EXCEPT !.polled = @ \cup {c.socket_refs[i].socket.handle},
                   !.socket_refs[i].socket.polling = TRUE]

(* etcpal_close.                                                            *)
Closed(c, handle) ==
    [c EXCEPT !.open = Restrict(@, DOMAIN @ \ {handle}), !.polled = @ \ {handle}]

(* mutant: no other socket is bound in place of the one closed.             *)
NoSuccessor(c, socket) == Closed(c, socket.handle)

(* cleanup_receive_socket, at once: another socket is bound when this one   *)
(* was.                                                                     *)
CleanedUp(c, socket) ==
    LET closed == Closed(c, socket.handle)
        i == find_socket_ref_by_type(closed, socket.ip_type)
        bound == mark_socket_ref_bound(closed, i) IN
    IF ~socket.bound \/ socket.ip_type \in closed.bound \/ i = 0 THEN closed
    ELSE IF closed.socket_refs[i].pending THEN bound
    ELSE poll_add_socket(bound, i)

cleanup_receive_socket(c, socket, queued) ==
    IF queued THEN [c EXCEPT !.dead_sockets = Append(@, socket)] ELSE CleanedUp(c, socket)

(* unsubscribe_on_single_interface.                                         *)
Left(c, requests) ==
    [c EXCEPT !.open = [s \in DOMAIN @ |->
        @[s] \ {<<r.universe, r.netint>> : r \in {r \in requests : r.socket = s}}]]

(* mutant: a request to join is not taken back.                             *)
JoinsAnyway(c, requests, queued) ==
    IF queued THEN [c EXCEPT !.unsubscribes = @ (+) SetToBag(requests)] ELSE Left(c, requests)

(* unsubscribe_socket: a queued request to join is taken back.              *)
unsubscribe_socket(c, requests, queued) ==
    LET cancelled == {r \in requests : BagIn(r, c.subscribes)}
        without == [c EXCEPT !.subscribes = @ (-) SetToBag(cancelled)]
        rest == requests \ cancelled IN
    IF queued THEN [without EXCEPT !.unsubscribes = @ (+) SetToBag(rest)]
    ELSE Left(without, rest)

(* queue_subscription: a queued request to leave is taken back.             *)
queue_subscription(c, requests) ==
    LET cancelled == {r \in requests : BagIn(r, c.unsubscribes)} IN
    [c EXCEPT !.unsubscribes = @ (-) SetToBag(cancelled),
              !.subscribes = @ (+) SetToBag(requests \ cancelled)]

unsubscribe_socket_ref(c, i, universe, netints, queued) ==
    LET ref == c.socket_refs[i]
        requests == Requests(ref.socket.handle, ref.socket.ip_type, universe, netints)
        removed == remove_socket_ref(unsubscribe_socket(c, requests, queued), i) IN
    IF ref.refcount > 1 THEN removed ELSE cleanup_receive_socket(removed, ref.socket, queued)

(* create_receive_socket: the lowest number free, unless the system fails.  *)
FreeSockets(c) == Sockets \ DOMAIN c.open

create_receive_socket(c, ip_type, bound) ==
    [handle |-> Least(FreeSockets(c)), ip_type |-> ip_type, bound |-> bound, polling |-> FALSE]

WithNewSocket(c, ip_type) ==
    LET socket == create_receive_socket(c, ip_type, ip_type \notin c.bound)
        opened == [c EXCEPT !.open = [s \in DOMAIN @ \cup {socket.handle} |->
                                        IF s = socket.handle THEN {} ELSE @[s]]] IN
    add_socket_ref(opened, socket)

(* A socket with room is shared, or else a new one is opened.               *)
Opened(c, found, ip_type) ==
    IF found # 0 THEN [c EXCEPT !.socket_refs[found].refcount = @ + 1]
    ELSE WithNewSocket(c, ip_type)

(* mutant: the socket without a group is not given back.                    *)
NotGivenBack(c, i, requests, universe, netints) ==
    IF requests = {} THEN [net |-> c, socket |-> NoSocket, res |-> "no_netints"]
    ELSE [net |-> queue_subscription(c, requests),
          socket |-> c.socket_refs[i].socket.handle, res |-> "ok"]

(* When none of the interfaces has the type, the socket taken is given back.*)
Subscribed(c, i, requests, universe, netints) ==
    IF requests = {}
    THEN [net |-> unsubscribe_socket_ref(c, i, universe, netints, TRUE),
          socket |-> NoSocket, res |-> "no_netints"]
    ELSE [net |-> queue_subscription(c, requests),
          socket |-> c.socket_refs[i].socket.handle, res |-> "ok"]

SubscribedOn(c, i, ip_type, universe, netints) ==
    Subscribed(c, i, Requests(c.socket_refs[i].socket.handle, ip_type, universe, netints),
               universe, netints)

(* The state, the socket and the result.                                    *)
sacn_add_receiver_socket(c, ip_type, universe, netints, creates) ==
    LET found == find_socket_ref_with_room(c, ip_type) IN
    IF found = 0 /\ (~creates \/ FreeSockets(c) = {})
    THEN [net |-> c, socket |-> NoSocket, res |-> "failed"]
    ELSE SubscribedOn(Opened(c, found, ip_type),
                      IF found # 0 THEN found ELSE Len(c.socket_refs) + 1,
                      ip_type, universe, netints)

sacn_remove_receiver_socket(c, socket, universe, netints, queued) ==
    unsubscribe_socket_ref(c, find_socket_ref_by_handle(c, socket), universe, netints, queued)

(* sacn_subscribe_sockets and sacn_unsubscribe_sockets.                     *)
Joined(c) ==
    [c EXCEPT
       !.open = [s \in DOMAIN @ |->
           @[s] \cup {<<r.universe, r.netint>> :
                        r \in {r \in BagToSet(c.subscribes) : r.socket = s}}],
       !.subscribes = EmptyBag]

AllLeft(c) == [Left(c, BagToSet(c.unsubscribes)) EXCEPT !.unsubscribes = EmptyBag]

sacn_cleanup_dead_sockets(c) ==
    [FoldLeft(LAMBDA d, socket : CleanedUp(d, socket), c, c.dead_sockets)
        EXCEPT !.dead_sockets = <<>>]

(* sacn_add_pending_sockets.                                                *)
sacn_add_pending_sockets(c) ==
    LET last == Len(c.socket_refs)
        pending == last - c.new_socket_refs + 1 .. last
        polls == {i \in pending : c.socket_refs[i].socket.bound}
        added == FoldSet(LAMBDA i, d : poll_add_socket(d, i), c, polls) IN
    [added EXCEPT !.new_socket_refs = 0,
                  !.socket_refs = [i \in DOMAIN @ |->
                      IF i \in pending THEN [@[i] EXCEPT !.pending = FALSE] ELSE @[i]]]

-----------------------------------------------------------------------------
(* receiver_state.c.                                                        *)

(* remove_sockets.                                                          *)
remove_sockets(c, l, queued) ==
    FoldSet(LAMBDA ip_type, d :
                sacn_remove_receiver_socket(d, l.sockets[ip_type], l.universe, l.netints, queued),
            c, {t \in IpTypes : l.sockets[t] # NoSocket})

NoSockets == [t \in IpTypes |-> NoSocket]

(* add_sockets: nothing to do without interfaces.                           *)
add_sockets(c, ip_type, l, creates) ==
    IF l.netints = {} THEN [net |-> c, socket |-> NoSocket, res |-> "ok"]
    ELSE sacn_add_receiver_socket(c, ip_type, l.universe, l.netints, creates)

(* The order of a loop over types or over a tree keyed by handles.          *)
Ascending(S) ==
    CHOOSE order \in [1 .. Cardinality(S) -> S] :
        \A i, j \in DOMAIN order : i < j => order[i] < order[j]

(* add_receiver_sockets and add_source_detector_sockets: for the types in   *)
(* their order, until one fails; then what was added is removed.            *)
TypesInOrder == Ascending(IpTypes)

WithAdded(so_far, t, added) ==
    [net |-> added.net, l |-> [so_far.l EXCEPT !.sockets[t] = added.socket],
     res |-> IF added.res = "no_netints" THEN so_far.res ELSE added.res]

AllOrNone(result) ==
    IF result.res = "ok" \/ (\A t \in IpTypes : result.l.sockets[t] = NoSocket) THEN result
    ELSE [result EXCEPT !.net = remove_sockets(@, result.l, TRUE), !.l.sockets = NoSockets]

add_receiver_sockets(c, l, fails) ==
    LET Add(so_far, t) ==
            IF so_far.res = "failed" \/ t \notin l.ip_supported THEN so_far
            ELSE WithAdded(so_far, t, add_sockets(so_far.net, t, so_far.l, t \notin fails)) IN
    AllOrNone(FoldLeft(Add, [net |-> c, l |-> [l EXCEPT !.sockets = NoSockets],
                             res |-> "no_netints"], TypesInOrder))

-----------------------------------------------------------------------------
(* Interfaces.                                                              *)

Default == [all |-> TRUE, netints |-> {}]

Only(netints) == [all |-> FALSE, netints |-> netints]

(* sacn_validate_netint_config and sacn_initialize_internal_netints: of the *)
(* interfaces asked for, or else of all, those the library can use; it is   *)
(* an error to be left with none, unless none were asked for.               *)
InternalNetints(config, usable) == 
    IF config.all THEN usable ELSE config.netints \cap usable

NoNetints(config, usable) == config # Only({}) /\ InternalNetints(config, usable) = {}

UsedSys(h) == IF h = Detector THEN sys.detector ELSE sys.receiver

-----------------------------------------------------------------------------
(* What the application calls.                                              *)

Init ==
    /\ scenario \in Scenarios
    /\ sys = [receiver |-> scenario.netints, detector |-> scenario.netints]
    /\ listeners = [h \in {} |-> NoSockets]
    /\ net = NewContext
    /\ failed = {} /\ changed = {} /\ deaf = FALSE

Configs == {Only(netints) : netints \in scenario.configs} \cup {Default}

(* The types for which a call finds no new socket.                          *)
Failures == {{}} \cup {{t} : t \in IpTypes}

UniverseOf(h) == IF h = Detector THEN {DiscoveryUniverse} ELSE scenario.universes

IsTaken(universe) == \E h \in DOMAIN listeners : listeners[h].universe = universe

MayCall ==
    /\ ~net.deinit_signal
    /\ Len(net.dead_sockets) <= MaxDead /\ BagCardinality(net.unsubscribes) <= MaxLeaving

With(h, l) == [x \in DOMAIN listeners \cup {h} |-> IF x = h THEN l ELSE listeners[x]]

(* assign_receiver_to_thread and assign_source_detector_to_thread, after    *)
(* add_receiver_sockets: the thread is started with the first; when it      *)
(* cannot be, what was added is removed at once.                            *)
assign_to_thread(added, starts) ==
    IF starts THEN [added.net EXCEPT !.running = TRUE]
    ELSE remove_sockets(added.net, added.l, FALSE)

(* remove_receiver_from_thread and remove_source_detector_from_thread.      *)
remove_from_thread(l) == remove_sockets(net, l, net.running)

(* create_sacn_receiver, sacn_source_detector_create.                       *)
Create(h, universe, config, ip_supported) ==
    LET l == [universe |-> universe, netints |-> InternalNetints(config, UsedSys(h)),
              ip_supported |-> ip_supported, sockets |-> NoSockets] IN
    /\ h \in scenario.handles \ DOMAIN listeners /\ MayCall
    /\ ~IsTaken(universe) /\ ~NoNetints(config, UsedSys(h))
    /\ \E fails \in Failures, starts \in {TRUE, net.running} :
          LET added == add_receiver_sockets(net, l, fails) IN
          /\ net' = IF added.res = "ok" THEN assign_to_thread(added, starts) ELSE added.net
          /\ listeners' = IF added.res = "ok" /\ starts THEN With(h, added.l) ELSE listeners
    /\ UNCHANGED <<scenario, sys, failed, changed, deaf>>

(* destroy_sacn_receiver, sacn_source_detector_destroy.                     *)
Destroy(h) ==
    /\ h \in DOMAIN listeners /\ MayCall
    /\ net' = remove_from_thread(listeners[h])
    /\ listeners' = Restrict(listeners, DOMAIN listeners \ {h})
    /\ failed' = failed \ {h} /\ changed' = changed \ {h}
    /\ UNCHANGED <<scenario, sys, deaf>>

(* change_sacn_receiver_universe: the sockets are removed and added after   *)
(* the universe was changed.                                                *)
ChangeUniverse(h, universe) ==
    LET l == [listeners[h] EXCEPT !.universe = universe] IN
    /\ scenario.changes /\ h \in (DOMAIN listeners) \ (failed \cup {Detector})
    /\ MayCall /\ ~IsTaken(universe)
    /\ \E fails \in Failures :
          LET added == add_receiver_sockets(remove_sockets(net, l, TRUE), l, fails) IN
          /\ net' = added.net
          /\ listeners' = [listeners EXCEPT ![h] = added.l]
          /\ failed' = IF added.res = "ok" THEN failed ELSE failed \cup {h}
    /\ changed' = changed \cup {h}
    /\ UNCHANGED <<scenario, sys, deaf>>

(* remove_all_receiver_sockets, in the order of the handles.                *)
InOrder(hs) == IF Detector \in hs THEN <<Detector>> ELSE Ascending(hs)

remove_all_receiver_sockets(c, hs, queued) ==
    FoldLeft(LAMBDA d, h : remove_sockets(d, listeners[h], queued), c, InOrder(hs))

(* One after the other until one fails, with new interfaces and sockets.    *)
ResetAll(c, hs, configs, usable, fails) ==
    LET Reset(so_far, h) ==
            LET l == [so_far.listeners[h] EXCEPT !.sockets = NoSockets]
                new == [l EXCEPT !.netints = InternalNetints(configs[h], usable)]
                added == add_receiver_sockets(so_far.net, new, fails) IN
            IF ~so_far.ok THEN [so_far EXCEPT !.listeners[h] = l]
            ELSE IF NoNetints(configs[h], usable)
            THEN [so_far EXCEPT !.ok = FALSE, !.listeners[h] = l]
            ELSE [net |-> added.net, ok |-> added.res = "ok",
                  listeners |-> [so_far.listeners EXCEPT ![h] = added.l]]
        removed == remove_all_receiver_sockets(c, hs, TRUE) IN
    FoldLeft(Reset, [net |-> removed, ok |-> TRUE, listeners |-> listeners],
             InOrder(hs))

(* sacn_receiver_reset_networking and ..._per_receiver, with the interfaces *)
(* that work now: an error if there is none, after those known before are   *)
(* forgotten.                                                               *)
ResetReceivers(working, configs) ==
    LET hs == DOMAIN listeners \ {Detector} IN
    /\ failed \subseteq {Detector} /\ MayCall
    /\ sys' = [sys EXCEPT !.receiver = working]
    /\ \E fails \in Failures :
          LET result == ResetAll(net, hs, configs, working, fails) IN
          IF working = {}
          THEN failed' = failed \cup hs /\ UNCHANGED <<listeners, net>>
          ELSE /\ net' = result.net /\ listeners' = result.listeners
               /\ failed' = IF result.ok THEN failed ELSE failed \cup hs
    /\ UNCHANGED <<scenario, changed, deaf>>

(* sacn_source_detector_reset_networking.                                   *)
ResetDetector(working) ==
    LET hs == DOMAIN listeners \cap {Detector} IN
    /\ Detector \notin failed /\ MayCall
    /\ sys' = [sys EXCEPT !.detector = working]
    /\ \E fails \in Failures :
          LET result == ResetAll(net, hs, [h \in hs |-> Default], working, fails) IN
          IF working = {}
          THEN failed' = failed \cup hs /\ UNCHANGED <<listeners, net>>
          ELSE /\ net' = result.net /\ listeners' = result.listeners
               /\ failed' = IF result.ok THEN failed ELSE failed \cup hs
    /\ UNCHANGED <<scenario, changed, deaf>>

-----------------------------------------------------------------------------
(* The thread, and the end.                                                 *)

(* sacn_receive_thread begins.                                              *)
ThreadStarts ==
    /\ net.running /\ ~net.poll_context_initialized
    /\ net' = [net EXCEPT !.poll_context_initialized = TRUE]
    /\ UNCHANGED <<scenario, sys, listeners, failed, changed, deaf>>

(* The part of read_network_and_process that has the lock.                  *)
Passed(c) ==
    sacn_add_pending_sockets(sacn_cleanup_dead_sockets(Joined(AllLeft(c))))

Pass ==
    /\ net.running /\ net.poll_context_initialized
    /\ net' = Passed(net) /\ net' # net
    /\ UNCHANGED <<scenario, sys, listeners, failed, changed, deaf>>

(* sacn_read fails on a socket: it is polled no longer.                     *)
ReadFails(socket) ==
    /\ net.running /\ net.poll_context_initialized /\ socket \in net.polled
    /\ scenario.ends
    /\ net' = [net EXCEPT !.polled = @ \ {socket}]
    /\ deaf' = TRUE
    /\ UNCHANGED <<scenario, sys, listeners, failed, changed>>

(* sacn_receiver_state_deinit: the thread is told to end, ends,             *)
DeinitSignals ==
    /\ scenario.ends /\ net.running /\ ~net.deinit_signal /\ Detector \notin DOMAIN listeners
    /\ net' = [net EXCEPT !.deinit_signal = TRUE]
    /\ UNCHANGED <<scenario, sys, listeners, failed, changed, deaf>>

ThreadEnds ==
    /\ net.deinit_signal /\ net.running /\ net.poll_context_initialized
    /\ net' = [net EXCEPT !.running = FALSE, !.poll_context_initialized = FALSE, !.polled = {}]
    /\ UNCHANGED <<scenario, sys, listeners, failed, changed, deaf>>

(* and what it left is cleaned up; the sockets of the source detector are   *)
(* not, it has to be destroyed before.                                      *)
DeinitCleansUp ==
    /\ net.deinit_signal /\ ~net.running
    /\ net' = [NewContext EXCEPT !.open =
                  remove_all_receiver_sockets(sacn_cleanup_dead_sockets(net), DOMAIN listeners, FALSE).open]
    /\ listeners' = [h \in {} |-> NoSockets]
    /\ sys' = [sys EXCEPT !.receiver = scenario.netints, !.detector = scenario.netints]
    /\ failed' = {} /\ changed' = {} /\ deaf' = FALSE
    /\ UNCHANGED scenario

Next ==
    \/ \E h \in scenario.handles :
          \/ \E universe \in UniverseOf(h), config \in Configs, types \in scenario.types :
                Create(h, universe, config, types)
          \/ Destroy(h)
          \/ \E universe \in scenario.universes : ChangeUniverse(h, universe)
    \/ \E working \in scenario.workings :
          \/ \E configs \in [DOMAIN listeners \ {Detector} -> Configs] :
                ResetReceivers(working, configs)
          \/ ResetDetector(working)
    \/ ThreadStarts \/ Pass
    \/ \E socket \in Sockets : ReadFails(socket)
    \/ DeinitSignals \/ ThreadEnds \/ DeinitCleansUp

Spec == Init /\ [][Next]_vars

-----------------------------------------------------------------------------
(* Properties.                                                              *)

Socket == [handle : Sockets, ip_type : IpTypes, bound : BOOLEAN, polling : BOOLEAN]

Listener ==
    [universe : Universes \cup {DiscoveryUniverse}, netints : SUBSET Netints,
     ip_supported : SUBSET IpTypes, sockets : [IpTypes -> Sockets \cup {NoSocket}]]

(* The type invariant.                                                      *)
TypeOK ==
    /\ scenario \in Scenarios
    /\ sys \in [receiver : SUBSET Netints, detector : SUBSET Netints]
    /\ DOMAIN listeners \subseteq Handles \cup {Detector}
    /\ listeners \in [DOMAIN listeners -> Listener]
    /\ \A i \in DOMAIN net.socket_refs :
          net.socket_refs[i] \in [socket : Socket, refcount : 1 .. MaxSubs, pending : BOOLEAN]
    /\ net.new_socket_refs \in 0 .. Len(net.socket_refs)
    /\ net.bound \subseteq IpTypes /\ net.polled \subseteq DOMAIN net.open
    /\ failed \subseteq DOMAIN listeners /\ changed \subseteq DOMAIN listeners

Refs == DOMAIN net.socket_refs
RefHandle(i) == net.socket_refs[i].socket.handle
RefType(i) == net.socket_refs[i].socket.ip_type

(* The sockets that are open are those in use and those waiting to be       *)
(* closed, each once: none is lost in a call that fails or in the end, and  *)
(* none is closed twice, by which another's would be closed.                *)
SocketsKept ==
    LET kept == [i \in Refs |-> RefHandle(i)]
                \o [i \in DOMAIN net.dead_sockets |-> net.dead_sockets[i].handle] IN
    IsInjective(kept) /\ Range(kept) = DOMAIN net.open

(* A socket is counted for each receiver that has it, and the count of new  *)
(* sockets is that of the last ones in the list, which alone are pending.   *)
RefCountsExact ==
    /\ \A i \in Refs :
          /\ net.socket_refs[i].refcount =
                Cardinality({h \in DOMAIN listeners :
                               listeners[h].sockets[RefType(i)] = RefHandle(i)})
          /\ net.socket_refs[i].pending <=> i > Len(net.socket_refs) - net.new_socket_refs
    /\ \A h \in DOMAIN listeners, t \in IpTypes :
          listeners[h].sockets[t] # NoSocket =>
              \E i \in Refs : RefHandle(i) = listeners[h].sockets[t] /\ RefType(i) = t

(* The sockets, the references to them and the receivers' handles agree after*)
(* every call and every step of the thread, completed or failed.            *)
Consistent == TypeOK /\ SocketsKept /\ RefCountsExact

(* The thread has done what was queued.                                     *)
Quiet ==
    /\ net.running /\ net.poll_context_initialized
    /\ net.subscribes = EmptyBag /\ net.unsubscribes = EmptyBag
    /\ net.dead_sockets = <<>> /\ net.new_socket_refs = 0

(* Of the sockets of a type one at most is bound.  When the thread has done *)
(* what was queued one is, and it is polled: the one that was may have been *)
(* closed with others in any state left to take its place.                  *)
OneIsBound ==
    \A t \in IpTypes :
       LET those == {i \in Refs : RefType(i) = t}
           bound == {i \in those : net.socket_refs[i].socket.bound} IN
       /\ Cardinality(bound) <= 1 /\ (t \in net.bound <=> bound # {})
       /\ Quiet /\ those # {} =>
             \E i \in bound : ~deaf => RefHandle(i) \in net.polled

(* The groups of a receiver that are to be joined on a socket.              *)
GroupsOf(h, t) ==
    {<<listeners[h].universe, n>> : n \in {n \in listeners[h].netints : Type(n) = t}}

Hears(h) ==
    \A t \in listeners[h].ip_supported :
        GroupsOf(h, t) \subseteq UNION {net.open[s] : s \in DOMAIN net.open}

(* When the thread has done what was queued, a receiver's universe is       *)
(* joined on each of its interfaces: requests to leave and to join, of      *)
(* receivers that share sockets, cancel out as they should.                 *)
HearsItsUniverse ==
    Quiet /\ ~scenario.changes => \A h \in (DOMAIN listeners) \ failed : Hears(h)

(* And a socket has joined nothing else.  A change of universe spoils both, *)
(* see ChangedIsHeard.                                                      *)
JoinedExactly ==
    Quiet /\ ~scenario.changes =>
        \A i \in Refs :
            net.open[RefHandle(i)] \subseteq
                UNION {GroupsOf(h, RefType(i)) :
                         h \in {h \in DOMAIN listeners :
                                  listeners[h].sockets[RefType(i)] = RefHandle(i)}}

(* The groups that are joined are those the receivers ask for.              *)
HearsExactly == HearsItsUniverse /\ JoinedExactly

(* "After this call completes successfully, the receiver [...] will provide *)
(* [...] UniverseData() notifications as packets are received for the       *)
(* universe" (receiver.c:257, of sacn_receiver_change_universe): it listens *)
(* to the universe it was changed to.                                       *)
ChangedIsHeard ==
    Quiet => \A h \in changed \ failed : Hears(h)
=============================================================================
