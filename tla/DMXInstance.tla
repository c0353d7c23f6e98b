---------------------------- MODULE DMXInstance ----------------------------
(***************************************************************************)
(* The protocol side of one DMX object (src/DMX.cpp, class DMX): init(),   *)
(* send() with its reconnects, the universe map as the protocols see it,   *)
(* and the calls that change a running protocol.                           *)
(*                                                                         *)
(* send_mutex and state_mutex are held across several steps, so their      *)
(* owners are variables.  The sections under fade_mutex and dmx_mutex are  *)
(* single actions (FadeEngine has what they protect), and so are the       *)
(* sections under serial_mutex, which take no further lock.  What a send() *)
(* does without state_mutex, reading artnet_node_obj and using it, is an   *)
(* action for each access.                                                 *)
(*                                                                         *)
(* Serial stands for the two serial protocols, which differ only in how a  *)
(* frame is written.                                                       *)
(***************************************************************************)
EXTENDS Integers, FiniteSets, FiniteSetsExt

CONSTANTS
    Threads,         \* the threads that call methods of the object
    NoThread,        \* the owner of a free mutex
    Universes,       \* the universe numbers callers use
    Created,         \* those that callers create with universe(u)
    MaxUniverses,    \* MAX_UNIVERSES, 64 in the code
    ArtNetMaxPorts,  \* ARTNET_MAX_PORTS, 4 in the code
    Protocols,       \* the protocols callers choose
    Ports, NoPort,   \* the serial ports callers name; the empty name
    Priorities,      \* the sACN priorities callers give
    Names,           \* the source names callers give
    LongNames,       \* those of them that sACN refuses
    DefaultPriority, DefaultName,
    MayFail          \* may a device or the network fail?

ASSUME ThreadsAssumption == NoThread \notin Threads
ASSUME UniversesAssumption ==
    /\ IsFiniteSet(Universes) /\ Universes \subseteq Nat \ {0}
    /\ 1 \in Universes /\ Created \subseteq Universes
ASSUME LimitsAssumption ==
    /\ MaxUniverses \in Nat \ {0} /\ ArtNetMaxPorts \in Nat \ {0}
    /\ MayFail \in BOOLEAN
ASSUME ProtocolsAssumption == Protocols \subseteq {"Serial", "sACN", "ArtNet"}
ASSUME PortsAssumption == NoPort \notin Ports
ASSUME SettingsAssumption ==
    /\ DefaultPriority \in Priorities /\ DefaultName \in Names
    /\ LongNames \subseteq Names

VARIABLES
    universes,        \* the keys of _universes
    active_universe,  \* _active_universe
    protocol,         \* _protocol
    serial_port,      \* the port named by port(), or NoPort
    source_name,      \* _source_name
    sacn_priority,    \* _sacn_priority
    initialized,      \* the protocols whose _..._initialized flag is set
    open_port,        \* the port serial_obj has open, or NoPort
    source,           \* the sACN source: its name, its universes' priorities
    artnet_node,      \* the node artnet_node_obj points to
    artnet_mappings,  \* _artnet_mappings: universe -> port index
    cooled_down,      \* have RECONNECT_COOLDOWN_MS passed since the last try?
    send_mutex, state_mutex,  \* the thread that holds the mutex, or NoThread
    pc,               \* where each thread is
    local             \* the local variables of the call each thread is in

map == <<universes, active_universe>>
settings == <<protocol, serial_port, source_name, sacn_priority>>
devices == <<initialized, open_port, source, artnet_node, artnet_mappings>>
mutexes == <<send_mutex, state_mutex>>
vars == <<map, settings, devices, cooled_down, mutexes, pc, local>>

-----------------------------------------------------------------------------
(* Data.                                                                    *)

NoMap == [u \in {} |-> 0]
Without(f, u) == [x \in DOMAIN f \ {u} |-> f[x]]
With(f, u, v) == [x \in DOMAIN f \cup {u} |-> IF x = u THEN v ELSE f[x]]
PartialMaps(R) == UNION {[S -> R] : S \in SUBSET Universes}

(* Art-Net's 4-bit subnet, and 4-bit address in the subnet, of a universe.  *)
Subnet(u) == ((u - 1) \div 16) % 16

AddrFromOne(u) == u % 16   \* mutant: universe 1 at address 1

Addr(u) == (u - 1) % 16

PortIds == 0 .. ArtNetMaxPorts - 1

(* The universes init_ArtNet gives ports to, by ascending number: those in  *)
(* the subnet of the lowest one, as far as the ports go.                    *)
Rank(u, keys) == Cardinality({v \in keys : v < u /\ Subnet(v) = Subnet(u)})

Mapped(keys) ==
    {u \in keys : Subnet(u) = Subnet(Min(keys)) /\ Rank(u, keys) < ArtNetMaxPorts}

ArtNetMap(keys) == [u \in Mapped(keys) |-> Rank(u, keys)]

(* The port addresses a node is given; a port left alone has address 0.     *)
PortAddrs(keys) ==
    [i \in PortIds |->
        IF \E u \in Mapped(keys) : Rank(u, keys) = i
        THEN Addr(CHOOSE u \in Mapped(keys) : Rank(u, keys) = i)
        ELSE 0]

NoNode == [state |-> "none", subnet |-> 0, addrs |-> [i \in PortIds |-> 0]]

Node(keys) == [state |-> "standby", subnet |-> Subnet(Min(keys)),
               addrs |-> PortAddrs(keys)]

NoSource == [up |-> FALSE, name |-> DefaultName, live |-> NoMap]

(* A call's locals: its argument (uni, priority, name), the snapshots it    *)
(* took (keys, mapping, protocol), the universes it has still to send, the  *)
(* node pointer it has loaded and whether a send has failed.                *)
Locals == [uni : Universes \cup {0}, priority : Priorities, name : Names,
           keys : SUBSET Universes, todo : SUBSET Universes,
           mapping : PartialMaps(PortIds),
           protocol : {"Serial", "sACN", "ArtNet"},
           node : {"null", "node", "freed"}, failed : BOOLEAN]

NoLocals == [uni |-> 0, priority |-> DefaultPriority, name |-> DefaultName,
             keys |-> {}, todo |-> {}, mapping |-> NoMap,
             protocol |-> "Serial", node |-> "null", failed |-> FALSE]

Locations == {"idle", "activate", "add", "rollback", "remove", "priority",
              "name", "deinit", "open", "start", "snapshot", "transmit",
              "call", "retry", "reopen"}

(* The calls that change a running protocol, and send(), take send_mutex.   *)
TakesSendMutex == {"add", "remove", "priority", "name", "transmit"}

-----------------------------------------------------------------------------

Init ==
    /\ universes = {1}
    /\ active_universe = 1
    /\ protocol = "Serial"
    /\ serial_port = NoPort
    /\ source_name = DefaultName
    /\ sacn_priority = DefaultPriority
    /\ initialized = {}
    /\ open_port = NoPort
    /\ source = NoSource
    /\ artnet_node = NoNode
    /\ artnet_mappings = NoMap
    /\ cooled_down = TRUE
    /\ send_mutex = NoThread
    /\ state_mutex = NoThread
    /\ pc = [t \in Threads |-> "idle"]
    /\ local = [t \in Threads |-> NoLocals]

StateFree == state_mutex = NoThread

NotReleased(mutex, t) == mutex   \* mutant: a return that keeps its locks

Released(mutex, t) == IF mutex = t THEN NoThread ELSE mutex

Goto(t, from, to) == pc[t] = from /\ pc' = [pc EXCEPT ![t] = to]

(* Thread t enters a method whose argument and first reads become locals.   *)
Call(t, to, args) ==
    /\ Goto(t, "idle", to)
    /\ local' = [local EXCEPT ![t] = args]
    /\ UNCHANGED <<settings, devices, cooled_down, mutexes>>

(* The method of thread t returns and its lock_guards release.              *)
Return(t, from) ==
    /\ Goto(t, from, "idle")
    /\ local' = [local EXCEPT ![t] = NoLocals]
    /\ send_mutex' = Released(send_mutex, t)
    /\ state_mutex' = Released(state_mutex, t)

LockSend(t) ==
    /\ pc[t] \in TakesSendMutex
    /\ send_mutex = NoThread
    /\ send_mutex' = t
    /\ UNCHANGED <<map, settings, devices, cooled_down, state_mutex, pc, local>>

(* Where thread t has send_mutex and may enter state_mutex's section.       *)
AtLiveUpdate(t, at) == pc[t] = at /\ send_mutex = t /\ StateFree

-----------------------------------------------------------------------------
(* protocol(p) and port(p).                                                 *)

SetProtocol(t, p) ==
    /\ pc[t] = "idle" /\ StateFree
    /\ protocol' = p
    /\ UNCHANGED <<map, serial_port, source_name, sacn_priority, devices,
                   cooled_down, mutexes, pc, local>>

SetPort(t, p) ==
    /\ pc[t] = "idle" /\ StateFree
    /\ serial_port' = p
    /\ UNCHANGED <<map, protocol, source_name, sacn_priority, devices,
                   cooled_down, mutexes, pc, local>>

-----------------------------------------------------------------------------
(* universe(u): never touches a running protocol.                           *)

SetUniverse(t, u) ==
    /\ \/ u \in universes
       \/ u \in Created /\ Cardinality(universes) < MaxUniverses
    /\ universes' = universes \cup {u}
    /\ Call(t, "activate", [NoLocals EXCEPT !.uni = u])
    /\ UNCHANGED active_universe

Activate(t) ==
    /\ Return(t, "activate")
    /\ active_universe' = local[t].uni
    /\ UNCHANGED <<universes, settings, devices, cooled_down>>

(* addUniverse(u).                                                          *)
AddUniverse(t, u) ==
    /\ u \notin universes
    /\ Cardinality(universes) < MaxUniverses
    /\ universes' = universes \cup {u}
    /\ Call(t, "add", [NoLocals EXCEPT !.uni = u])
    /\ UNCHANGED active_universe

(* sacn::Source::AddUniverse: refused for a universe the source has.        *)
AddLiveFails(t) ==
    /\ AtLiveUpdate(t, "add")
    /\ "sACN" \in initialized
    /\ local[t].uni \in DOMAIN source.live \/ MayFail
    /\ Goto(t, "add", "rollback")
    /\ send_mutex' = NoThread
    /\ UNCHANGED <<map, settings, devices, cooled_down, state_mutex, local>>

Added(u) == [source EXCEPT !.live = With(@, u, sacn_priority)]

AddLive(t) ==
    LET u == local[t].uni IN
    /\ AtLiveUpdate(t, "add")
    /\ \/ "sACN" \notin initialized /\ UNCHANGED source
       \/ /\ "sACN" \in initialized /\ u \notin DOMAIN source.live
          /\ source' = Added(u)
    /\ Return(t, "add")
    /\ UNCHANGED <<map, settings, initialized, open_port, artnet_node,
                   artnet_mappings, cooled_down>>

RollBack(t) ==
    /\ Return(t, "rollback")
    /\ universes' = universes \ {local[t].uni}
    /\ UNCHANGED <<active_universe, settings, devices, cooled_down>>

(* removeUniverse(u).                                                       *)
RemoveUniverse(t, u) ==
    /\ u \in universes
    /\ Cardinality(universes) > 1
    /\ universes' = universes \ {u}
    /\ active_universe' = IF active_universe = u THEN Min(universes \ {u})
                                                 ELSE active_universe
    /\ Call(t, "remove", [NoLocals EXCEPT !.uni = u])

Remains(u) == source   \* mutant: the source keeps the universe

Removed(u) == [source EXCEPT !.live = Without(@, u)]

(* mutant: the mappings behind the removed one are renumbered.              *)
Renumbered(mappings, u) ==
    [x \in DOMAIN mappings \ {u} |->
        IF u \in DOMAIN mappings /\ mappings[x] > mappings[u]
        THEN mappings[x] - 1 ELSE mappings[x]]

Unmapped(mappings, u) == Without(mappings, u)

RemoveLive(t) ==
    LET u == local[t].uni IN
    /\ AtLiveUpdate(t, "remove")
    /\ source' = IF "sACN" \in initialized THEN Removed(u) ELSE source
    /\ artnet_mappings' = IF "ArtNet" \in initialized
                          THEN Unmapped(artnet_mappings, u) ELSE artnet_mappings
    /\ Return(t, "remove")
    /\ UNCHANGED <<map, settings, initialized, open_port, artnet_node,
                   cooled_down>>

-----------------------------------------------------------------------------
(* priority(p): the universes by ascending number, up to the first one the  *)
(* source does not have.                                                    *)

SetPriority(t, p) ==
    /\ Call(t, "priority", [NoLocals EXCEPT !.priority = p, !.keys = universes])
    /\ UNCHANGED map

Changed(keys) ==
    {u \in keys \cap DOMAIN source.live :
        \A v \in keys \ DOMAIN source.live : u < v}

PriorityLive(t) ==
    LET keys == local[t].keys
        p == local[t].priority IN
    /\ AtLiveUpdate(t, "priority")
    /\ \/ /\ "sACN" \notin initialized
          /\ sacn_priority' = p
          /\ UNCHANGED source
       \/ /\ "sACN" \in initialized
          /\ sacn_priority' = IF keys \subseteq DOMAIN source.live
                              THEN p ELSE sacn_priority
          /\ source' = [source EXCEPT !.live =
               [u \in DOMAIN @ |-> IF u \in Changed(keys) THEN p ELSE @[u]]]
    /\ Return(t, "priority")
    /\ UNCHANGED <<map, protocol, serial_port, source_name, initialized,
                   open_port, artnet_node, artnet_mappings, cooled_down>>

(* name(n): sACN refuses a name that is too long.                           *)
SetName(t, n) ==
    /\ Call(t, "name", [NoLocals EXCEPT !.name = n])
    /\ UNCHANGED map

NameAccepted(n) == "sACN" \in initialized => n \notin LongNames

NameLive(t) ==
    LET n == local[t].name IN
    /\ AtLiveUpdate(t, "name")
    /\ source_name' = IF NameAccepted(n) THEN n ELSE source_name
    /\ source' = IF "sACN" \in initialized /\ n \notin LongNames
                 THEN [source EXCEPT !.name = n] ELSE source
    /\ Return(t, "name")
    /\ UNCHANGED <<map, protocol, serial_port, sacn_priority, initialized,
                   open_port, artnet_node, artnet_mappings, cooled_down>>

-----------------------------------------------------------------------------
(* init(): takes state_mutex, but not send_mutex.                           *)

InitKeys(t) ==
    /\ Call(t, "deinit", [NoLocals EXCEPT !.keys = universes])
    /\ UNCHANGED map

(* artnet_destroy frees the node: a pointer loaded before it dangles.       *)
Dangling(l) == IF l.node = "node" THEN [l EXCEPT !.node = "freed"] ELSE l

DestroyNode ==
    /\ artnet_node' = NoNode
    /\ artnet_mappings' = NoMap

SerialAfterDeinit == IF "Serial" \in initialized THEN NoPort ELSE open_port

SourceAfterDeinit == IF "sACN" \in initialized THEN NoSource ELSE source

(* deinit_all().                                                            *)
Deinit(t) ==
    /\ Goto(t, "deinit", "open")
    /\ StateFree
    /\ state_mutex' = t
    /\ initialized' = {}
    /\ open_port' = SerialAfterDeinit
    /\ source' = SourceAfterDeinit
    /\ IF "ArtNet" \in initialized
       THEN DestroyNode
       ELSE UNCHANGED <<artnet_node, artnet_mappings>>
    /\ local' = [x \in Threads |->
         IF x = t THEN [local[t] EXCEPT !.protocol = protocol]
         ELSE IF "ArtNet" \in initialized THEN Dangling(local[x])
         ELSE local[x]]
    /\ UNCHANGED <<map, settings, cooled_down, send_mutex>>

(* The ports serial_obj may have open after openPort().                     *)
OpenPort ==
    {p \in {serial_port, NoPort} : p = NoPort => MayFail \/ serial_port = NoPort}

InitSerial(t) ==
    /\ local[t].protocol = "Serial"
    /\ IF serial_port = NoPort
       THEN UNCHANGED <<open_port, initialized>>
       ELSE /\ open_port' \in OpenPort
            /\ initialized' = IF open_port' = NoPort THEN initialized
                              ELSE initialized \cup {"Serial"}
    /\ Return(t, "open")
    /\ UNCHANGED <<map, settings, source, artnet_node, artnet_mappings, cooled_down>>

(* init_sACN: a failure of any step shuts the source down again.            *)
InitSacn(t) ==
    /\ local[t].protocol = "sACN"
    /\ \/ /\ source_name \notin LongNames
          /\ source' = [up |-> TRUE, name |-> source_name,
                        live |-> [u \in local[t].keys |-> sacn_priority]]
          /\ initialized' = initialized \cup {"sACN"}
       \/ /\ source_name \in LongNames \/ MayFail
          /\ UNCHANGED <<source, initialized>>
    /\ Return(t, "open")
    /\ UNCHANGED <<map, settings, open_port, artnet_node, artnet_mappings, cooled_down>>

(* init_ArtNet as far as artnet_start: the node exists and is in standby.   *)
NewNode(t) ==
    /\ local[t].protocol = "ArtNet"
    /\ local[t].keys # {}
    /\ Goto(t, "open", "start")
    /\ artnet_node' = Node(local[t].keys)
    /\ artnet_mappings' = ArtNetMap(local[t].keys)
    /\ UNCHANGED <<map, settings, initialized, open_port, source, cooled_down,
                   mutexes, local>>

NoNewNode(t) ==
    /\ local[t].protocol = "ArtNet"
    /\ local[t].keys = {} \/ MayFail
    /\ Return(t, "open")
    /\ UNCHANGED <<map, settings, devices, cooled_down>>

StartNode(t) ==
    /\ Return(t, "start")
    /\ artnet_node' = [artnet_node EXCEPT !.state = "on"]
    /\ initialized' = initialized \cup {"ArtNet"}
    /\ UNCHANGED <<map, settings, open_port, source, artnet_mappings, cooled_down>>

StartNodeFails(t) ==
    /\ MayFail
    /\ Goto(t, "start", "idle")
    /\ DestroyNode
    /\ local' = [x \in Threads |-> IF x = t THEN NoLocals ELSE Dangling(local[x])]
    /\ send_mutex' = Released(send_mutex, t)
    /\ state_mutex' = NoThread
    /\ UNCHANGED <<map, settings, initialized, open_port, source, cooled_down>>

Open(t) ==
    \/ InitSerial(t) \/ InitSacn(t)
    \/ NewNode(t) \/ NoNewNode(t) \/ StartNode(t) \/ StartNodeFails(t)

-----------------------------------------------------------------------------
(* send(), after update_fades(): snapshots, then I/O under send_mutex.      *)

SendState(t) ==
    /\ StateFree
    /\ Call(t, "snapshot", [NoLocals EXCEPT !.protocol = protocol,
                                            !.mapping = artnet_mappings])
    /\ UNCHANGED map

SendData(t) ==
    /\ Goto(t, "snapshot", "transmit")
    /\ local' = [local EXCEPT ![t].keys = universes, ![t].todo = universes]
    /\ UNCHANGED <<map, settings, devices, cooled_down, mutexes>>

Transmitting(t, p) == pc[t] = "transmit" /\ send_mutex = t /\ local[t].protocol = p

(* mutant: only a port that init() opened is opened again.                  *)
ReopensInitialized == cooled_down /\ "Serial" \in initialized

Reopens == cooled_down

(* send_Serial, for the active universe: a closed port is opened again once *)
(* the cooldown is over, and a failed write closes it.                      *)
SendSerial(t) ==
    /\ Transmitting(t, "Serial")
    /\ \/ /\ active_universe \in local[t].keys => open_port = NoPort /\ ~Reopens
          /\ UNCHANGED <<open_port, cooled_down>>
       \/ /\ active_universe \in local[t].keys
          /\ open_port # NoPort
          /\ open_port' \in {open_port} \cup (IF MayFail THEN {NoPort} ELSE {})
          /\ UNCHANGED cooled_down
       \/ /\ active_universe \in local[t].keys
          /\ open_port = NoPort /\ Reopens
          /\ open_port' \in OpenPort
          /\ cooled_down' = FALSE
    /\ Return(t, "transmit")
    /\ UNCHANGED <<map, settings, initialized, source, artnet_node, artnet_mappings>>

(* UpdateLevels for every universe of the snapshot: it returns nothing, and *)
(* does nothing for a universe the source does not have.                    *)
SendSacn(t) ==
    /\ Transmitting(t, "sACN")
    /\ Return(t, "transmit")
    /\ UNCHANGED <<map, settings, devices, cooled_down>>

Sending(t) == Min(local[t].todo)

NextUniverse(t, failed) ==
    local' = [local EXCEPT ![t].todo = @ \ {Sending(t)}, ![t].node = "null",
                           ![t].failed = @ \/ failed]

SkipUniverse(t) ==
    /\ Transmitting(t, "ArtNet")
    /\ local[t].todo # {} /\ Sending(t) \notin DOMAIN local[t].mapping
    /\ NextUniverse(t, FALSE)
    /\ UNCHANGED <<map, settings, devices, cooled_down, mutexes, pc>>

(* artnet_node_obj is read for the call, without state_mutex.               *)
LoadNode(t) ==
    /\ Transmitting(t, "ArtNet")
    /\ local[t].todo # {} /\ Sending(t) \in DOMAIN local[t].mapping
    /\ Goto(t, "transmit", "call")
    /\ local' = [local EXCEPT ![t].node =
                   IF artnet_node.state = "none" THEN "null" ELSE "node"]
    /\ UNCHANGED <<map, settings, devices, cooled_down, mutexes>>

(* artnet_send_dmx: an error without a node, or before artnet_start; a      *)
(* freed node may do anything.                                              *)
SendOutcomes(t) ==
    CASE local[t].node = "null" -> {FALSE}
      [] local[t].node = "freed" -> BOOLEAN
      [] artnet_node.state = "on" -> {TRUE} \cup (IF MayFail THEN {FALSE} ELSE {})
      [] OTHER -> {FALSE}

CallNode(t) ==
    /\ Goto(t, "call", "transmit")
    /\ \E ok \in SendOutcomes(t) : NextUniverse(t, ~ok)
    /\ UNCHANGED <<map, settings, devices, cooled_down, mutexes>>

SentArtNet(t) ==
    /\ Transmitting(t, "ArtNet")
    /\ local[t].todo = {} /\ (local[t].failed => ~cooled_down)
    /\ Return(t, "transmit")
    /\ UNCHANGED <<map, settings, devices, cooled_down>>

(* can_attempt_reconnect() comes before state_mutex.                        *)
Reconnect(t) ==
    /\ Transmitting(t, "ArtNet")
    /\ local[t].todo = {} /\ local[t].failed /\ cooled_down
    /\ Goto(t, "transmit", "reopen")
    /\ cooled_down' = FALSE
    /\ UNCHANGED <<map, settings, devices, mutexes, local>>

WithoutArtNet == initialized \ {"ArtNet"}

(* deinit_ArtNet(); init_ArtNet(uni_keys) follows.  No other thread has the *)
(* node's pointer: it would be in a send(), and t has send_mutex.           *)
DeinitArtNet(t) ==
    /\ Goto(t, "reopen", "open")
    /\ StateFree
    /\ state_mutex' = t
    /\ IF "ArtNet" \in initialized
       THEN DestroyNode
       ELSE UNCHANGED <<artnet_node, artnet_mappings>>
    /\ initialized' = WithoutArtNet
    /\ UNCHANGED <<map, settings, open_port, source, cooled_down, send_mutex, local>>

CooldownElapses ==
    /\ ~cooled_down
    /\ cooled_down' = TRUE
    /\ UNCHANGED <<map, settings, devices, mutexes, pc, local>>

-----------------------------------------------------------------------------

Enter(t) ==
    \/ \E p \in Protocols : SetProtocol(t, p)
    \/ \E p \in Ports : SetPort(t, p)
    \/ \E u \in Universes : SetUniverse(t, u) \/ AddUniverse(t, u) \/ RemoveUniverse(t, u)
    \/ \E p \in Priorities : SetPriority(t, p)
    \/ \E n \in Names : SetName(t, n)
    \/ InitKeys(t)
    \/ SendState(t)

Continue(t) ==
    \/ LockSend(t)
    \/ Activate(t)
    \/ AddLiveFails(t) \/ AddLive(t) \/ RollBack(t)
    \/ RemoveLive(t) \/ PriorityLive(t) \/ NameLive(t)
    \/ Deinit(t)
    \/ Open(t)
    \/ SendData(t)
    \/ SendSerial(t) \/ SendSacn(t)
    \/ SkipUniverse(t) \/ LoadNode(t) \/ CallNode(t) \/ SentArtNet(t)
    \/ Reconnect(t) \/ DeinitArtNet(t)

Next == CooldownElapses \/ \E t \in Threads : Enter(t) \/ Continue(t)

Spec == Init /\ [][Next]_vars

-----------------------------------------------------------------------------

Idle == \A t \in Threads : pc[t] = "idle"

(* The type invariant.                                                      *)
TypeOK ==
    /\ universes \subseteq Universes
    /\ active_universe \in Universes
    /\ protocol \in Protocols \cup {"Serial"}
    /\ serial_port \in Ports \cup {NoPort}
    /\ source_name \in Names
    /\ sacn_priority \in Priorities
    /\ initialized \subseteq {"Serial", "sACN", "ArtNet"}
    /\ open_port \in Ports \cup {NoPort}
    /\ source \in [up : BOOLEAN, name : Names, live : PartialMaps(Priorities)]
    /\ artnet_node \in [state : {"none", "standby", "on"}, subnet : 0 .. 15,
                        addrs : [PortIds -> 0 .. 15]]
    /\ artnet_mappings \in PartialMaps(PortIds)
    /\ cooled_down \in BOOLEAN
    /\ send_mutex \in Threads \cup {NoThread}
    /\ state_mutex \in Threads \cup {NoThread}
    /\ pc \in [Threads -> Locations]
    /\ local \in [Threads -> Locals]

(* The sACN and Art-Net flags say what their devices are: connected() and   *)
(* deinit_all() go by the flags, so a flag that outlives its device makes   *)
(* connected() lie, and a device that outlives its flag is never closed.    *)
FlagsMatchDevices ==
    StateFree =>
        /\ "sACN" \in initialized <=> source.up
        /\ "ArtNet" \in initialized <=> artnet_node.state = "on"
        /\ artnet_node.state \in {"none", "on"}

(* The Port-Address a port of the node sends to: a universe u belongs at    *)
(* u - 1, with universe 1 at 0:0:0; init_ArtNet sets no net, so only the    *)
(* low 8 bits of the address can be right.                                  *)
PortAddress(port) == 16 * artnet_node.subnet + artnet_node.addrs[port]
Belongs(u, port) == PortAddress(port) = (u - 1) % 256

(* A mapping left behind by init(), removeUniverse() or a reconnect names   *)
(* the port whose address is its universe's own: no universe is ever sent   *)
(* out under the number of another.                                         *)
MappingMatchesNode ==
    \A u \in DOMAIN artnet_mappings :
        artnet_node.state # "none" /\ Belongs(u, artnet_mappings[u])

(* The frame that artnet_send_dmx is about to transmit goes to the address  *)
(* of its universe, though the mapping used is a snapshot.                  *)
FramesReachTheirUniverse ==
    \A t \in Threads :
        pc[t] = "call" /\ local[t].node = "node" /\ artnet_node.state = "on" =>
            Belongs(Sending(t), local[t].mapping[Sending(t)])

(* Every universe of the source has the priority that priority() returns.   *)
PrioritiesAgree ==
    Idle => \A u \in DOMAIN source.live : source.live[u] = sacn_priority

(* The running source has the name that name() returns.                     *)
NameAgrees == "sACN" \in initialized => source.name = source_name

(* What holds outside the sections of state_mutex, whatever threads do: the *)
(* types, and that flags, devices, mappings and names agree.                *)
DevicesAgree == TypeOK /\ FlagsMatchDevices /\ MappingMatchesNode /\ NameAgrees

(* init() shuts the previous protocol down: the sACN source and the Art-Net *)
(* node are never both up.                                                  *)
OneProtocolUp == ~(source.up /\ artnet_node.state = "on")
=============================================================================
