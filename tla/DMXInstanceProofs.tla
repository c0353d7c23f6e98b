------------------------- MODULE DMXInstanceProofs -------------------------
(***************************************************************************)
(* The protocol side of a DMX object, for any threads, universes, ports    *)
(* and settings: flags, devices and Art-Net mappings agree whenever no     *)
(* thread is inside state_mutex; and what a lone thread may rely on.       *)
(***************************************************************************)
EXTENDS MCDMXInstance, FiniteSetTheorems, WellFoundedInduction, TLAPS

USE ThreadsAssumption, UniversesAssumption, LimitsAssumption, ProtocolsAssumption,
    PortsAssumption, SettingsAssumption, ScenariosAssumption

-----------------------------------------------------------------------------
(* Data.                                                                    *)

(* A non-empty set of naturals has a smallest element.                      *)
LEMMA MinIsLeast ==
    ASSUME NEW S \in SUBSET Nat, S # {}
    PROVE  Min(S) \in S /\ \A y \in S : Min(S) <= y
<1> DEFINE R == OpToRel(<, Nat)
<1>1. \A x, y \in Nat : <<y, x>> \in R <=> y < x
  BY DEF OpToRel
<1>2. IsWellFoundedOn(R, Nat)
  BY NatLessThanWellFounded
<1> HIDE DEF R
<1>3. PICK x \in S : \A y \in S : ~(<<y, x>> \in R)
  BY <1>2, WFMin
<1>4. ASSUME NEW y \in S PROVE x <= y
  <2>1. x \in Nat /\ y \in Nat /\ ~(y < x)
    BY <1>1, <1>3
  <2> QED
    BY <2>1
<1> QED
  BY <1>4 DEF Min

(* Sets of universes are finite, and their ranks within a subnet counts.    *)
LEMMA KeysFinite ==
    ASSUME NEW keys \in SUBSET Universes
    PROVE  /\ IsFiniteSet(keys) /\ Cardinality(keys) \in Nat
           /\ \A u \in keys : Rank(u, keys) \in Nat
<1>1. ASSUME NEW S \in SUBSET keys PROVE IsFiniteSet(S) /\ Cardinality(S) \in Nat
  <2>1. IsFiniteSet(keys)
    BY FS_Subset
  <2>2. IsFiniteSet(S)
    BY <2>1, FS_Subset
  <2> QED
    BY <2>2, FS_CardinalityType
<1>2. ASSUME NEW u \in keys PROVE Rank(u, keys) \in Nat
  BY <1>1 DEF Rank
<1> QED
  BY <1>1, <1>2

(* Two universes of one subnet have different ranks.                        *)
LEMMA RanksDiffer ==
    ASSUME NEW keys \in SUBSET Universes, NEW u \in keys, NEW v \in keys,
           Subnet(u) = Subnet(v), u < v
    PROVE  Rank(u, keys) < Rank(v, keys)
<1> DEFINE U == {w \in keys : w < u /\ Subnet(w) = Subnet(u)}
           V == {w \in keys : w < v /\ Subnet(w) = Subnet(v)}
<1>1. IsFiniteSet(U) /\ IsFiniteSet(V)
  BY KeysFinite, FS_Subset
<1>2. U \subseteq V /\ u \in V /\ u \notin U
  <2>1. u \in Nat /\ v \in Nat /\ \A w \in keys : w \in Nat
    OBVIOUS
  <2>2. u \in V /\ u \notin U
    BY <2>1
  <2>3. ASSUME NEW w \in U PROVE w \in V
    <3>1. w < v
      BY <2>1
    <3> QED
      BY <3>1
  <2> QED
    BY <2>2, <2>3
<1>3. Rank(u, keys) = Cardinality(U) /\ Rank(v, keys) = Cardinality(V)
  BY DEF Rank
<1> HIDE DEF U, V
<1>4. Cardinality(U \cup {u}) = Cardinality(U) + 1 /\ U \cup {u} \in SUBSET V
  BY <1>1, <1>2, FS_AddElement
<1>5. Cardinality(U \cup {u}) <= Cardinality(V)
  BY <1>1, <1>4, FS_Subset
<1>6. Cardinality(U) \in Nat /\ Cardinality(V) \in Nat
  BY <1>1, FS_CardinalityType
<1> QED
  BY <1>3, <1>4, <1>5, <1>6

(* Art-Net's addresses.                                                     *)
LEMMA AddressTypes ==
    ASSUME NEW u \in Universes
    PROVE  /\ Subnet(u) \in 0 .. 15 /\ Addr(u) \in 0 .. 15
           /\ 16 * Subnet(u) + Addr(u) = (u - 1) % 256
<1>1. u - 1 \in Nat
  OBVIOUS
<1>2. ASSUME NEW n \in Nat
      PROVE  /\ (n \div 16) % 16 \in 0 .. 15 /\ n % 16 \in 0 .. 15
             /\ 16 * ((n \div 16) % 16) + (n % 16) = n % 256
  BY <1>2, Z3
<1> QED
  BY <1>1, <1>2 DEF Subnet, Addr

(* The node types of TypeOK.                                                *)
Nodes == [state : {"none", "standby", "on"}, subnet : 0 .. 15, addrs : [PortIds -> 0 .. 15]]

(* init_ArtNet's mapping names, for each universe it maps, the port whose   *)
(* address is the universe's own.                                           *)
LEMMA NewNodeSound ==
    ASSUME NEW keys \in SUBSET Universes, keys # {}
    PROVE  /\ Node(keys) \in Nodes
           /\ ArtNetMap(keys) \in PartialMaps(PortIds)
           /\ \A u \in DOMAIN ArtNetMap(keys) :
                 16 * Node(keys).subnet + Node(keys).addrs[ArtNetMap(keys)[u]]
                   = (u - 1) % 256
<1> DEFINE M == Mapped(keys)
<1>1. Min(keys) \in keys
  BY MinIsLeast
<1>2. M \subseteq keys /\ \A u \in M : /\ Subnet(u) = Subnet(Min(keys))
                                      /\ Rank(u, keys) \in PortIds
  <2>1. ASSUME NEW u \in M PROVE Rank(u, keys) \in PortIds
    <3>1. Rank(u, keys) \in Nat /\ Rank(u, keys) < ArtNetMaxPorts
      BY KeysFinite DEF Mapped
    <3> QED
      BY <3>1 DEF PortIds
  <2> QED
    BY <2>1 DEF Mapped
<1>3. ASSUME NEW u \in M, NEW v \in M, Rank(u, keys) = Rank(v, keys) PROVE u = v
  <2>1. u \in Nat /\ v \in Nat
    BY <1>2
  <2>2. u \in keys /\ v \in keys /\ Subnet(u) = Subnet(v)
    BY <1>2
  <2>3. Rank(u, keys) \in Nat
    BY <2>2, KeysFinite
  <2>4. ~(u < v)
    BY <1>3, <2>2, <2>3, RanksDiffer
  <2>5. ~(v < u)
    BY <1>3, <2>2, <2>3, RanksDiffer
  <2> QED
    BY <2>1, <2>4, <2>5
<1> HIDE DEF M
<1>4. ASSUME NEW u \in M PROVE PortAddrs(keys)[Rank(u, keys)] = Addr(u)
  <2> DEFINE w == CHOOSE w \in M : Rank(w, keys) = Rank(u, keys)
  <2>1. w \in M /\ Rank(w, keys) = Rank(u, keys)
    OBVIOUS
  <2>2. w = u
    BY <1>3, <2>1
  <2>3. PortAddrs(keys)[Rank(u, keys)] = Addr(w)
    BY <1>2 DEF PortAddrs, M
  <2> QED
    BY <2>2, <2>3
<1>5. ArtNetMap(keys) = [u \in M |-> Rank(u, keys)]
  BY DEF ArtNetMap, M
<1>6. ArtNetMap(keys) \in PartialMaps(PortIds)
  <2>1. ArtNetMap(keys) \in [M -> PortIds]
    BY <1>2, <1>5
  <2>2. M \in SUBSET Universes
    BY <1>2
  <2> QED
    BY <2>1, <2>2 DEF PartialMaps
<1>7. PortAddrs(keys) \in [PortIds -> 0 .. 15]
  <2>1. ASSUME NEW i \in PortIds, NEW u \in M, Rank(u, keys) = i
        PROVE  PortAddrs(keys)[i] \in 0 .. 15
    <3>1. u \in Universes
      BY <1>2
    <3>2. Addr(u) \in 0 .. 15
      BY <3>1, AddressTypes
    <3> QED
      BY <1>4, <2>1, <3>2
  <2>2. ASSUME NEW i \in PortIds, ~ \E u \in M : Rank(u, keys) = i
        PROVE  PortAddrs(keys)[i] = 0
    BY <2>2 DEF PortAddrs, M
  <2>3. \A i \in PortIds : PortAddrs(keys)[i] \in 0 .. 15
    BY <2>1, <2>2
  <2>4. PortAddrs(keys) = [i \in PortIds |-> PortAddrs(keys)[i]]
    BY DEF PortAddrs
  <2> QED
    BY <2>3, <2>4
<1>8. Node(keys).subnet = Subnet(Min(keys)) /\ Node(keys).addrs = PortAddrs(keys)
  BY DEF Node
<1>9. Node(keys) \in Nodes
  <2>1. Subnet(Min(keys)) \in 0 .. 15
    BY <1>1, AddressTypes
  <2> QED
    BY <1>7, <2>1 DEF Node, Nodes
<1>10. ASSUME NEW u \in M
       PROVE  16 * Node(keys).subnet + Node(keys).addrs[ArtNetMap(keys)[u]]
                = (u - 1) % 256
  <2>1. /\ Node(keys).subnet = Subnet(u)
        /\ Node(keys).addrs[ArtNetMap(keys)[u]] = Addr(u)
    BY <1>2, <1>4, <1>5, <1>8
  <2>2. u \in Universes
    BY <1>2
  <2> QED
    BY <2>1, <2>2, AddressTypes
<1> QED
  BY <1>5, <1>6, <1>9, <1>10

(* Partial maps.                                                            *)
LEMMA MapFacts ==
    ASSUME NEW R, NEW f \in PartialMaps(R)
    PROVE  /\ DOMAIN f \in SUBSET Universes
           /\ f = [u \in DOMAIN f |-> f[u]]
           /\ \A u \in DOMAIN f : f[u] \in R
BY DEF PartialMaps

(* A function over some of the universes is a partial map.                  *)
LEMMA IsMap ==
    ASSUME NEW R, NEW S \in SUBSET Universes, NEW f \in [S -> R]
    PROVE  f \in PartialMaps(R)
BY DEF PartialMaps

(* What With and Without make of a partial map.                             *)
LEMMA MapChanges ==
    ASSUME NEW R, NEW f \in PartialMaps(R), NEW u
    PROVE  /\ Without(f, u) \in PartialMaps(R)
           /\ DOMAIN Without(f, u) = DOMAIN f \ {u}
           /\ \A v \in R : u \in Universes =>
                 With(f, u, v) \in PartialMaps(R) /\ DOMAIN With(f, u, v) = DOMAIN f \cup {u}
<1>1. Without(f, u) \in [DOMAIN f \ {u} -> R]
  BY MapFacts DEF Without
<1>2. ASSUME NEW v \in R, u \in Universes
      PROVE  With(f, u, v) \in [DOMAIN f \cup {u} -> R]
  BY MapFacts DEF With
<1>3. DOMAIN f \in SUBSET Universes
  BY MapFacts
<1>4. DOMAIN f \ {u} \in SUBSET Universes
  BY <1>3
<1>5. Without(f, u) \in PartialMaps(R)
  BY <1>1, <1>4, IsMap
<1>6. ASSUME NEW v \in R, u \in Universes
      PROVE  /\ With(f, u, v) \in PartialMaps(R)
             /\ DOMAIN With(f, u, v) = DOMAIN f \cup {u}
  <2>1. DOMAIN f \cup {u} \in SUBSET Universes
    BY <1>3, <1>6
  <2> QED
    BY <1>2, <1>6, <2>1, IsMap
<1> QED
  BY <1>1, <1>5, <1>6

(* The empty map and the initial locals and devices are typed.              *)
LEMMA BlankTypes ==
    /\ \A R : NoMap \in PartialMaps(R)
    /\ DOMAIN NoMap = {}
    /\ NoNode \in Nodes /\ NoNode.state = "none"
    /\ NoSource \in [up : BOOLEAN, name : Names, live : PartialMaps(Priorities)]
    /\ ~NoSource.up /\ NoSource.live = NoMap
    /\ NoLocals \in Locals
<1>1. ASSUME NEW R PROVE NoMap \in PartialMaps(R)
  <2>1. NoMap \in [{} -> R]
    BY DEF NoMap
  <2> QED
    BY <2>1, IsMap
<1>2. NoNode \in Nodes
  BY DEF NoNode, Nodes
<1>3. NoMap \in PartialMaps(Priorities) /\ NoMap \in PartialMaps(PortIds)
  BY <1>1
<1>4. NoSource \in [up : BOOLEAN, name : Names, live : PartialMaps(Priorities)]
  BY <1>3 DEF NoSource
<1>5. NoLocals \in Locals
  BY <1>3 DEF NoLocals, Locals
<1> QED
  BY <1>1, <1>2, <1>4, <1>5 DEF NoMap, NoNode, NoSource

-----------------------------------------------------------------------------
(* Types and locks.                                                         *)

(* The calls whose argument is a universe.                                  *)
UniverseCalls == {"activate", "add", "rollback", "remove"}

(* The sections of state_mutex that span several steps.                     *)
Sections == {"open", "start"}

MapTyped ==
    /\ universes \subseteq Universes
    /\ active_universe \in Universes
    /\ protocol \in Protocols \cup {"Serial"}
    /\ serial_port \in Ports \cup {NoPort}
    /\ source_name \in Names
    /\ sacn_priority \in Priorities

DevicesTyped ==
    /\ initialized \subseteq {"Serial", "sACN", "ArtNet"}
    /\ open_port \in Ports \cup {NoPort}
    /\ source \in [up : BOOLEAN, name : Names, live : PartialMaps(Priorities)]
    /\ artnet_node \in Nodes
    /\ artnet_mappings \in PartialMaps(PortIds)
    /\ cooled_down \in BOOLEAN

(* Where the threads are: the call at hand has its universe, and            *)
(* state_mutex is held by the thread in one of its sections.                *)
CallsTyped ==
    /\ send_mutex \in Threads \cup {NoThread}
    /\ state_mutex \in Threads \cup {NoThread}
    /\ pc \in [Threads -> Locations]
    /\ local \in [Threads -> Locals]
    /\ \A t \in Threads : pc[t] \in UniverseCalls => local[t].uni \in Universes
    /\ \A t \in Threads : state_mutex = t <=> pc[t] \in Sections

Typed == MapTyped /\ DevicesTyped /\ CallsTyped

(* A call that begins.                                                      *)
LEMMA CallTyped ==
    ASSUME CallsTyped, NEW t \in Threads, NEW to \in Locations \ (Sections \cup {"idle"}),
           NEW args \in Locals, to \in UniverseCalls => args.uni \in Universes,
           Call(t, to, args)
    PROVE  /\ CallsTyped'
           /\ pc' = [pc EXCEPT ![t] = to] /\ local' = [local EXCEPT ![t] = args]
           /\ pc[t] = "idle"
BY DEF CallsTyped, Call, Goto, mutexes, Sections

(* A call that goes on outside the sections.                                *)
LEMMA GotoTyped ==
    ASSUME CallsTyped, NEW t \in Threads, NEW from \in Locations \ Sections,
           NEW to \in Locations \ Sections, to \in UniverseCalls => from \in UniverseCalls,
           Goto(t, from, to), local' \in [Threads -> Locals],
           \A x \in Threads : local'[x].uni = local[x].uni,
           state_mutex' = state_mutex, send_mutex' \in Threads \cup {NoThread}
    PROVE  CallsTyped'
BY DEF CallsTyped, Goto

(* A call that goes into a section.                                         *)
LEMMA EnterTyped ==
    ASSUME CallsTyped, NEW t \in Threads, NEW from \in Locations \ Sections,
           NEW to \in Sections, Goto(t, from, to), local' \in [Threads -> Locals],
           \A x \in Threads : local'[x].uni = local[x].uni,
           StateFree, state_mutex' = t, send_mutex' = send_mutex
    PROVE  CallsTyped'
BY DEF CallsTyped, Goto, StateFree, Sections, UniverseCalls, Locations

(* A call that returns.                                                     *)
LEMMA ReturnTyped ==
    ASSUME CallsTyped, NEW t \in Threads, NEW from \in Locations, Return(t, from)
    PROVE  /\ CallsTyped' /\ pc[t] = from
           /\ pc' = [pc EXCEPT ![t] = "idle"] /\ local' = [local EXCEPT ![t] = NoLocals]
<1>1. /\ pc[t] = from /\ pc' = [pc EXCEPT ![t] = "idle"]
      /\ local' = [local EXCEPT ![t] = NoLocals]
  BY DEF Return, Goto
<1>2. local' \in [Threads -> Locals] /\ pc' \in [Threads -> Locations]
  BY <1>1, BlankTypes DEF CallsTyped, Locations
<1>3. /\ send_mutex' \in Threads \cup {NoThread}
      /\ state_mutex' = IF state_mutex = t THEN NoThread ELSE state_mutex
  BY DEF CallsTyped, Return, Released
<1>4. \A x \in Threads : pc'[x] \in UniverseCalls => local'[x].uni \in Universes
  BY <1>1 DEF CallsTyped, UniverseCalls
<1>5. ASSUME NEW x \in Threads PROVE state_mutex' = x <=> pc'[x] \in Sections
  <2>1. CASE x = t
    BY <1>1, <1>3, <2>1 DEF CallsTyped, Sections
  <2>2. CASE x # t
    BY <1>1, <1>3, <2>2 DEF CallsTyped
  <2> QED
    BY <2>1, <2>2
<1>6. state_mutex' \in Threads \cup {NoThread}
  BY <1>3 DEF CallsTyped
<1> QED
  BY <1>1, <1>2, <1>3, <1>4, <1>5, <1>6 DEF CallsTyped

(* A thread in a section of state_mutex is in it alone.                     *)
LEMMA SectionAlone ==
    ASSUME CallsTyped, NEW t \in Threads, pc[t] \in Sections
    PROVE  /\ state_mutex = t
           /\ \A x \in Threads : pc[x] \in Sections => x = t
BY DEF CallsTyped

(* No thread is in a section when state_mutex is free.                      *)
LEMMA SectionEmpty ==
    ASSUME CallsTyped, StateFree
    PROVE  \A x \in Threads : pc[x] \notin Sections
BY DEF CallsTyped, StateFree

-----------------------------------------------------------------------------
(* Flags, devices, mappings and names.                                      *)

Starting == \E t \in Threads : pc[t] = "start"

(* The flags match their devices at every step: between deinit_all() and    *)
(* artnet_start() there is no node that is on, and a node in standby        *)
(* belongs to the thread that is starting it.                               *)
DevicesSound ==
    /\ source.up <=> "sACN" \in initialized
    /\ artnet_node.state = "on" <=> "ArtNet" \in initialized
    /\ \A t \in Threads : pc[t] = "open" => artnet_node.state = "none"
    /\ \A t \in Threads : pc[t] = "start" => artnet_node.state = "standby"
    /\ artnet_node.state = "standby" => Starting
    /\ MappingMatchesNode
    /\ NameAgrees

Inv == Typed /\ DevicesSound

(* A step outside the sections that leaves devices and names alone.         *)
LEMMA DevicesKept ==
    ASSUME DevicesSound, UNCHANGED <<initialized, source, artnet_node, artnet_mappings,
                                     source_name>>,
           \A x \in Threads : (pc'[x] \in Sections \/ pc[x] \in Sections) => pc'[x] = pc[x]
    PROVE  DevicesSound'
<1>1. Starting => Starting'
  BY DEF Starting, Sections
<1>2. MappingMatchesNode' /\ NameAgrees'
  BY DEF DevicesSound, MappingMatchesNode, Belongs, PortAddress, NameAgrees
<1> QED
  BY <1>1, <1>2 DEF DevicesSound, Sections

(* The initial state.                                                       *)
LEMMA InvInit == Init => Inv
<1> SUFFICES ASSUME Init PROVE Inv
  OBVIOUS
<1>1. MapTyped
  BY DEF Init, MapTyped
<1>2. DevicesTyped
  BY BlankTypes DEF Init, DevicesTyped
<1>3. CallsTyped
  BY BlankTypes DEF Init, CallsTyped, Locations, UniverseCalls, Sections
<1>4. DevicesSound
  <2>1. MappingMatchesNode
    BY BlankTypes DEF Init, MappingMatchesNode
  <2> QED
    BY <2>1, BlankTypes DEF Init, DevicesSound, Starting, NameAgrees
<1> QED
  BY <1>1, <1>2, <1>3, <1>4 DEF Inv, Typed

-----------------------------------------------------------------------------
(* Calls that begin.                                                        *)

(* A call begins with typed locals.                                         *)
LEMMA ArgsTyped ==
    /\ \A u \in Universes : [NoLocals EXCEPT !.uni = u] \in Locals
    /\ \A u : [NoLocals EXCEPT !.uni = u].uni = u
    /\ \A p \in Priorities, keys \in SUBSET Universes :
          [NoLocals EXCEPT !.priority = p, !.keys = keys] \in Locals
    /\ \A n \in Names : [NoLocals EXCEPT !.name = n] \in Locals
    /\ \A keys \in SUBSET Universes : [NoLocals EXCEPT !.keys = keys] \in Locals
    /\ \A p \in {"Serial", "sACN", "ArtNet"}, m \in PartialMaps(PortIds) :
          [NoLocals EXCEPT !.protocol = p, !.mapping = m] \in Locals
BY BlankTypes, ZenonT(30) DEF NoLocals, Locals

(* A call that begins keeps the invariant.                                  *)
LEMMA CallInv ==
    ASSUME Inv, NEW t \in Threads, NEW to \in Locations \ (Sections \cup {"idle"}),
           NEW args \in Locals, to \in UniverseCalls => args.uni \in Universes,
           Call(t, to, args), MapTyped'
    PROVE  Inv'
<1>1. CallsTyped' /\ pc' = [pc EXCEPT ![t] = to] /\ pc[t] = "idle"
  BY CallTyped DEF Inv, Typed
<1>2. UNCHANGED <<settings, devices, cooled_down>>
  BY DEF Call
<1>3. DevicesTyped'
  BY <1>2 DEF Inv, Typed, DevicesTyped, devices
<1>4. \A x \in Threads : (pc'[x] \in Sections \/ pc[x] \in Sections) => pc'[x] = pc[x]
  BY <1>1 DEF Inv, Typed, CallsTyped, Sections
<1>5. DevicesSound'
  BY <1>2, <1>4, DevicesKept DEF Inv, settings, devices
<1> QED
  BY <1>1, <1>3, <1>5 DEF Inv, Typed

(* Every call begins so.                                                    *)
LEMMA EnterInv ==
    ASSUME Inv, NEW t \in Threads, Enter(t)
    PROVE  Inv'
<1> USE DEF Inv, Typed
<1>1. ASSUME NEW p \in Protocols, SetProtocol(t, p) PROVE Inv'
  <2>1. MapTyped'
    BY <1>1 DEF SetProtocol, MapTyped, map
  <2>2. CallsTyped' /\ DevicesTyped'
    BY <1>1 DEF SetProtocol, CallsTyped, DevicesTyped, devices, mutexes
  <2>3. DevicesSound'
    BY <1>1, DevicesKept DEF SetProtocol, devices
  <2> QED
    BY <2>1, <2>2, <2>3
<1>2. ASSUME NEW p \in Ports, SetPort(t, p) PROVE Inv'
  <2>1. MapTyped'
    BY <1>2 DEF SetPort, MapTyped, map
  <2>2. CallsTyped' /\ DevicesTyped'
    BY <1>2 DEF SetPort, CallsTyped, DevicesTyped, devices, mutexes
  <2>3. DevicesSound'
    BY <1>2, DevicesKept DEF SetPort, devices
  <2> QED
    BY <2>1, <2>2, <2>3
<1>3. ASSUME NEW u \in Universes, SetUniverse(t, u) PROVE Inv'
  <2> DEFINE args == [NoLocals EXCEPT !.uni = u]
  <2>1. Call(t, "activate", args) /\ args \in Locals /\ args.uni = u
    BY <1>3, ArgsTyped DEF SetUniverse
  <2>2. MapTyped'
    BY <1>3, <2>1 DEF SetUniverse, Call, MapTyped, settings
  <2>3. "activate" \in Locations \ (Sections \cup {"idle"})
    BY DEF Locations, Sections
  <2> HIDE DEF args, Inv
  <2> QED
    BY <2>1, <2>2, <2>3, CallInv
<1>4. ASSUME NEW u \in Universes, AddUniverse(t, u) PROVE Inv'
  <2> DEFINE args == [NoLocals EXCEPT !.uni = u]
  <2>1. Call(t, "add", args) /\ args \in Locals /\ args.uni = u
    BY <1>4, ArgsTyped DEF AddUniverse
  <2>2. MapTyped'
    BY <1>4, <2>1 DEF AddUniverse, Call, MapTyped, settings
  <2>3. "add" \in Locations \ (Sections \cup {"idle"})
    BY DEF Locations, Sections
  <2> HIDE DEF args, Inv
  <2> QED
    BY <2>1, <2>2, <2>3, CallInv
<1>5. ASSUME NEW u \in Universes, RemoveUniverse(t, u) PROVE Inv'
  <2> DEFINE args == [NoLocals EXCEPT !.uni = u]
             rest == universes \ {u}
  <2>1. Call(t, "remove", args) /\ args \in Locals /\ args.uni = u
    BY <1>5, ArgsTyped DEF RemoveUniverse
  <2>2. rest # {}
    <3>1. Cardinality({u}) = 1 /\ Cardinality(universes) > 1
      BY <1>5, FS_Singleton DEF RemoveUniverse
    <3>2. universes # {u}
      BY <3>1
    <3> QED
      BY <1>5, <3>2 DEF RemoveUniverse
  <2>3. Min(rest) \in Universes
    BY <2>2, MinIsLeast DEF MapTyped
  <2>4. MapTyped'
    BY <1>5, <2>1, <2>3 DEF RemoveUniverse, Call, MapTyped, settings
  <2>5. "remove" \in Locations \ (Sections \cup {"idle"})
    BY DEF Locations, Sections
  <2> HIDE DEF args, Inv
  <2> QED
    BY <2>1, <2>4, <2>5, CallInv
<1>6. ASSUME NEW p \in Priorities, SetPriority(t, p) PROVE Inv'
  <2> DEFINE args == [NoLocals EXCEPT !.priority = p, !.keys = universes]
  <2>1. Call(t, "priority", args) /\ args \in Locals
    BY <1>6, ArgsTyped DEF SetPriority, MapTyped
  <2>2. MapTyped'
    BY <1>6, <2>1 DEF SetPriority, Call, MapTyped, settings, map
  <2>3. "priority" \in Locations \ (Sections \cup {"idle"}) /\ "priority" \notin UniverseCalls
    BY DEF Locations, Sections, UniverseCalls
  <2> HIDE DEF args, Inv
  <2> QED
    BY <2>1, <2>2, <2>3, CallInv
<1>7. ASSUME NEW n \in Names, SetName(t, n) PROVE Inv'
  <2> DEFINE args == [NoLocals EXCEPT !.name = n]
  <2>1. Call(t, "name", args) /\ args \in Locals
    BY <1>7, ArgsTyped DEF SetName
  <2>2. MapTyped'
    BY <1>7, <2>1 DEF SetName, Call, MapTyped, settings, map
  <2>3. "name" \in Locations \ (Sections \cup {"idle"}) /\ "name" \notin UniverseCalls
    BY DEF Locations, Sections, UniverseCalls
  <2> HIDE DEF args, Inv
  <2> QED
    BY <2>1, <2>2, <2>3, CallInv
<1>8. CASE InitKeys(t)
  <2> DEFINE args == [NoLocals EXCEPT !.keys = universes]
  <2>1. Call(t, "deinit", args) /\ args \in Locals
    BY <1>8, ArgsTyped DEF InitKeys, MapTyped
  <2>2. MapTyped'
    BY <1>8, <2>1 DEF InitKeys, Call, MapTyped, settings, map
  <2>3. "deinit" \in Locations \ (Sections \cup {"idle"}) /\ "deinit" \notin UniverseCalls
    BY DEF Locations, Sections, UniverseCalls
  <2> HIDE DEF args, Inv
  <2> QED
    BY <2>1, <2>2, <2>3, CallInv
<1>9. CASE SendState(t)
  <2> DEFINE args == [NoLocals EXCEPT !.protocol = protocol, !.mapping = artnet_mappings]
  <2>1. Call(t, "snapshot", args) /\ args \in Locals
    BY <1>9, ArgsTyped DEF SendState, MapTyped, DevicesTyped
  <2>2. MapTyped'
    BY <1>9, <2>1 DEF SendState, Call, MapTyped, settings, map
  <2>3. "snapshot" \in Locations \ (Sections \cup {"idle"}) /\ "snapshot" \notin UniverseCalls
    BY DEF Locations, Sections, UniverseCalls
  <2> HIDE DEF args, Inv
  <2> QED
    BY <2>1, <2>2, <2>3, CallInv
<1> QED
  BY <1>1, <1>2, <1>3, <1>4, <1>5, <1>6, <1>7, <1>8, <1>9 DEF Enter

-----------------------------------------------------------------------------
(* Calls that go on.                                                        *)

(* A call that returns, from outside the sections.                          *)
LEMMA ReturnInv ==
    ASSUME Inv, NEW t \in Threads, NEW from \in Locations \ Sections, Return(t, from)
    PROVE  /\ CallsTyped' /\ pc[t] = from
           /\ \A x \in Threads :
                 (pc'[x] \in Sections \/ pc[x] \in Sections) => pc'[x] = pc[x]
<1>1. CallsTyped' /\ pc[t] = from /\ pc' = [pc EXCEPT ![t] = "idle"]
  BY ReturnTyped DEF Inv, Typed
<1>2. "idle" \notin Sections
  BY DEF Sections
<1> QED
  BY <1>1, <1>2 DEF Inv, Typed, CallsTyped

(* A call that goes on, outside the sections.                               *)
LEMMA GotoInv ==
    ASSUME Inv, NEW t \in Threads, NEW from \in Locations \ Sections,
           NEW to \in Locations \ Sections, to \in UniverseCalls => from \in UniverseCalls,
           Goto(t, from, to), local' \in [Threads -> Locals],
           \A x \in Threads : local'[x].uni = local[x].uni,
           state_mutex' = state_mutex, send_mutex' \in Threads \cup {NoThread}
    PROVE  /\ CallsTyped'
           /\ \A x \in Threads :
                 (pc'[x] \in Sections \/ pc[x] \in Sections) => pc'[x] = pc[x]
<1>1. CallsTyped'
  BY GotoTyped DEF Inv, Typed
<1> QED
  BY <1>1 DEF Inv, Typed, CallsTyped, Goto

(* What the calls outside the sections change of the object's map and       *)
(* settings: addUniverse, removeUniverse, universe, priority and name.      *)
LEMMA MapCallsInv ==
    ASSUME Inv, NEW t \in Threads,
           LockSend(t) \/ Activate(t) \/ AddLiveFails(t) \/ RollBack(t)
    PROVE  Inv'
<1> USE DEF Inv, Typed
<1>1. CASE LockSend(t)
  <2>1. MapTyped' /\ DevicesTyped'
    BY <1>1 DEF LockSend, MapTyped, DevicesTyped, map, settings, devices
  <2>2. CallsTyped'
    BY <1>1 DEF LockSend, CallsTyped
  <2>3. DevicesSound'
    BY <1>1, DevicesKept DEF LockSend, devices, settings
  <2> QED
    BY <2>1, <2>2, <2>3
<1>2. CASE Activate(t)
  <2>1. "activate" \in Locations \ Sections /\ Return(t, "activate")
    BY <1>2 DEF Activate, Locations, Sections
  <2>2. /\ CallsTyped' /\ pc[t] = "activate"
        /\ \A x \in Threads :
              (pc'[x] \in Sections \/ pc[x] \in Sections) => pc'[x] = pc[x]
    BY <2>1, ReturnInv
  <2>3. local[t].uni \in Universes
    BY <2>2 DEF CallsTyped, UniverseCalls
  <2>4. MapTyped' /\ DevicesTyped'
    BY <1>2, <2>3 DEF Activate, MapTyped, DevicesTyped, settings, devices
  <2>5. DevicesSound'
    BY <1>2, <2>2, DevicesKept DEF Activate, devices, settings
  <2> QED
    BY <2>2, <2>4, <2>5
<1>3. CASE AddLiveFails(t)
  <2>1. Goto(t, "add", "rollback") /\ local' = local /\ state_mutex' = state_mutex
        /\ send_mutex' = NoThread /\ local \in [Threads -> Locals]
    BY <1>3 DEF AddLiveFails, CallsTyped
  <2>2. {"add", "rollback"} \subseteq Locations \ Sections /\ "add" \in UniverseCalls
    BY DEF Locations, Sections, UniverseCalls
  <2> HIDE DEF Inv
  <2>3. /\ CallsTyped'
        /\ \A x \in Threads :
              (pc'[x] \in Sections \/ pc[x] \in Sections) => pc'[x] = pc[x]
    BY <2>1, <2>2, GotoInv
  <2> USE DEF Inv
  <2>4. MapTyped' /\ DevicesTyped'
    BY <1>3 DEF AddLiveFails, MapTyped, DevicesTyped, map, settings, devices
  <2>5. DevicesSound'
    BY <1>3, <2>3, DevicesKept DEF AddLiveFails, devices, settings
  <2> QED
    BY <2>3, <2>4, <2>5
<1>4. CASE RollBack(t)
  <2>1. "rollback" \in Locations \ Sections /\ Return(t, "rollback")
    BY <1>4 DEF RollBack, Locations, Sections
  <2>2. /\ CallsTyped'
        /\ \A x \in Threads :
              (pc'[x] \in Sections \/ pc[x] \in Sections) => pc'[x] = pc[x]
    BY <2>1, ReturnInv
  <2>3. MapTyped' /\ DevicesTyped'
    BY <1>4 DEF RollBack, MapTyped, DevicesTyped, settings, devices
  <2>4. DevicesSound'
    BY <1>4, <2>2, DevicesKept DEF RollBack, devices, settings
  <2> QED
    BY <2>2, <2>3, <2>4
<1> QED
  BY <1>1, <1>2, <1>3, <1>4

(* A call that changes a running protocol, in one section of state_mutex,   *)
(* keeps the invariant if it keeps what the devices say.                    *)
LEMMA LiveInv ==
    ASSUME Inv, NEW t \in Threads, NEW at \in {"add", "remove", "priority", "name"},
           Return(t, at), MapTyped', DevicesTyped',
           UNCHANGED <<initialized, artnet_node>>,
           source'.up = source.up, MappingMatchesNode', NameAgrees'
    PROVE  Inv'
<1>1. at \in Locations \ Sections
  BY DEF Locations, Sections
<1>2. /\ CallsTyped'
      /\ \A x \in Threads :
            (pc'[x] \in Sections \/ pc[x] \in Sections) => pc'[x] = pc[x]
  BY <1>1, ReturnInv
<1>3. Starting => Starting'
  BY <1>2 DEF Starting, Sections
<1>4. DevicesSound'
  BY <1>2, <1>3 DEF Inv, DevicesSound, Sections
<1> QED
  BY <1>2, <1>4 DEF Inv, Typed

(* A change of the source's universes leaves its name and the rest alone.   *)
LEMMA LiveTyped ==
    ASSUME DevicesTyped, NEW live \in PartialMaps(Priorities)
    PROVE  /\ [source EXCEPT !.live = live]
                 \in [up : BOOLEAN, name : Names, live : PartialMaps(Priorities)]
           /\ [source EXCEPT !.live = live].up = source.up
           /\ [source EXCEPT !.live = live].name = source.name
           /\ [source EXCEPT !.live = live].live = live
BY DEF DevicesTyped

(* addUniverse, removeUniverse, priority and name on a running protocol.    *)
LEMMA LiveCallsInv ==
    ASSUME Inv, NEW t \in Threads,
           AddLive(t) \/ RemoveLive(t) \/ PriorityLive(t) \/ NameLive(t)
    PROVE  Inv'
<1>0. /\ DevicesTyped /\ MapTyped /\ CallsTyped
      /\ MappingMatchesNode /\ NameAgrees
      /\ source.live \in PartialMaps(Priorities)
      /\ source \in [up : BOOLEAN, name : Names, live : PartialMaps(Priorities)]
      /\ local[t].uni \in Universes \cup {0}
      /\ local[t].priority \in Priorities /\ local[t].name \in Names
  BY DEF Inv, Typed, DevicesSound, DevicesTyped, CallsTyped, Locals
<1>1. CASE AddLive(t)
  <2> DEFINE u == local[t].uni
             live == With(source.live, u, sacn_priority)
  <2>1. Return(t, "add") /\ pc[t] = "add"
    BY <1>1 DEF AddLive, AtLiveUpdate
  <2>2. u \in Universes
    BY <1>0, <2>1 DEF CallsTyped, UniverseCalls
  <2>3. live \in PartialMaps(Priorities)
    BY <1>0, <2>2, MapChanges DEF MapTyped
  <2>4. source' = source \/ source' = [source EXCEPT !.live = live]
    BY <1>1 DEF AddLive, Added
  <2> HIDE DEF live
  <2>5. /\ source' \in [up : BOOLEAN, name : Names, live : PartialMaps(Priorities)]
        /\ source'.up = source.up /\ source'.name = source.name
    BY <1>0, <2>3, <2>4, LiveTyped
  <2>6. UNCHANGED <<map, settings, initialized, open_port, artnet_node, artnet_mappings,
                    cooled_down>>
    BY <1>1 DEF AddLive
  <2>7. MapTyped' /\ DevicesTyped'
    BY <1>0, <2>5, <2>6 DEF MapTyped, DevicesTyped, map, settings
  <2>8. MappingMatchesNode' /\ NameAgrees'
    BY <1>0, <2>5, <2>6 DEF MappingMatchesNode, Belongs, PortAddress, NameAgrees, settings
  <2> QED
    BY <2>1, <2>5, <2>6, <2>7, <2>8, LiveInv
<1>2. CASE RemoveLive(t)
  <2> DEFINE u == local[t].uni
             live == Without(source.live, u)
             kept == Without(artnet_mappings, u)
  <2>1. Return(t, "remove")
    BY <1>2 DEF RemoveLive
  <2>2. live \in PartialMaps(Priorities)
    BY <1>0, MapChanges
  <2>3. source' = source \/ source' = [source EXCEPT !.live = live]
    BY <1>2 DEF RemoveLive, Removed
  <2>4. /\ kept \in PartialMaps(PortIds)
        /\ \A x \in DOMAIN kept : x \in DOMAIN artnet_mappings /\ kept[x] = artnet_mappings[x]
    <3>0. artnet_mappings \in PartialMaps(PortIds)
      BY <1>0 DEF DevicesTyped
    <3>1. kept \in PartialMaps(PortIds) /\ DOMAIN kept = DOMAIN artnet_mappings \ {u}
      BY <3>0, MapChanges
    <3> QED
      BY <3>1 DEF Without
  <2>5. artnet_mappings' \in {artnet_mappings, kept}
    BY <1>2 DEF RemoveLive, Unmapped
  <2> HIDE DEF live, kept
  <2>6. /\ source' \in [up : BOOLEAN, name : Names, live : PartialMaps(Priorities)]
        /\ source'.up = source.up /\ source'.name = source.name
    BY <1>0, <2>2, <2>3, LiveTyped
  <2>7. UNCHANGED <<map, settings, initialized, open_port, artnet_node, cooled_down>>
    BY <1>2 DEF RemoveLive
  <2>8. MapTyped' /\ DevicesTyped'
    BY <1>0, <2>4, <2>5, <2>6, <2>7 DEF MapTyped, DevicesTyped, map, settings
  <2>9. MappingMatchesNode' /\ NameAgrees'
    BY <1>0, <2>4, <2>5, <2>6, <2>7
       DEF MappingMatchesNode, Belongs, PortAddress, NameAgrees, settings
  <2> QED
    BY <2>1, <2>6, <2>7, <2>8, <2>9, LiveInv
<1>3. CASE PriorityLive(t)
  <2> DEFINE p == local[t].priority
             live == [u \in DOMAIN source.live |->
                        IF u \in Changed(local[t].keys) THEN p ELSE source.live[u]]
  <2>1. Return(t, "priority") /\ sacn_priority' \in {sacn_priority, p}
    BY <1>3 DEF PriorityLive
  <2>2. live \in PartialMaps(Priorities)
    <3>1. DOMAIN source.live \in SUBSET Universes
      BY <1>0, MapFacts
    <3>2. live \in [DOMAIN source.live -> Priorities]
      BY <1>0, MapFacts
    <3> HIDE DEF live
    <3> QED
      BY <3>1, <3>2, IsMap
  <2>3. source' = source \/ source' = [source EXCEPT !.live = live]
    BY <1>3 DEF PriorityLive
  <2> HIDE DEF live
  <2>4. /\ source' \in [up : BOOLEAN, name : Names, live : PartialMaps(Priorities)]
        /\ source'.up = source.up /\ source'.name = source.name
    BY <1>0, <2>2, <2>3, LiveTyped
  <2>5. UNCHANGED <<map, protocol, serial_port, source_name, initialized, open_port,
                    artnet_node, artnet_mappings, cooled_down>>
    BY <1>3 DEF PriorityLive
  <2>6. MapTyped' /\ DevicesTyped'
    BY <1>0, <2>1, <2>4, <2>5 DEF MapTyped, DevicesTyped, map
  <2>7. MappingMatchesNode' /\ NameAgrees'
    BY <1>0, <2>4, <2>5 DEF MappingMatchesNode, Belongs, PortAddress, NameAgrees
  <2> QED
    BY <2>1, <2>4, <2>5, <2>6, <2>7, LiveInv
<1>4. CASE NameLive(t)
  <2> DEFINE n == local[t].name
  <2>1. Return(t, "name")
    BY <1>4 DEF NameLive
  <2>2. /\ source' \in [up : BOOLEAN, name : Names, live : PartialMaps(Priorities)]
        /\ source'.up = source.up
        /\ source'.name = IF "sACN" \in initialized /\ n \notin LongNames
                          THEN n ELSE source.name
    BY <1>0, <1>4 DEF NameLive
  <2>3. source_name' \in Names
    BY <1>0, <1>4 DEF NameLive, MapTyped
  <2>4. UNCHANGED <<map, protocol, serial_port, sacn_priority, initialized, open_port,
                    artnet_node, artnet_mappings, cooled_down>>
    BY <1>4 DEF NameLive
  <2>5. MapTyped' /\ DevicesTyped'
    BY <1>0, <2>2, <2>3, <2>4 DEF MapTyped, DevicesTyped, map
  <2>6. MappingMatchesNode'
    BY <1>0, <2>4 DEF MappingMatchesNode, Belongs, PortAddress
  <2>7. NameAgrees'
    BY <1>0, <1>4, <2>2, <2>4 DEF NameLive, NameAgrees, NameAccepted
  <2> QED
    BY <2>1, <2>2, <2>4, <2>5, <2>6, <2>7, LiveInv
<1> QED
  BY <1>1, <1>2, <1>3, <1>4

-----------------------------------------------------------------------------
(* init().                                                                  *)

(* A pointer that dangles is still typed.                                   *)
LEMMA DanglingTyped ==
    ASSUME NEW l \in Locals
    PROVE  Dangling(l) \in Locals /\ Dangling(l).uni = l.uni
BY DEF Dangling, Locals

(* A node destroyed leaves no mapping.                                      *)
LEMMA NodeDestroyed ==
    ASSUME DevicesTyped, DevicesSound,
           IF "ArtNet" \in initialized THEN DestroyNode
           ELSE UNCHANGED <<artnet_node, artnet_mappings>>,
           \A x \in Threads : pc[x] \notin Sections
    PROVE  /\ artnet_node' \in Nodes /\ artnet_mappings' \in PartialMaps(PortIds)
           /\ artnet_node'.state = "none"
           /\ MappingMatchesNode'
<1>1. CASE "ArtNet" \in initialized
  <2>1. artnet_node' = NoNode /\ artnet_mappings' = NoMap
    BY <1>1 DEF DestroyNode
  <2> QED
    BY <2>1, BlankTypes DEF MappingMatchesNode
<1>2. CASE "ArtNet" \notin initialized
  <2>1. UNCHANGED <<artnet_node, artnet_mappings>>
    BY <1>2
  <2>2. artnet_node.state # "on" /\ artnet_node.state # "standby"
    BY <1>2 DEF DevicesSound, Starting, Sections
  <2>3. artnet_node.state = "none"
    BY <2>2 DEF DevicesTyped, Nodes
  <2>4. MappingMatchesNode'
    BY <2>1 DEF DevicesSound, MappingMatchesNode, Belongs, PortAddress
  <2> QED
    BY <2>1, <2>3, <2>4 DEF DevicesTyped
<1> QED
  BY <1>1, <1>2

(* deinit_all(), and the first half of a reconnect.                         *)
LEMMA DeinitInv ==
    ASSUME Inv, NEW t \in Threads, Deinit(t) \/ DeinitArtNet(t)
    PROVE  Inv'
<1>0. MapTyped /\ DevicesTyped /\ CallsTyped /\ DevicesSound
  BY DEF Inv, Typed
<1>1. StateFree /\ \A x \in Threads : pc[x] \notin Sections
  BY <1>0, SectionEmpty DEF Deinit, DeinitArtNet
<1>2. IF "ArtNet" \in initialized THEN DestroyNode
      ELSE UNCHANGED <<artnet_node, artnet_mappings>>
  BY DEF Deinit, DeinitArtNet
<1>3. /\ artnet_node' \in Nodes /\ artnet_mappings' \in PartialMaps(PortIds)
      /\ artnet_node'.state = "none"
      /\ MappingMatchesNode'
  BY <1>0, <1>1, <1>2, NodeDestroyed
<1>4. MapTyped' /\ source_name' = source_name
  BY <1>0 DEF Deinit, DeinitArtNet, MapTyped, map, settings
<1>5. CASE Deinit(t)
  <2>1. /\ local' \in [Threads -> Locals]
        /\ \A x \in Threads : local'[x].uni = local[x].uni
    <3>1. [local[t] EXCEPT !.protocol = protocol] \in Locals
          /\ [local[t] EXCEPT !.protocol = protocol].uni = local[t].uni
      BY <1>0 DEF MapTyped, CallsTyped, Locals
    <3>2. ASSUME NEW x \in Threads
          PROVE  local'[x] \in Locals /\ local'[x].uni = local[x].uni
      <4>1. local[x] \in Locals
        BY <1>0 DEF CallsTyped
      <4>2. Dangling(local[x]) \in Locals /\ Dangling(local[x]).uni = local[x].uni
        BY <4>1, DanglingTyped
      <4>3. local'[x] = IF x = t THEN [local[t] EXCEPT !.protocol = protocol]
                        ELSE IF "ArtNet" \in initialized THEN Dangling(local[x])
                        ELSE local[x]
        BY <1>5 DEF Deinit
      <4> QED
        BY <3>1, <4>1, <4>2, <4>3
    <3>3. local' = [x \in Threads |-> local'[x]]
      BY <1>5 DEF Deinit
    <3> QED
      BY <3>2, <3>3
  <2>2. Goto(t, "deinit", "open") /\ state_mutex' = t /\ send_mutex' = send_mutex
    BY <1>5 DEF Deinit
  <2>3. "deinit" \in Locations \ Sections /\ "open" \in Sections
    BY DEF Locations, Sections
  <2>4. CallsTyped'
    BY <1>0, <1>1, <2>1, <2>2, <2>3, EnterTyped
  <2>5. pc' = [pc EXCEPT ![t] = "open"] /\ \A x \in Threads : pc'[x] # "start"
    BY <1>0, <1>1, <2>2 DEF Goto, CallsTyped, Sections
  <2>6. initialized' = {} /\ open_port' \in Ports \cup {NoPort} /\ cooled_down' = cooled_down
    BY <1>0, <1>5 DEF Deinit, SerialAfterDeinit, DevicesTyped
  <2>7. /\ source' \in [up : BOOLEAN, name : Names, live : PartialMaps(Priorities)]
        /\ ~source'.up
    BY <1>0, <1>5, BlankTypes DEF Deinit, SourceAfterDeinit, DevicesTyped, DevicesSound
  <2>8. DevicesTyped'
    BY <1>0, <1>3, <2>6, <2>7 DEF DevicesTyped
  <2>9. DevicesSound'
    BY <1>3, <2>5, <2>6, <2>7 DEF DevicesSound, NameAgrees
  <2> QED
    BY <1>4, <2>4, <2>8, <2>9 DEF Inv, Typed
<1>6. CASE DeinitArtNet(t)
  <2>1. Goto(t, "reopen", "open") /\ state_mutex' = t /\ send_mutex' = send_mutex
        /\ local' = local
    BY <1>6 DEF DeinitArtNet
  <2>2. "reopen" \in Locations \ Sections /\ "open" \in Sections /\ local \in [Threads -> Locals]
    BY <1>0 DEF Locations, Sections, CallsTyped
  <2>3. CallsTyped'
    BY <1>0, <1>1, <2>1, <2>2, EnterTyped
  <2>4. pc' = [pc EXCEPT ![t] = "open"] /\ \A x \in Threads : pc'[x] # "start"
    BY <1>0, <1>1, <2>1 DEF Goto, CallsTyped, Sections
  <2>5. /\ initialized' = initialized \ {"ArtNet"}
        /\ UNCHANGED <<open_port, source, cooled_down>>
    BY <1>6 DEF DeinitArtNet, WithoutArtNet
  <2>6. DevicesTyped'
    BY <1>0, <1>3, <2>5 DEF DevicesTyped
  <2>7. "sACN" \in initialized' <=> "sACN" \in initialized
    BY <2>5
  <2>8. "ArtNet" \notin initialized'
    BY <2>5
  <2>9. DevicesSound'
    BY <1>0, <1>3, <1>4, <2>4, <2>5, <2>7, <2>8 DEF DevicesSound, NameAgrees
  <2> QED
    BY <1>4, <2>3, <2>6, <2>9 DEF Inv, Typed
<1> QED
  BY <1>5, <1>6

(* How a protocol that is opened by the thread in the section leaves it.    *)
LEMMA OpenReturns ==
    ASSUME Inv, NEW t \in Threads, NEW from \in Sections, Return(t, from)
    PROVE  /\ CallsTyped' /\ pc[t] = from
           /\ \A x \in Threads : pc'[x] \notin Sections
<1>1. from \in Locations
  BY DEF Sections, Locations
<1>2. CallsTyped' /\ pc[t] = from /\ pc' = [pc EXCEPT ![t] = "idle"]
  BY <1>1, ReturnTyped DEF Inv, Typed
<1>3. \A x \in Threads : pc[x] \in Sections => x = t
  BY <1>2, SectionAlone DEF Inv, Typed
<1>4. "idle" \notin Sections
  BY DEF Sections
<1> QED
  BY <1>2, <1>3, <1>4 DEF Inv, Typed, CallsTyped

(* init_Serial, init_sACN and init_ArtNet.                                  *)
LEMMA OpenInv ==
    ASSUME Inv, NEW t \in Threads, Open(t)
    PROVE  Inv'
<1>0. MapTyped /\ DevicesTyped /\ CallsTyped /\ DevicesSound /\ local[t] \in Locals
  BY DEF Inv, Typed, CallsTyped
<1>1. "open" \in Sections /\ "start" \in Sections
  BY DEF Sections
<1>2. CASE InitSerial(t)
  <2>1. Return(t, "open")
    BY <1>2 DEF InitSerial
  <2>2. CallsTyped' /\ pc[t] = "open" /\ \A x \in Threads : pc'[x] \notin Sections
    BY <1>1, <2>1, OpenReturns
  <2>3. UNCHANGED <<map, settings, source, artnet_node, artnet_mappings, cooled_down>>
    BY <1>2 DEF InitSerial
  <2>4. initialized' \in {initialized, initialized \cup {"Serial"}}
        /\ open_port' \in Ports \cup {NoPort}
    BY <1>0, <1>2 DEF InitSerial, OpenPort, MapTyped, DevicesTyped
  <2>5. MapTyped' /\ DevicesTyped'
    BY <1>0, <2>3, <2>4 DEF MapTyped, DevicesTyped, map, settings
  <2>6. DevicesSound'
    <3>1. MappingMatchesNode' /\ NameAgrees'
      BY <1>0, <2>3, <2>4 DEF DevicesSound, MappingMatchesNode, Belongs, PortAddress,
         NameAgrees, settings
    <3>2. artnet_node.state = "none"
      BY <1>0, <2>2 DEF DevicesSound
    <3> QED
      BY <1>0, <1>1, <2>2, <2>3, <2>4, <3>1, <3>2 DEF DevicesSound, Starting
  <2> QED
    BY <2>2, <2>5, <2>6 DEF Inv, Typed
<1>3. CASE InitSacn(t)
  <2>1. Return(t, "open")
    BY <1>3 DEF InitSacn
  <2>2. CallsTyped' /\ pc[t] = "open" /\ \A x \in Threads : pc'[x] \notin Sections
    BY <1>1, <2>1, OpenReturns
  <2>3. UNCHANGED <<map, settings, open_port, artnet_node, artnet_mappings, cooled_down>>
    BY <1>3 DEF InitSacn
  <2>4. \/ UNCHANGED <<source, initialized>>
        \/ /\ source'.up /\ source'.name = source_name
           /\ source' \in [up : BOOLEAN, name : Names, live : PartialMaps(Priorities)]
           /\ initialized' = initialized \cup {"sACN"}
    <3> DEFINE live == [u \in local[t].keys |-> sacn_priority]
    <3>1. live \in PartialMaps(Priorities)
      <4>1. local[t].keys \in SUBSET Universes
        BY <1>0 DEF Locals
      <4>2. live \in [local[t].keys -> Priorities]
        BY <1>0 DEF MapTyped
      <4> HIDE DEF live
      <4> QED
        BY <4>1, <4>2, IsMap
    <3>2. \/ UNCHANGED <<source, initialized>>
          \/ /\ source' = [up |-> TRUE, name |-> source_name, live |-> live]
             /\ initialized' = initialized \cup {"sACN"}
      BY <1>3 DEF InitSacn
    <3> HIDE DEF live
    <3>3. source_name \in Names
      BY <1>0 DEF MapTyped
    <3>4. [up |-> TRUE, name |-> source_name, live |-> live]
             \in [up : BOOLEAN, name : Names, live : PartialMaps(Priorities)]
      BY <3>1, <3>3
    <3>5. CASE source' = [up |-> TRUE, name |-> source_name, live |-> live]
      BY <3>2, <3>4, <3>5
    <3> QED
      BY <3>2, <3>5
  <2>5. MapTyped' /\ DevicesTyped'
    BY <1>0, <2>3, <2>4 DEF MapTyped, DevicesTyped, map, settings
  <2>6. DevicesSound'
    <3>1. MappingMatchesNode' /\ NameAgrees'
      BY <1>0, <2>3, <2>4 DEF DevicesSound, MappingMatchesNode, Belongs, PortAddress,
         NameAgrees, settings
    <3>2. artnet_node.state = "none"
      BY <1>0, <2>2 DEF DevicesSound
    <3> QED
      BY <1>0, <1>1, <2>2, <2>3, <2>4, <3>1, <3>2 DEF DevicesSound, Starting
  <2> QED
    BY <2>2, <2>5, <2>6 DEF Inv, Typed
<1>4. CASE NewNode(t)
  <2> DEFINE keys == local[t].keys
  <2>1. /\ keys # {} /\ keys \in SUBSET Universes
        /\ artnet_node' = Node(keys) /\ artnet_mappings' = ArtNetMap(keys)
    BY <1>0, <1>4 DEF NewNode, Locals
  <2>2. /\ artnet_node' \in Nodes /\ artnet_mappings' \in PartialMaps(PortIds)
        /\ \A u \in DOMAIN artnet_mappings' :
              16 * artnet_node'.subnet + artnet_node'.addrs[artnet_mappings'[u]]
                = (u - 1) % 256
    BY <2>1, NewNodeSound
  <2>3. artnet_node'.state = "standby"
    BY <2>1 DEF Node
  <2>4. UNCHANGED <<map, settings, initialized, open_port, source, cooled_down, mutexes, local>>
    BY <1>4 DEF NewNode
  <2>5. pc[t] = "open" /\ pc' = [pc EXCEPT ![t] = "start"]
    BY <1>4 DEF NewNode, Goto
  <2>6. state_mutex = t /\ \A x \in Threads : pc[x] \in Sections => x = t
    BY <1>0, <1>1, <2>5, SectionAlone
  <2>7. CallsTyped'
    BY <1>0, <2>4, <2>5, <2>6 DEF CallsTyped, mutexes, Sections, Locations, UniverseCalls
  <2>8. MapTyped' /\ DevicesTyped'
    BY <1>0, <2>2, <2>4 DEF MapTyped, DevicesTyped, map, settings
  <2>9. DevicesSound'
    <3>1. MappingMatchesNode'
      BY <2>2, <2>3 DEF MappingMatchesNode, Belongs, PortAddress
    <3>2. NameAgrees'
      BY <1>0, <2>4 DEF DevicesSound, NameAgrees, settings
    <3>3. \A x \in Threads : pc'[x] # "open"
      BY <1>0, <1>1, <2>5, <2>6 DEF CallsTyped
    <3>4. artnet_node.state = "none"
      BY <1>0, <2>5 DEF DevicesSound
    <3>5. Starting'
      BY <1>0, <2>5 DEF Starting, CallsTyped
    <3> QED
      BY <1>0, <2>3, <2>4, <3>1, <3>2, <3>3, <3>4, <3>5 DEF DevicesSound
  <2> QED
    BY <2>7, <2>8, <2>9 DEF Inv, Typed
<1>5. CASE NoNewNode(t)
  <2>1. Return(t, "open")
    BY <1>5 DEF NoNewNode
  <2>2. CallsTyped' /\ pc[t] = "open" /\ \A x \in Threads : pc'[x] \notin Sections
    BY <1>1, <2>1, OpenReturns
  <2>3. UNCHANGED <<map, settings, devices, cooled_down>>
    BY <1>5 DEF NoNewNode
  <2>4. MapTyped' /\ DevicesTyped'
    BY <1>0, <2>3 DEF MapTyped, DevicesTyped, map, settings, devices
  <2>5. DevicesSound'
    <3>1. MappingMatchesNode' /\ NameAgrees'
      BY <1>0, <2>3 DEF DevicesSound, MappingMatchesNode, Belongs, PortAddress,
         NameAgrees, settings, devices
    <3>2. artnet_node.state = "none"
      BY <1>0, <2>2 DEF DevicesSound
    <3> QED
      BY <1>0, <1>1, <2>2, <2>3, <3>1, <3>2 DEF DevicesSound, Starting, devices
  <2> QED
    BY <2>2, <2>4, <2>5 DEF Inv, Typed
<1>6. CASE StartNode(t)
  <2>1. Return(t, "start")
    BY <1>6 DEF StartNode
  <2>2. CallsTyped' /\ pc[t] = "start" /\ \A x \in Threads : pc'[x] \notin Sections
    BY <1>1, <2>1, OpenReturns
  <2>3. /\ artnet_node' = [artnet_node EXCEPT !.state = "on"]
        /\ initialized' = initialized \cup {"ArtNet"}
        /\ UNCHANGED <<map, settings, open_port, source, artnet_mappings, cooled_down>>
    BY <1>6 DEF StartNode
  <2>4. /\ artnet_node' \in Nodes /\ artnet_node'.state = "on"
        /\ artnet_node'.subnet = artnet_node.subnet /\ artnet_node'.addrs = artnet_node.addrs
    BY <1>0, <2>3 DEF DevicesTyped, Nodes
  <2>5. MapTyped' /\ DevicesTyped'
    BY <1>0, <2>3, <2>4 DEF MapTyped, DevicesTyped, map, settings
  <2>6. DevicesSound'
    <3>1. MappingMatchesNode' /\ NameAgrees'
      BY <1>0, <2>3, <2>4 DEF DevicesSound, MappingMatchesNode, Belongs, PortAddress,
         NameAgrees, settings
    <3> QED
      BY <1>0, <1>1, <2>2, <2>3, <2>4, <3>1 DEF DevicesSound, Starting
  <2> QED
    BY <2>2, <2>5, <2>6 DEF Inv, Typed
<1>7. CASE StartNodeFails(t)
  <2>1. /\ artnet_node' = NoNode /\ artnet_mappings' = NoMap
        /\ UNCHANGED <<map, settings, initialized, open_port, source, cooled_down>>
    BY <1>7 DEF StartNodeFails, DestroyNode
  <2>2. pc[t] = "start" /\ pc' = [pc EXCEPT ![t] = "idle"] /\ state_mutex' = NoThread
    BY <1>7 DEF StartNodeFails, Goto
  <2>3. \A x \in Threads : pc[x] \in Sections => x = t
    BY <1>0, <1>1, <2>2, SectionAlone
  <2>4. \A x \in Threads : pc'[x] \notin Sections
    BY <1>0, <2>2, <2>3 DEF CallsTyped, Sections
  <2>5. /\ local' \in [Threads -> Locals]
        /\ \A x \in Threads \ {t} : local'[x].uni = local[x].uni
    <3>1. ASSUME NEW x \in Threads
          PROVE  local'[x] \in Locals /\ (x # t => local'[x].uni = local[x].uni)
      <4>1. local[x] \in Locals
        BY <1>0 DEF CallsTyped
      <4>2. local'[x] = IF x = t THEN NoLocals ELSE Dangling(local[x])
        BY <1>7 DEF StartNodeFails
      <4> QED
        BY <4>1, <4>2, DanglingTyped, BlankTypes
    <3>2. local' = [x \in Threads |-> local'[x]]
      BY <1>7 DEF StartNodeFails
    <3> QED
      BY <3>1, <3>2
  <2>6. send_mutex' \in Threads \cup {NoThread}
    BY <1>0, <1>7 DEF StartNodeFails, Released, CallsTyped
  <2>7. CallsTyped'
    <3>1. pc' \in [Threads -> Locations]
      BY <1>0, <2>2 DEF CallsTyped, Locations
    <3>2. \A x \in Threads : pc'[x] \in UniverseCalls => local'[x].uni \in Universes
      BY <1>0, <2>2, <2>5 DEF CallsTyped, UniverseCalls
    <3> QED
      BY <2>2, <2>4, <2>5, <2>6, <3>1, <3>2 DEF CallsTyped
  <2>8. MapTyped' /\ DevicesTyped'
    BY <1>0, <2>1, BlankTypes DEF MapTyped, DevicesTyped, map, settings
  <2>9. DevicesSound'
    <3>1. MappingMatchesNode' /\ NameAgrees'
      BY <1>0, <2>1, BlankTypes DEF DevicesSound, MappingMatchesNode, NameAgrees, settings
    <3>2. artnet_node.state = "standby"
      BY <1>0, <2>2 DEF DevicesSound
    <3> QED
      BY <1>0, <1>1, <2>1, <2>4, <3>1, <3>2, BlankTypes DEF DevicesSound, Starting
  <2> QED
    BY <2>7, <2>8, <2>9 DEF Inv, Typed
<1> QED
  BY <1>2, <1>3, <1>4, <1>5, <1>6, <1>7 DEF Open

-----------------------------------------------------------------------------
(* send().                                                                  *)

(* The next universe of a pass is done.                                     *)
LEMMA NextUniverseTyped ==
    ASSUME CallsTyped, NEW t \in Threads, NEW failed \in BOOLEAN, NextUniverse(t, failed)
    PROVE  /\ local' \in [Threads -> Locals]
           /\ \A x \in Threads : local'[x].uni = local[x].uni
<1> DEFINE done == [local[t] EXCEPT !.todo = @ \ {Sending(t)}, !.node = "null",
                                    !.failed = @ \/ failed]
<1>1. local \in [Threads -> Locals] /\ local[t] \in Locals
  BY DEF CallsTyped
<1>2. (local[t].failed \/ failed) \in BOOLEAN
  OBVIOUS
<1>3. done \in Locals /\ done.uni = local[t].uni
  <2>1. local[t].todo \ {Sending(t)} \in SUBSET Universes
    BY <1>1 DEF Locals
  <2> QED
    BY <1>1, <1>2, <2>1 DEF Locals
<1>4. local' = [local EXCEPT ![t] = done]
  BY <1>1 DEF NextUniverse
<1> HIDE DEF done
<1> QED
  BY <1>1, <1>3, <1>4

(* The steps of a send() that stay in it.                                   *)
LEMMA SendStaysInv ==
    ASSUME Inv, NEW t \in Threads,
           SendData(t) \/ SkipUniverse(t) \/ LoadNode(t) \/ CallNode(t) \/ Reconnect(t)
    PROVE  Inv'
<1>0. /\ MapTyped /\ DevicesTyped /\ CallsTyped /\ DevicesSound
      /\ local \in [Threads -> Locals] /\ local[t] \in Locals
      /\ send_mutex \in Threads \cup {NoThread}
  BY DEF Inv, Typed, CallsTyped
<1>1. UNCHANGED <<map, settings, devices>> /\ cooled_down' \in BOOLEAN
  BY <1>0 DEF SendData, SkipUniverse, LoadNode, CallNode, Reconnect, DevicesTyped
<1>2. MapTyped' /\ DevicesTyped'
  BY <1>0, <1>1 DEF MapTyped, DevicesTyped, map, settings, devices
<1>3. UNCHANGED mutexes
  BY DEF SendData, SkipUniverse, LoadNode, CallNode, Reconnect
<1>4. {"snapshot", "transmit", "call", "reopen"} \subseteq Locations \ Sections
      /\ {"snapshot", "transmit", "call", "reopen"} \cap UniverseCalls = {}
  BY DEF Locations, Sections, UniverseCalls
<1> DEFINE Stays == /\ CallsTyped'
                    /\ \A x \in Threads :
                         (pc'[x] \in Sections \/ pc[x] \in Sections) => pc'[x] = pc[x]
<1>5. ASSUME NEW from \in {"snapshot", "transmit", "call"}, NEW to \in {"transmit", "call", "reopen"},
             Goto(t, from, to), local' \in [Threads -> Locals],
             \A x \in Threads : local'[x].uni = local[x].uni
      PROVE  Stays
  BY <1>0, <1>3, <1>4, <1>5, GotoInv DEF mutexes
<1>6. ASSUME SendData(t) PROVE Stays
  <2>1. local' = [local EXCEPT ![t].keys = universes, ![t].todo = universes]
        /\ Goto(t, "snapshot", "transmit")
    BY <1>6 DEF SendData
  <2>2. universes \in SUBSET Universes
    BY <1>0 DEF MapTyped
  <2>3. local' \in [Threads -> Locals] /\ \A x \in Threads : local'[x].uni = local[x].uni
    BY <1>0, <2>1, <2>2 DEF Locals
  <2> QED
    BY <1>5, <2>1, <2>3
<1>7. ASSUME SkipUniverse(t) PROVE Stays
  <2>1. local' \in [Threads -> Locals] /\ \A x \in Threads : local'[x].uni = local[x].uni
    BY <1>0, <1>7, NextUniverseTyped DEF SkipUniverse
  <2>2. pc' = pc
    BY <1>7 DEF SkipUniverse
  <2> QED
    BY <1>0, <1>3, <2>1, <2>2 DEF CallsTyped, mutexes
<1>8. ASSUME LoadNode(t) PROVE Stays
  <2>1. /\ local' = [local EXCEPT ![t].node =
                       IF artnet_node.state = "none" THEN "null" ELSE "node"]
        /\ Goto(t, "transmit", "call")
    BY <1>8 DEF LoadNode
  <2>2. local' \in [Threads -> Locals] /\ \A x \in Threads : local'[x].uni = local[x].uni
    BY <1>0, <2>1 DEF Locals
  <2> QED
    BY <1>5, <2>1, <2>2
<1>9. ASSUME CallNode(t) PROVE Stays
  <2>1. PICK ok \in SendOutcomes(t) : NextUniverse(t, ~ok)
    BY <1>9 DEF CallNode
  <2>2. (~ok) \in BOOLEAN
    OBVIOUS
  <2>3. local' \in [Threads -> Locals] /\ \A x \in Threads : local'[x].uni = local[x].uni
    BY <1>0, <2>1, <2>2, NextUniverseTyped
  <2>4. Goto(t, "call", "transmit")
    BY <1>9 DEF CallNode
  <2> QED
    BY <1>5, <2>3, <2>4
<1>10. ASSUME Reconnect(t) PROVE Stays
  <2>1. local' = local /\ Goto(t, "transmit", "reopen")
    BY <1>10 DEF Reconnect
  <2> QED
    BY <1>0, <1>5, <2>1
<1>11. Stays
  <2> HIDE DEF Stays
  <2> QED
    BY <1>6, <1>7, <1>8, <1>9, <1>10
<1>12. DevicesSound'
  BY <1>0, <1>1, <1>11, DevicesKept DEF devices, settings
<1> QED
  BY <1>2, <1>11, <1>12 DEF Inv, Typed

(* The steps that end a send().                                             *)
LEMMA SendEndsInv ==
    ASSUME Inv, NEW t \in Threads, SendSerial(t) \/ SendSacn(t) \/ SentArtNet(t)
    PROVE  Inv'
<1>0. MapTyped /\ DevicesTyped /\ DevicesSound
  BY DEF Inv, Typed
<1>1. Return(t, "transmit")
  BY DEF SendSerial, SendSacn, SentArtNet
<1>2. "transmit" \in Locations \ Sections
  BY DEF Locations, Sections
<1>3. /\ CallsTyped'
      /\ \A x \in Threads :
            (pc'[x] \in Sections \/ pc[x] \in Sections) => pc'[x] = pc[x]
  BY <1>1, <1>2, ReturnInv
<1>4. UNCHANGED <<map, settings, initialized, source, artnet_node, artnet_mappings>>
  BY DEF SendSerial, SendSacn, SentArtNet, devices
<1>5. open_port' \in Ports \cup {NoPort} /\ cooled_down' \in BOOLEAN
  BY <1>0 DEF SendSerial, SendSacn, SentArtNet, OpenPort, devices, MapTyped, DevicesTyped
<1>6. MapTyped' /\ DevicesTyped'
  BY <1>0, <1>4, <1>5 DEF MapTyped, DevicesTyped, map, settings
<1>7. DevicesSound'
  BY <1>0, <1>3, <1>4, DevicesKept DEF settings
<1> QED
  BY <1>3, <1>6, <1>7 DEF Inv, Typed

(* Every step keeps the invariant.                                          *)
LEMMA InvNext == Inv /\ [Next]_vars => Inv'
<1> SUFFICES ASSUME Inv, [Next]_vars PROVE Inv'
  OBVIOUS
<1>1. CASE UNCHANGED vars
  <2>1. MapTyped' /\ DevicesTyped' /\ CallsTyped'
    BY <1>1 DEF Inv, Typed, MapTyped, DevicesTyped, CallsTyped, vars, map, settings,
       devices, mutexes
  <2>2. DevicesSound'
    BY <1>1, DevicesKept DEF Inv, vars, settings, devices
  <2> QED
    BY <2>1, <2>2 DEF Inv, Typed
<1>2. CASE CooldownElapses
  <2>1. MapTyped' /\ DevicesTyped' /\ CallsTyped'
    BY <1>2 DEF CooldownElapses, Inv, Typed, MapTyped, DevicesTyped, CallsTyped, map,
       settings, devices, mutexes
  <2>2. DevicesSound'
    BY <1>2, DevicesKept DEF CooldownElapses, Inv, settings, devices
  <2> QED
    BY <2>1, <2>2 DEF Inv, Typed
<1>3. ASSUME NEW t \in Threads, Enter(t) PROVE Inv'
  BY <1>3, EnterInv
<1>4. ASSUME NEW t \in Threads, Continue(t) PROVE Inv'
  BY <1>4, MapCallsInv, LiveCallsInv, DeinitInv, OpenInv, SendStaysInv, SendEndsInv
     DEF Continue
<1> QED
  BY <1>1, <1>2, <1>3, <1>4 DEF Next

(* The invariant has what DevicesAgree says.                                *)
LEMMA InvAgrees == Inv => DevicesAgree
<1> SUFFICES ASSUME Inv PROVE DevicesAgree
  OBVIOUS
<1>1. TypeOK
  BY DEF Inv, Typed, MapTyped, DevicesTyped, CallsTyped, TypeOK, Nodes
<1>2. FlagsMatchDevices
  <2>1. ASSUME StateFree PROVE artnet_node.state # "standby"
    BY <2>1, SectionEmpty DEF Inv, Typed, DevicesSound, Starting, Sections
  <2> QED
    BY <2>1 DEF FlagsMatchDevices, Inv, Typed, DevicesTyped, DevicesSound, Nodes
<1>3. MappingMatchesNode /\ NameAgrees
  BY DEF Inv, DevicesSound
<1> QED
  BY <1>1, <1>2, <1>3 DEF DevicesAgree

(* Whatever threads call in whatever order, and whichever devices fail:     *)
(* outside the sections of state_mutex the sACN and Art-Net flags say what  *)
(* their devices are, a mapping names the port whose address is its         *)
(* universe's own, and a running source has the name that name() returns.   *)
THEOREM DevicesAgreeCorrect == Spec => []DevicesAgree
<1>1. Init => Inv
  BY InvInit
<1>2. Inv /\ [Next]_vars => Inv'
  BY InvNext
<1>3. Inv => DevicesAgree
  BY InvAgrees
<1> QED
  BY <1>1, <1>2, <1>3, PTL DEF Spec

-----------------------------------------------------------------------------
(* One thread.                                                              *)

OthersIdle == \A t \in Threads \ {t1} : pc[t] = "idle"

(* What a lone thread has read is still so when it uses it.                 *)
SnapshotsCurrent ==
    /\ pc[t1] \in {"priority", "deinit", "transmit", "call", "reopen", "open", "start"} =>
          local[t1].keys = universes
    /\ pc[t1] \in {"snapshot", "transmit", "call"} => local[t1].mapping = artnet_mappings
    /\ pc[t1] = "call" => Sending(t1) \in DOMAIN artnet_mappings
    /\ pc[t1] = "add" => local[t1].uni \in universes
    /\ pc[t1] = "remove" => local[t1].uni \notin universes

(* The source and the node are never both up: only a thread that found a    *)
(* mapping, hence a node, reconnects to Art-Net.                            *)
OneUp ==
    /\ OneProtocolUp
    /\ pc[t1] \in {"reopen", "open", "start"} => ~source.up
    /\ pc[t1] \in {"transmit", "call"} /\ local[t1].failed => ~source.up
    /\ pc[t1] = "snapshot" => ~local[t1].failed

InProgress(calls) == IF pc[t1] \in calls THEN {local[t1].uni} ELSE {}

(* What the source was told: all universes but those that universe()        *)
(* created beside it, and the one whose call is in progress; its priority   *)
(* unless the last priority() stopped early.                                *)
SourceTold ==
    /\ stopped \in BOOLEAN
    /\ ~source.up => DOMAIN source.live = {} /\ missed = {} /\ ~stopped
    /\ missed \subseteq universes \ InProgress({"add", "rollback"})
    /\ DOMAIN source.live \subseteq (universes \ missed) \cup InProgress({"remove"})
    /\ source.up =>
          universes \ missed \subseteq
             DOMAIN source.live \cup InProgress({"add", "rollback"})
    /\ pc[t1] \in {"add", "rollback"} => local[t1].uni \notin DOMAIN source.live
    /\ ~stopped => \A u \in DOMAIN source.live : source.live[u] = sacn_priority

AloneInv == OthersIdle /\ SnapshotsCurrent /\ OneUp /\ SourceTold

(* The first state.                                                         *)
LEMMA AloneInit == MCInit => AloneInv
<1> SUFFICES ASSUME MCInit PROVE AloneInv
  OBVIOUS
<1>1. pc[t1] = "idle" /\ \A t \in Threads : pc[t] = "idle"
  BY DEF MCInit, Init
<1>2. source = NoSource /\ missed = {} /\ ~stopped
  BY DEF MCInit, Init
<1>3. ~source.up /\ DOMAIN source.live = {}
  BY <1>2, BlankTypes
<1>4. stopped \in BOOLEAN
  BY DEF MCInit
<1> QED
  BY <1>1, <1>2, <1>3, <1>4 DEF AloneInv, OthersIdle, SnapshotsCurrent, OneUp,
     OneProtocolUp, SourceTold, InProgress

(* The history of the source changes only where a universe is created or    *)
(* removed, a source comes or goes, or priority() ends.                     *)
LEMMA MarksStay ==
    ASSUME SourceTold, Marked, OthersIdle, OthersIdle', universes \subseteq universes',
           source'.up = source.up, ~EndsPriority(t1),
           pc'[t1] # "activate" \/ universes' = universes
    PROVE  missed' = missed /\ stopped' = stopped
<1>1. \A t \in Threads : ~EndsPriority(t)
  BY DEF OthersIdle, EndsPriority
<1>2. Creates => universes' = universes
  BY DEF Creates, OthersIdle
<1>3. missed \subseteq universes' /\ (~source.up => missed = {} /\ ~stopped)
      /\ stopped \in BOOLEAN
  BY DEF SourceTold
<1>4. missed' = missed
  BY <1>2, <1>3 DEF Marked
<1>5. stopped' = (source'.up /\ stopped)
  BY <1>1 DEF Marked
<1> QED
  BY <1>3, <1>4, <1>5

(* A call that begins.                                                      *)
LEMMA AloneCall ==
    ASSUME Inv, AloneInv, Marked, NEW to \in Locations, NEW args, Call(t1, to, args)
    PROVE  /\ OthersIdle' /\ pc[t1] = "idle" /\ pc'[t1] = to /\ local'[t1] = args
           /\ UNCHANGED <<source, artnet_node, artnet_mappings, sacn_priority, source_name>>
           /\ universes \subseteq universes' /\ (to # "activate" \/ universes' = universes) =>
                 UNCHANGED <<missed, stopped>>
<1>1. /\ OthersIdle' /\ pc[t1] = "idle" /\ pc'[t1] = to /\ local'[t1] = args
      /\ UNCHANGED <<source, artnet_node, artnet_mappings, sacn_priority, source_name>>
  BY DEF Inv, Typed, CallsTyped, AloneInv, OthersIdle, Call, Goto, settings, devices
<1>2. ~EndsPriority(t1)
  BY <1>1 DEF EndsPriority
<1>3. SourceTold /\ OthersIdle /\ source'.up = source.up
  BY <1>1 DEF AloneInv
<1> QED
  BY <1>1, <1>2, <1>3, MarksStay

(* Every call that begins.                                                  *)
LEMMA AloneEnter ==
    ASSUME Inv, AloneInv, Marked, Enter(t1)
    PROVE  AloneInv'
<1>0. /\ Locations = {"idle", "activate", "add", "rollback", "remove", "priority",
                      "name", "deinit", "open", "start", "snapshot", "transmit",
                      "call", "retry", "reopen"}
      /\ universes \in SUBSET Universes
  BY DEF Locations, Inv, Typed, MapTyped
<1>1. ASSUME NEW p, SetProtocol(t1, p) \/ SetPort(t1, p) PROVE AloneInv'
  <2>1. /\ UNCHANGED <<universes, pc, local, source, artnet_node, artnet_mappings,
                       sacn_priority>>
        /\ pc[t1] = "idle" /\ OthersIdle'
    BY <1>1 DEF SetProtocol, SetPort, map, devices, mutexes, AloneInv, OthersIdle
  <2>2. UNCHANGED <<missed, stopped>>
    BY <2>1, MarksStay DEF AloneInv, EndsPriority
  <2> QED
    BY <2>1, <2>2 DEF AloneInv, SnapshotsCurrent, OneUp, OneProtocolUp, SourceTold,
       InProgress, Sending
<1>2. ASSUME NEW u \in Universes, SetUniverse(t1, u) PROVE AloneInv'
  <2> DEFINE args == [NoLocals EXCEPT !.uni = u]
  <2>1. Call(t1, "activate", args) /\ universes' = universes \cup {u}
    BY <1>2 DEF SetUniverse
  <2>2. /\ OthersIdle' /\ pc[t1] = "idle" /\ pc'[t1] = "activate"
        /\ UNCHANGED <<source, artnet_node, artnet_mappings, sacn_priority, source_name>>
    BY <1>0, <2>1, AloneCall
  <2>3. stopped' = stopped /\ missed' = IF source.up THEN missed \cup (universes' \ universes)
                                                    ELSE missed
    <3>1. Creates
      BY <2>2 DEF Creates
    <3>2. \A t \in Threads : ~EndsPriority(t)
      BY <2>2 DEF EndsPriority, AloneInv, OthersIdle
    <3>3. (~source.up => missed = {} /\ ~stopped) /\ stopped \in BOOLEAN
      BY DEF AloneInv, SourceTold
    <3>4. stopped' = (source'.up /\ stopped)
      BY <3>2 DEF Marked
    <3> QED
      BY <2>2, <3>1, <3>3, <3>4 DEF Marked
  <2>4. SourceTold'
    BY <2>1, <2>2, <2>3 DEF AloneInv, SourceTold, InProgress
  <2> QED
    BY <2>1, <2>2, <2>4 DEF AloneInv, SnapshotsCurrent, OneUp, OneProtocolUp
<1>3. ASSUME NEW u \in Universes, AddUniverse(t1, u) PROVE AloneInv'
  <2> DEFINE args == [NoLocals EXCEPT !.uni = u]
  <2>1. Call(t1, "add", args) /\ universes' = universes \cup {u} /\ u \notin universes
    BY <1>3 DEF AddUniverse
  <2>2. /\ OthersIdle' /\ pc[t1] = "idle" /\ pc'[t1] = "add" /\ local'[t1] = args
        /\ UNCHANGED <<source, artnet_node, artnet_mappings, sacn_priority, source_name>>
        /\ UNCHANGED <<missed, stopped>>
    BY <1>0, <2>1, AloneCall
  <2>3. local'[t1].uni = u
    BY <2>2, ArgsTyped
  <2> QED
    BY <2>1, <2>2, <2>3 DEF AloneInv, SnapshotsCurrent, OneUp, OneProtocolUp, SourceTold,
       InProgress
<1>4. ASSUME NEW u \in Universes, RemoveUniverse(t1, u) PROVE AloneInv'
  <2> DEFINE args == [NoLocals EXCEPT !.uni = u]
  <2>1. Call(t1, "remove", args) /\ universes' = universes \ {u}
    BY <1>4 DEF RemoveUniverse
  <2>2. /\ OthersIdle' /\ pc[t1] = "idle" /\ pc'[t1] = "remove" /\ local'[t1] = args
        /\ UNCHANGED <<source, artnet_node, artnet_mappings, sacn_priority, source_name>>
    BY <1>0, <2>1, AloneCall
  <2>3. local'[t1].uni = u
    BY <2>2, ArgsTyped
  <2>4. stopped' = stopped /\ missed' = missed \ {u}
    <3>1. ~Creates /\ \A t \in Threads : ~EndsPriority(t)
      BY <2>2 DEF Creates, EndsPriority, AloneInv, OthersIdle
    <3>2. (~source.up => missed = {} /\ ~stopped) /\ stopped \in BOOLEAN
          /\ missed \subseteq universes
      BY DEF AloneInv, SourceTold
    <3>3. stopped' = (source'.up /\ stopped)
      BY <3>1 DEF Marked
    <3> QED
      BY <2>1, <2>2, <3>1, <3>2, <3>3 DEF Marked
  <2>5. SourceTold'
    BY <2>1, <2>2, <2>3, <2>4 DEF AloneInv, SourceTold, InProgress
  <2> QED
    BY <2>1, <2>2, <2>3, <2>5 DEF AloneInv, SnapshotsCurrent, OneUp, OneProtocolUp
<1>5. ASSUME NEW to \in {"priority", "name", "deinit", "snapshot"}, NEW args,
             Call(t1, to, args), UNCHANGED map,
             to \in {"priority", "deinit"} => args.keys = universes,
             to = "snapshot" => args.mapping = artnet_mappings /\ ~args.failed
      PROVE  AloneInv'
  <2>1. universes' = universes
    BY <1>5 DEF map
  <2>2. /\ OthersIdle' /\ pc[t1] = "idle" /\ pc'[t1] = to /\ local'[t1] = args
        /\ UNCHANGED <<source, artnet_node, artnet_mappings, sacn_priority, source_name>>
        /\ UNCHANGED <<missed, stopped>>
    BY <1>0, <1>5, <2>1, AloneCall
  <2> QED
    BY <1>5, <2>1, <2>2 DEF AloneInv, SnapshotsCurrent, OneUp, OneProtocolUp, SourceTold,
       InProgress
<1>6. ASSUME NEW p \in Priorities, SetPriority(t1, p) PROVE AloneInv'
  <2> DEFINE args == [NoLocals EXCEPT !.priority = p, !.keys = universes]
  <2>1. Call(t1, "priority", args) /\ UNCHANGED map
    BY <1>6 DEF SetPriority
  <2>2. args.keys = universes
    BY DEF NoLocals
  <2> HIDE DEF args
  <2> QED
    BY <1>5, <2>1, <2>2
<1>7. ASSUME NEW n \in Names, SetName(t1, n) PROVE AloneInv'
  <2> DEFINE args == [NoLocals EXCEPT !.name = n]
  <2>1. Call(t1, "name", args) /\ UNCHANGED map
    BY <1>7 DEF SetName
  <2> HIDE DEF args
  <2> QED
    BY <1>5, <2>1
<1>8. CASE InitKeys(t1)
  <2> DEFINE args == [NoLocals EXCEPT !.keys = universes]
  <2>1. Call(t1, "deinit", args) /\ UNCHANGED map
    BY <1>8 DEF InitKeys
  <2>2. args.keys = universes
    BY DEF NoLocals
  <2> HIDE DEF args
  <2> QED
    BY <1>5, <2>1, <2>2
<1>9. CASE SendState(t1)
  <2> DEFINE args == [NoLocals EXCEPT !.protocol = protocol, !.mapping = artnet_mappings]
  <2>1. Call(t1, "snapshot", args) /\ UNCHANGED map
    BY <1>9 DEF SendState
  <2>2. args.mapping = artnet_mappings /\ ~args.failed
    BY DEF NoLocals
  <2> HIDE DEF args
  <2> QED
    BY <1>5, <2>1, <2>2
<1> QED
  BY <1>1, <1>2, <1>3, <1>4, <1>6, <1>7, <1>8, <1>9 DEF Enter

(* What the source was told, between two calls.                             *)
SourceWhole ==
    /\ stopped \in BOOLEAN
    /\ ~source.up => DOMAIN source.live = {} /\ missed = {} /\ ~stopped
    /\ missed \subseteq universes
    /\ DOMAIN source.live \subseteq universes \ missed
    /\ source.up => universes \ missed \subseteq DOMAIN source.live
    /\ ~stopped => \A u \in DOMAIN source.live : source.live[u] = sacn_priority

(* A call that returns and leaves the source as it was told.                *)
LEMMA AloneReturn ==
    ASSUME Inv, AloneInv, NEW from \in Locations, Return(t1, from),
           OneProtocolUp', SourceWhole'
    PROVE  AloneInv'
<1>1. pc' = [pc EXCEPT ![t1] = "idle"]
  BY ReturnTyped DEF Inv, Typed
<1>2. pc'[t1] = "idle" /\ OthersIdle'
  BY <1>1 DEF Inv, Typed, CallsTyped, AloneInv, OthersIdle
<1> QED
  BY <1>2 DEF AloneInv, SnapshotsCurrent, OneUp, SourceTold, SourceWhole, InProgress

(* A call that is not priority() and returns with the universes it found.   *)
LEMMA AloneMarks ==
    ASSUME Inv, AloneInv, Marked, NEW from \in Locations \ {"priority"}, Return(t1, from),
           universes \subseteq universes', source'.up = source.up
    PROVE  missed' = missed /\ stopped' = stopped
<1>1. pc' = [pc EXCEPT ![t1] = "idle"] /\ pc[t1] = from
  BY ReturnTyped DEF Inv, Typed, Return, Goto
<1>2. pc'[t1] = "idle" /\ OthersIdle'
  BY <1>1 DEF Inv, Typed, CallsTyped, AloneInv, OthersIdle
<1> QED
  BY <1>1, <1>2, MarksStay DEF AloneInv, EndsPriority

(* Of one thread, a call in any other place has told the source everything. *)
LEMMA AloneWhole ==
    ASSUME AloneInv, pc[t1] \notin {"add", "rollback", "remove"}
    PROVE  SourceWhole
BY DEF AloneInv, SourceTold, SourceWhole, InProgress

(* universe(), addUniverse() and its roll-back.                             *)
LEMMA AloneMapCalls ==
    ASSUME Inv, AloneInv, Marked,
           LockSend(t1) \/ Activate(t1) \/ AddLiveFails(t1) \/ RollBack(t1)
    PROVE  AloneInv'
<1>1. CASE LockSend(t1)
  <2>1. /\ UNCHANGED <<universes, pc, local, source, artnet_node, artnet_mappings,
                       sacn_priority>>
        /\ pc[t1] # "idle" /\ OthersIdle'
    BY <1>1 DEF LockSend, TakesSendMutex, map, settings, devices, AloneInv, OthersIdle
  <2>2. UNCHANGED <<missed, stopped>>
    BY <2>1, MarksStay DEF AloneInv, EndsPriority
  <2> QED
    BY <2>1, <2>2 DEF AloneInv, SnapshotsCurrent, OneUp, OneProtocolUp, SourceTold,
       InProgress, Sending
<1>2. CASE Activate(t1)
  <2>1. Return(t1, "activate") /\ pc[t1] = "activate" /\ "activate" \in Locations
    BY <1>2 DEF Activate, Return, Goto, Locations
  <2>2. SourceWhole
    BY <2>1, AloneWhole
  <2>3. UNCHANGED <<universes, source, artnet_node, sacn_priority>>
    BY <1>2 DEF Activate, settings, devices
  <2>4. UNCHANGED <<missed, stopped>>
    BY <2>1, <2>3, AloneMarks
  <2>5. SourceWhole' /\ OneProtocolUp'
    BY <2>2, <2>3, <2>4 DEF SourceWhole, AloneInv, OneUp, OneProtocolUp
  <2> QED
    BY <2>1, <2>5, AloneReturn
<1>3. CASE AddLiveFails(t1)
  <2>1. /\ pc[t1] = "add" /\ pc' = [pc EXCEPT ![t1] = "rollback"]
        /\ UNCHANGED <<universes, source, artnet_node, artnet_mappings, sacn_priority, local>>
    BY <1>3 DEF AddLiveFails, Goto, map, settings, devices
  <2>2. pc'[t1] = "rollback" /\ OthersIdle'
    BY <2>1 DEF Inv, Typed, CallsTyped, AloneInv, OthersIdle
  <2>3. UNCHANGED <<missed, stopped>>
    BY <2>1, <2>2, MarksStay DEF AloneInv, EndsPriority
  <2> QED
    BY <2>1, <2>2, <2>3 DEF AloneInv, SnapshotsCurrent, OneUp, OneProtocolUp, SourceTold,
       InProgress
<1>4. CASE RollBack(t1)
  <2>1. /\ Return(t1, "rollback") /\ pc[t1] = "rollback" /\ "rollback" \in Locations
        /\ universes' = universes \ {local[t1].uni}
        /\ UNCHANGED <<source, artnet_node, sacn_priority>>
    BY <1>4 DEF RollBack, Return, Goto, Locations, settings, devices
  <2>2. pc' = [pc EXCEPT ![t1] = "idle"] /\ SourceTold
        /\ InProgress({"add", "rollback"}) = {local[t1].uni} /\ InProgress({"remove"}) = {}
    BY <2>1, ReturnTyped DEF Inv, Typed, AloneInv, InProgress
  <2>3. missed' = missed /\ stopped' = stopped
    <3>1. ~Creates /\ \A t \in Threads : ~EndsPriority(t)
      BY <2>1, <2>2 DEF Inv, Typed, CallsTyped, Creates, EndsPriority, AloneInv, OthersIdle
    <3>2. (~source.up => missed = {} /\ ~stopped) /\ stopped \in BOOLEAN
          /\ missed \subseteq universes'
      BY <2>1, <2>2 DEF SourceTold
    <3>3. stopped' = (source'.up /\ stopped)
      BY <3>1 DEF Marked
    <3> QED
      BY <2>1, <3>1, <3>2, <3>3 DEF Marked
  <2>4. SourceWhole'
    BY <2>1, <2>2, <2>3 DEF SourceWhole, SourceTold
  <2>5. OneProtocolUp'
    BY <2>1 DEF AloneInv, OneUp, OneProtocolUp
  <2> QED
    BY <2>1, <2>4, <2>5, AloneReturn
<1> QED
  BY <1>1, <1>2, <1>3, <1>4

(* The calls that change a running source.                                  *)
LEMMA AloneLiveCalls ==
    ASSUME Inv, AloneInv, Marked,
           AddLive(t1) \/ RemoveLive(t1) \/ PriorityLive(t1) \/ NameLive(t1)
    PROVE  AloneInv'
<1>0. /\ source.live \in PartialMaps(Priorities)
      /\ source \in [up : BOOLEAN, name : Names, live : PartialMaps(Priorities)]
      /\ "sACN" \in initialized <=> source.up
      /\ sacn_priority \in Priorities /\ DevicesTyped
      /\ local[t1] \in Locals
  BY DEF Inv, Typed, DevicesTyped, DevicesSound, MapTyped, CallsTyped
<1>1. CASE AddLive(t1)
  <2> DEFINE u == local[t1].uni
             live == With(source.live, u, sacn_priority)
  <2>1. /\ Return(t1, "add") /\ pc[t1] = "add" /\ "add" \in Locations
        /\ UNCHANGED <<universes, artnet_node, sacn_priority>>
    BY <1>1 DEF AddLive, Return, Goto, Locations, map, settings
  <2>2. u \in Universes
    BY <2>1 DEF Inv, Typed, CallsTyped, UniverseCalls
  <2>3. /\ live \in PartialMaps(Priorities) /\ DOMAIN live = DOMAIN source.live \cup {u}
        /\ \A x \in DOMAIN live : live[x] = IF x = u THEN sacn_priority ELSE source.live[x]
    <3>0. source.live \in PartialMaps(Priorities) /\ sacn_priority \in Priorities
      BY <1>0
    <3>1. live \in PartialMaps(Priorities)
      BY <2>2, <3>0, MapChanges
    <3>2. DOMAIN live = DOMAIN source.live \cup {u}
      BY DEF With
    <3> QED
      BY <3>1, <3>2 DEF With
  <2>4. \/ ~source.up /\ source' = source
        \/ source.up /\ source' = [source EXCEPT !.live = live]
    BY <1>0, <1>1 DEF AddLive, Added
  <2> HIDE DEF live
  <2>5. [source EXCEPT !.live = live].live = live
        /\ [source EXCEPT !.live = live].up = source.up
    BY <1>0, <2>3, LiveTyped
  <2>6. SourceTold /\ OneProtocolUp /\ InProgress({"remove"}) = {}
        /\ InProgress({"add", "rollback"}) = {u}
    BY <2>1 DEF AloneInv, OneUp, InProgress
  <2>7. u \in universes
    BY <2>1 DEF AloneInv, SnapshotsCurrent
  <2>8. OneProtocolUp' /\ source'.up = source.up
    BY <2>1, <2>4, <2>5, <2>6 DEF OneProtocolUp
  <2>11. UNCHANGED <<missed, stopped>>
    BY <2>1, <2>8, AloneMarks
  <2>9. CASE source' = source /\ ~source.up
    <3>1. SourceWhole'
      BY <2>1, <2>6, <2>9, <2>11 DEF SourceWhole, SourceTold
    <3> QED
      BY <2>1, <2>8, <3>1, AloneReturn
  <2>10. CASE source' = [source EXCEPT !.live = live] /\ source.up
    <3>1. source'.live = live
      BY <2>5, <2>10
    <3>2. SourceWhole'
      BY <2>1, <2>3, <2>6, <2>7, <2>8, <2>10, <2>11, <3>1 DEF SourceWhole, SourceTold
    <3> QED
      BY <2>1, <2>8, <3>2, AloneReturn
  <2> QED
    BY <2>4, <2>9, <2>10
<1>2. CASE RemoveLive(t1)
  <2> DEFINE u == local[t1].uni
             live == Without(source.live, u)
  <2>1. /\ Return(t1, "remove") /\ pc[t1] = "remove" /\ "remove" \in Locations
        /\ UNCHANGED <<universes, artnet_node, sacn_priority>>
    BY <1>2 DEF RemoveLive, Return, Goto, Locations, map, settings
  <2>2. /\ live \in PartialMaps(Priorities) /\ DOMAIN live = DOMAIN source.live \ {u}
        /\ \A x \in DOMAIN live : live[x] = source.live[x]
    <3>0. source.live \in PartialMaps(Priorities)
      BY <1>0
    <3>1. live \in PartialMaps(Priorities) /\ DOMAIN live = DOMAIN source.live \ {u}
      BY <3>0, MapChanges
    <3> QED
      BY <3>1 DEF Without
  <2>3. \/ ~source.up /\ source' = source
        \/ source.up /\ source' = [source EXCEPT !.live = live]
    BY <1>0, <1>2 DEF RemoveLive, Removed
  <2> HIDE DEF live
  <2>4. [source EXCEPT !.live = live].live = live
        /\ [source EXCEPT !.live = live].up = source.up
    BY <1>0, <2>2, LiveTyped
  <2>5. /\ SourceTold /\ OneProtocolUp /\ InProgress({"remove"}) = {u}
        /\ InProgress({"add", "rollback"}) = {} /\ u \notin universes
    BY <2>1 DEF AloneInv, OneUp, InProgress, SnapshotsCurrent
  <2>6. source'.up = source.up
    BY <2>3, <2>4
  <2>7. UNCHANGED <<missed, stopped>>
    BY <2>1, <2>6, AloneMarks
  <2>8. SourceWhole' /\ OneProtocolUp'
    BY <2>1, <2>2, <2>3, <2>4, <2>5, <2>7 DEF SourceWhole, OneProtocolUp, SourceTold
  <2> QED
    BY <2>1, <2>8, AloneReturn
<1>3. CASE PriorityLive(t1)
  <2> DEFINE p == local[t1].priority
             keys == local[t1].keys
             live == [u \in DOMAIN source.live |->
                        IF u \in Changed(keys) THEN p ELSE source.live[u]]
  <2>1. /\ Return(t1, "priority") /\ pc[t1] = "priority" /\ "priority" \in Locations
        /\ UNCHANGED <<universes, artnet_node>>
    BY <1>3 DEF PriorityLive, Return, Goto, Locations, map, settings
  <2>2. SourceWhole /\ OneProtocolUp /\ keys = universes
    BY <2>1, AloneWhole DEF AloneInv, OneUp, SnapshotsCurrent
  <2>3. live \in PartialMaps(Priorities) /\ DOMAIN live = DOMAIN source.live
    <3>1. DOMAIN source.live \in SUBSET Universes
      BY <1>0, MapFacts
    <3>2. p \in Priorities
      BY <1>0 DEF Locals
    <3>3. live \in [DOMAIN source.live -> Priorities]
      BY <1>0, <3>2, MapFacts
    <3>4. DOMAIN live = DOMAIN source.live
      OBVIOUS
    <3> HIDE DEF live
    <3> QED
      BY <3>1, <3>3, <3>4, IsMap
  <2>4. \/ /\ ~source.up /\ source' = source
        \/ /\ source.up /\ source' = [source EXCEPT !.live = live]
           /\ sacn_priority' = IF keys \subseteq DOMAIN source.live THEN p ELSE sacn_priority
    BY <1>0, <1>3 DEF PriorityLive
  <2>5. ASSUME keys \subseteq DOMAIN source.live
        PROVE  \A u \in DOMAIN source.live : live[u] = p
    <3>1. DOMAIN source.live = keys
      BY <2>2, <2>5 DEF SourceWhole
    <3>2. Changed(keys) = keys
      BY <3>1 DEF Changed
    <3> QED
      BY <3>1, <3>2
  <2> HIDE DEF live
  <2>6. [source EXCEPT !.live = live].live = live
        /\ [source EXCEPT !.live = live].up = source.up
    BY <1>0, <2>3, LiveTyped
  <2>7. /\ missed' = missed
        /\ stopped' = (source.up /\ ~(keys \subseteq DOMAIN source.live))
    <3>1. pc' = [pc EXCEPT ![t1] = "idle"]
      BY <2>1, ReturnTyped DEF Inv, Typed
    <3>2. ~Creates /\ \A t \in Threads : EndsPriority(t) <=> t = t1
      BY <2>1, <3>1 DEF Inv, Typed, CallsTyped, Creates, EndsPriority, AloneInv, OthersIdle
    <3>3. source'.up = source.up
      BY <2>4, <2>6
    <3>4. missed' = missed
      BY <2>1, <2>2, <3>2, <3>3 DEF Marked, SourceWhole
    <3>5. stopped' = (source'.up /\ ~(keys \subseteq DOMAIN source.live))
      BY <3>2 DEF Marked
    <3> QED
      BY <3>3, <3>4, <3>5
  <2>8. CASE ~source.up
    <3>1. source' = source /\ DOMAIN source.live = {} /\ missed = {} /\ stopped' = FALSE
      BY <2>2, <2>4, <2>7, <2>8 DEF SourceWhole
    <3>2. SourceWhole' /\ OneProtocolUp'
      BY <2>1, <2>2, <2>7, <2>8, <3>1 DEF SourceWhole, OneProtocolUp
    <3> QED
      BY <2>1, <3>2, AloneReturn
  <2>9. CASE source.up
    <3>1. source'.live = live /\ source'.up /\ stopped' \in BOOLEAN
          /\ (~stopped' => keys \subseteq DOMAIN source.live /\ sacn_priority' = p)
      BY <2>4, <2>6, <2>7, <2>9
    <3>2. SourceWhole' /\ OneProtocolUp'
      BY <2>1, <2>2, <2>3, <2>5, <2>7, <2>9, <3>1 DEF SourceWhole, OneProtocolUp
    <3> QED
      BY <2>1, <3>2, AloneReturn
  <2> QED
    BY <2>8, <2>9, <1>0
<1>4. CASE NameLive(t1)
  <2>1. /\ Return(t1, "name") /\ pc[t1] = "name" /\ "name" \in Locations
        /\ UNCHANGED <<universes, artnet_node, sacn_priority>>
    BY <1>4 DEF NameLive, Return, Goto, Locations, map, settings
  <2>2. source'.live = source.live /\ source'.up = source.up
    BY <1>0, <1>4 DEF NameLive
  <2>3. SourceWhole /\ OneProtocolUp
    BY <2>1, AloneWhole DEF AloneInv, OneUp
  <2>4. UNCHANGED <<missed, stopped>>
    BY <2>1, <2>2, AloneMarks
  <2>5. SourceWhole' /\ OneProtocolUp'
    BY <2>1, <2>2, <2>3, <2>4 DEF SourceWhole, OneProtocolUp
  <2> QED
    BY <2>1, <2>5, AloneReturn
<1> QED
  BY <1>1, <1>2, <1>3, <1>4

(* init() and the first half of a reconnect.                                *)
LEMMA AloneDeinit ==
    ASSUME Inv, AloneInv, Marked, Deinit(t1) \/ DeinitArtNet(t1)
    PROVE  AloneInv'
<1>1. /\ pc[t1] \in {"deinit", "reopen"} /\ pc' = [pc EXCEPT ![t1] = "open"]
      /\ UNCHANGED <<universes, sacn_priority>>
  BY DEF Deinit, DeinitArtNet, Goto, map, settings
<1>2. pc'[t1] = "open" /\ OthersIdle'
  BY <1>1 DEF Inv, Typed, CallsTyped, AloneInv, OthersIdle
<1>3. ~source'.up /\ DOMAIN source'.live = {}
  <2>1. CASE Deinit(t1)
    <3>1. source' = NoSource \/ (source' = source /\ ~source.up)
      BY <2>1 DEF Deinit, SourceAfterDeinit, Inv, DevicesSound
    <3> QED
      BY <3>1, BlankTypes DEF AloneInv, SourceTold
  <2>2. CASE DeinitArtNet(t1)
    <3>1. source' = source /\ pc[t1] = "reopen"
      BY <2>2 DEF DeinitArtNet, Goto
    <3> QED
      BY <3>1 DEF AloneInv, OneUp, SourceTold
  <2> QED
    BY <2>1, <2>2
<1>4. local'[t1].keys = universes
  <2>1. local[t1].keys = universes
    BY <1>1 DEF AloneInv, SnapshotsCurrent
  <2>2. local'[t1].keys = local[t1].keys
    BY DEF Deinit, DeinitArtNet, Inv, Typed, CallsTyped, Locals
  <2> QED
    BY <2>1, <2>2
<1>5. SnapshotsCurrent'
  BY <1>1, <1>2, <1>4 DEF SnapshotsCurrent
<1>6. OneUp'
  BY <1>2, <1>3 DEF OneUp, OneProtocolUp
<1>7. missed' = {} /\ stopped' = FALSE
  BY <1>3 DEF Marked
<1>8. SourceTold'
  BY <1>2, <1>3, <1>7 DEF SourceTold, InProgress
<1> QED
  BY <1>2, <1>5, <1>6, <1>8 DEF AloneInv

(* The three inits.                                                         *)
LEMMA AloneOpen ==
    ASSUME Inv, AloneInv, Marked, Open(t1)
    PROVE  AloneInv'
<1>0. {"open", "start"} \subseteq Locations
  BY DEF Locations
<1>1. pc[t1] \in {"open", "start"} /\ UNCHANGED <<universes, sacn_priority>>
  BY DEF Open, InitSerial, InitSacn, NewNode, NoNewNode, StartNode, StartNodeFails,
     Return, Goto, map, settings
<1>2. SourceWhole /\ ~source.up /\ local[t1].keys = universes
  BY <1>1, AloneWhole DEF AloneInv, OneUp, SnapshotsCurrent
<1>3. ASSUME NEW from \in {"open", "start"}, Return(t1, from), source' = source
      PROVE  AloneInv'
  <2>1. missed' = {} /\ stopped' = FALSE
    BY <1>2, <1>3 DEF Marked
  <2>2. SourceWhole' /\ OneProtocolUp'
    BY <1>1, <1>2, <1>3, <2>1 DEF SourceWhole, OneProtocolUp
  <2> QED
    BY <1>0, <1>3, <2>2, AloneReturn
<1>4. CASE InitSerial(t1)
  BY <1>3, <1>4 DEF InitSerial
<1>5. CASE InitSacn(t1)
  <2>1. Return(t1, "open") /\ pc[t1] = "open" /\ artnet_node' = artnet_node
    BY <1>5 DEF InitSacn, Return, Goto
  <2>2. CASE source' = source
    BY <1>3, <2>1, <2>2
  <2>3. CASE source' = [up |-> TRUE, name |-> source_name,
                        live |-> [u \in local[t1].keys |-> sacn_priority]]
    <3>1. DOMAIN source'.live = universes /\ \A u \in universes : source'.live[u] = sacn_priority
      BY <1>2, <2>3
    <3>2. missed' = {} /\ stopped' = FALSE
      <4>1. pc' = [pc EXCEPT ![t1] = "idle"]
        BY <1>0, <2>1, ReturnTyped DEF Inv, Typed
      <4>2. ~Creates /\ \A t \in Threads : ~EndsPriority(t)
        BY <2>1, <4>1 DEF Inv, Typed, CallsTyped, Creates, EndsPriority, AloneInv, OthersIdle
      <4>3. missed = {} /\ ~stopped
        BY <1>2 DEF SourceWhole
      <4>4. stopped' = (source'.up /\ stopped)
        BY <4>2 DEF Marked
      <4> QED
        BY <4>2, <4>3, <4>4 DEF Marked
    <3>3. SourceWhole'
      BY <1>1, <2>3, <3>1, <3>2 DEF SourceWhole
    <3>4. artnet_node.state = "none"
      BY <2>1 DEF Inv, DevicesSound
    <3>5. OneProtocolUp'
      BY <2>1, <3>4 DEF OneProtocolUp
    <3> QED
      BY <1>0, <2>1, <3>3, <3>5, AloneReturn
  <2> QED
    BY <1>5, <2>2, <2>3 DEF InitSacn
<1>6. CASE NewNode(t1)
  <2>1. /\ pc' = [pc EXCEPT ![t1] = "start"] /\ UNCHANGED <<source, local>>
    BY <1>6 DEF NewNode, Goto
  <2>2. pc'[t1] = "start" /\ OthersIdle'
    BY <2>1 DEF Inv, Typed, CallsTyped, AloneInv, OthersIdle
  <2>3. SnapshotsCurrent'
    BY <1>1, <1>2, <2>1, <2>2 DEF SnapshotsCurrent
  <2>4. OneUp'
    BY <1>2, <2>1, <2>2 DEF OneUp, OneProtocolUp
  <2>5. missed' = {} /\ stopped' = FALSE
    BY <1>2, <2>1 DEF Marked
  <2>6. SourceTold'
    BY <1>1, <1>2, <2>1, <2>2, <2>5 DEF SourceTold, SourceWhole, InProgress
  <2> QED
    BY <2>2, <2>3, <2>4, <2>6 DEF AloneInv
<1>7. CASE NoNewNode(t1)
  BY <1>3, <1>7 DEF NoNewNode, devices
<1>8. CASE StartNode(t1)
  BY <1>3, <1>8 DEF StartNode
<1>9. CASE StartNodeFails(t1)
  <2>1. /\ pc' = [pc EXCEPT ![t1] = "idle"] /\ source' = source
    BY <1>9 DEF StartNodeFails, Goto
  <2>2. pc'[t1] = "idle" /\ OthersIdle'
    BY <2>1 DEF Inv, Typed, CallsTyped, AloneInv, OthersIdle
  <2>3. missed' = {} /\ stopped' = FALSE
    BY <1>2, <2>1 DEF Marked
  <2> QED
    BY <1>1, <1>2, <2>1, <2>2, <2>3 DEF AloneInv, SnapshotsCurrent, OneUp, OneProtocolUp,
       SourceTold, SourceWhole, InProgress
<1> QED
  BY <1>4, <1>5, <1>6, <1>7, <1>8, <1>9 DEF Open

(* A mapped universe has a node that is on, and then no source is up.       *)
LEMMA MappedIsUp ==
    ASSUME Inv, AloneInv, NEW u \in DOMAIN artnet_mappings, pc[t1] \notin Sections
    PROVE  artnet_node.state = "on" /\ ~source.up
<1>1. artnet_node.state # "none" /\ artnet_node \in Nodes
  BY DEF Inv, DevicesSound, MappingMatchesNode, Typed, DevicesTyped
<1>2. artnet_node.state # "standby"
  BY DEF Inv, DevicesSound, Starting, AloneInv, OthersIdle, Sections
<1>3. artnet_node.state = "on"
  BY <1>1, <1>2 DEF Nodes
<1> QED
  BY <1>3 DEF AloneInv, OneUp, OneProtocolUp

(* send().                                                                  *)
LEMMA AloneSend ==
    ASSUME Inv, AloneInv, Marked,
           \/ SendData(t1) \/ SendSerial(t1) \/ SendSacn(t1)
           \/ SkipUniverse(t1) \/ LoadNode(t1) \/ CallNode(t1) \/ SentArtNet(t1)
           \/ Reconnect(t1)
    PROVE  AloneInv'
<1>0. /\ UNCHANGED <<universes, source, artnet_node, artnet_mappings, sacn_priority>>
      /\ pc[t1] \in {"snapshot", "transmit", "call"}
  BY DEF SendData, SendSerial, SendSacn, SkipUniverse, LoadNode, CallNode, SentArtNet,
     Reconnect, Goto, Transmitting, map, settings, devices
<1>1. SourceWhole
  BY <1>0, AloneWhole
<1>2. local \in [Threads -> Locals] /\ pc \in [Threads -> Locations]
      /\ local[t1] \in Locals /\ "transmit" \in Locations
  BY DEF Inv, Typed, CallsTyped, Locations
<1>3. ASSUME Return(t1, "transmit") PROVE AloneInv'
  <2>1. UNCHANGED <<missed, stopped>>
    BY <1>0, <1>2, <1>3, AloneMarks
  <2>2. SourceWhole' /\ OneProtocolUp'
    BY <1>0, <1>1, <2>1 DEF SourceWhole, OneProtocolUp, AloneInv, OneUp
  <2> QED
    BY <1>2, <1>3, <2>2, AloneReturn
<1>4. ASSUME NEW to \in {"transmit", "call", "reopen"}, pc' = [pc EXCEPT ![t1] = to],
             local'[t1].keys = universes,
             to # "reopen" => local'[t1].mapping = artnet_mappings,
             to = "call" => Sending(t1)' \in DOMAIN artnet_mappings,
             to = "reopen" \/ local'[t1].failed => ~source.up
      PROVE  AloneInv'
  <2>1. pc'[t1] = to /\ OthersIdle'
    BY <1>2, <1>4 DEF AloneInv, OthersIdle
  <2>2. SnapshotsCurrent'
    BY <1>0, <1>4, <2>1 DEF SnapshotsCurrent
  <2>3. OneUp'
    BY <1>0, <1>4, <2>1 DEF AloneInv, OneUp, OneProtocolUp
  <2>4. UNCHANGED <<missed, stopped>>
    BY <1>0, <2>1, MarksStay DEF AloneInv, EndsPriority
  <2>5. SourceTold'
    BY <1>0, <1>1, <2>1, <2>4 DEF SourceTold, SourceWhole, InProgress
  <2> QED
    BY <2>1, <2>2, <2>3, <2>5 DEF AloneInv
<1>5. /\ pc[t1] \in {"transmit", "call"} => local[t1].keys = universes
      /\ local[t1].mapping = artnet_mappings
      /\ pc[t1] \in {"transmit", "call"} /\ local[t1].failed => ~source.up
      /\ pc[t1] = "snapshot" => ~local[t1].failed
      /\ pc[t1] = "call" => Sending(t1) \in DOMAIN artnet_mappings
  BY <1>0 DEF AloneInv, SnapshotsCurrent, OneUp
<1>6. CASE SendData(t1)
  <2>1. /\ pc[t1] = "snapshot" /\ pc' = [pc EXCEPT ![t1] = "transmit"]
        /\ local' = [local EXCEPT ![t1].keys = universes, ![t1].todo = universes]
    BY <1>6 DEF SendData, Goto
  <2>2. /\ local'[t1].keys = universes /\ local'[t1].mapping = local[t1].mapping
        /\ local'[t1].failed = local[t1].failed
    BY <1>2, <2>1 DEF Locals
  <2> QED
    BY <1>4, <1>5, <2>1, <2>2
<1>7. CASE SendSerial(t1) \/ SendSacn(t1) \/ SentArtNet(t1)
  BY <1>3, <1>7 DEF SendSerial, SendSacn, SentArtNet
<1>8. ASSUME NEW failed \in BOOLEAN, NextUniverse(t1, failed)
      PROVE  /\ local'[t1].keys = local[t1].keys /\ local'[t1].mapping = local[t1].mapping
             /\ local'[t1].failed => local[t1].failed \/ failed
  <2>1. local'[t1] = [local[t1] EXCEPT !.todo = @ \ {Sending(t1)}, !.node = "null",
                                       !.failed = @ \/ failed]
    BY <1>2, <1>8 DEF NextUniverse
  <2> QED
    BY <1>2, <2>1 DEF Locals
<1>9. CASE SkipUniverse(t1)
  <2>1. pc[t1] = "transmit" /\ pc' = pc /\ NextUniverse(t1, FALSE)
    BY <1>9 DEF SkipUniverse, Transmitting
  <2>2. pc' = [pc EXCEPT ![t1] = "transmit"]
    BY <1>2, <2>1
  <2>3. /\ local'[t1].keys = local[t1].keys /\ local'[t1].mapping = local[t1].mapping
        /\ local'[t1].failed => local[t1].failed
    BY <1>8, <2>1
  <2> QED
    BY <1>4, <1>5, <2>1, <2>2, <2>3
<1>10. CASE LoadNode(t1)
  <2>1. /\ pc[t1] = "transmit" /\ pc' = [pc EXCEPT ![t1] = "call"]
        /\ Sending(t1) \in DOMAIN local[t1].mapping
        /\ local' = [local EXCEPT ![t1].node =
                       IF artnet_node.state = "none" THEN "null" ELSE "node"]
    BY <1>10 DEF LoadNode, Goto
  <2>2. /\ local'[t1].keys = local[t1].keys /\ local'[t1].mapping = local[t1].mapping
        /\ local'[t1].failed = local[t1].failed /\ local'[t1].todo = local[t1].todo
    BY <1>2, <2>1 DEF Locals
  <2>3. Sending(t1)' = Sending(t1)
    BY <2>2 DEF Sending
  <2> QED
    BY <1>4, <1>5, <2>1, <2>2, <2>3
<1>11. CASE CallNode(t1)
  <2>1. pc[t1] = "call" /\ pc' = [pc EXCEPT ![t1] = "transmit"]
    BY <1>11 DEF CallNode, Goto
  <2>2. PICK ok \in SendOutcomes(t1) : NextUniverse(t1, ~ok)
    BY <1>11 DEF CallNode
  <2>3. (~ok) \in BOOLEAN
    OBVIOUS
  <2>4. /\ local'[t1].keys = local[t1].keys /\ local'[t1].mapping = local[t1].mapping
    BY <1>8, <2>2, <2>3
  <2>5. ~source.up
    BY <1>5, <2>1, MappedIsUp DEF Sections
  <2> QED
    BY <1>4, <1>5, <2>1, <2>4, <2>5
<1>12. CASE Reconnect(t1)
  <2>1. /\ pc[t1] = "transmit" /\ pc' = [pc EXCEPT ![t1] = "reopen"]
        /\ local' = local /\ local[t1].failed
    BY <1>12 DEF Reconnect, Goto
  <2> QED
    BY <1>4, <1>5, <2>1
<1> QED
  BY <1>6, <1>7, <1>9, <1>10, <1>11, <1>12

(* A lone thread keeps its invariant.                                       *)
AloneHolds == Alone => Inv /\ AloneInv

(* Every step of a scenario of one thread keeps it.                         *)
LEMMA AloneNext == AloneHolds /\ [MCNext]_mcvars => AloneHolds'
<1> SUFFICES ASSUME AloneHolds, [MCNext]_mcvars, Alone' PROVE Inv' /\ AloneInv'
  BY DEF AloneHolds
<1>1. scenario' = scenario
  BY DEF MCNext, mcvars
<1>2. Alone /\ Inv /\ AloneInv /\ scenario.threads = {t1}
  BY <1>1 DEF Alone, AloneHolds
<1>3. CASE UNCHANGED mcvars
  <2>1. AloneInv'
    BY <1>2, <1>3 DEF AloneInv, OthersIdle, SnapshotsCurrent, OneUp, OneProtocolUp,
       SourceTold, InProgress, Sending, mcvars, vars, map, settings, devices
  <2> QED
    BY <1>2, <1>3, <2>1, InvNext DEF mcvars
<1>4. CASE CooldownElapses /\ Marked
  <2>1. /\ UNCHANGED <<universes, pc, local, source, artnet_node, artnet_mappings,
                       sacn_priority>>
        /\ OthersIdle'
    BY <1>2, <1>4 DEF CooldownElapses, map, settings, devices, AloneInv, OthersIdle
  <2>2. UNCHANGED <<missed, stopped>>
    BY <1>2, <1>4, <2>1, MarksStay DEF AloneInv, EndsPriority
  <2>3. AloneInv'
    BY <1>2, <2>1, <2>2 DEF AloneInv, SnapshotsCurrent, OneUp, OneProtocolUp, SourceTold,
       InProgress, Sending
  <2> QED
    BY <1>2, <1>4, <2>3, InvNext DEF Next
<1>5. CASE Enter(t1) /\ Marked
  BY <1>2, <1>5, AloneEnter, InvNext DEF Next
<1>6. CASE Continue(t1) /\ Marked
  BY <1>2, <1>6, AloneMapCalls, AloneLiveCalls, AloneDeinit, AloneOpen, AloneSend, InvNext
     DEF Continue, Next
<1> QED
  BY <1>2, <1>3, <1>4, <1>5, <1>6 DEF MCNext, mcvars

(* A scenario of one thread starts with the invariant.                      *)
LEMMA AloneStart == MCInit => AloneHolds
BY InvInit, AloneInit DEF MCInit, AloneHolds

(* With one thread, whatever it calls and whatever fails, a frame goes to   *)
(* the address of its universe, though the mapping is a snapshot.           *)
THEOREM FramesRightAloneCorrect == MCSpec => []FramesRightAlone
<1>1. AloneHolds => FramesRightAlone
  <2> SUFFICES ASSUME Inv, AloneInv PROVE FramesReachTheirUniverse
    BY DEF AloneHolds, FramesRightAlone
  <2>1. ASSUME NEW t \in Threads, pc[t] = "call"
        PROVE  Belongs(Sending(t), local[t].mapping[Sending(t)])
    <3>1. t = t1
      BY <2>1 DEF AloneInv, OthersIdle
    <3> QED
      BY <2>1, <3>1 DEF AloneInv, SnapshotsCurrent, Inv, DevicesSound, MappingMatchesNode
  <2> QED
    BY <2>1 DEF FramesReachTheirUniverse
<1> QED
  BY <1>1, AloneStart, AloneNext, PTL DEF MCSpec

(* With one thread, whatever it calls and whatever fails, a running source  *)
(* has the universes of the object but those that universe(u) created       *)
(* beside it, the priority of the object unless priority() stopped at one   *)
(* of those, and the source and the node are never both up.                 *)
THEOREM SourceRightAloneCorrect == MCSpec => []SourceRightAlone
<1>1. AloneHolds => SourceRightAlone
  <2> SUFFICES ASSUME Inv, AloneInv
               PROVE  /\ Idle /\ "sACN" \in initialized =>
                            DOMAIN source.live = universes \ missed
                      /\ ~stopped => PrioritiesAgree
                      /\ OneProtocolUp
    BY DEF AloneHolds, SourceRightAlone
  <2>1. ASSUME Idle PROVE SourceWhole
    BY <2>1, AloneWhole DEF Idle
  <2>2. ASSUME Idle, "sACN" \in initialized PROVE DOMAIN source.live = universes \ missed
    BY <2>1, <2>2 DEF SourceWhole, Inv, DevicesSound, Idle
  <2>3. ~stopped => PrioritiesAgree
    BY <2>1 DEF PrioritiesAgree, SourceWhole
  <2> QED
    BY <2>2, <2>3 DEF AloneInv, OneUp
<1> QED
  BY <1>1, AloneStart, AloneNext, PTL DEF MCSpec
=============================================================================
