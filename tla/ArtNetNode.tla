----------------------------- MODULE ArtNetNode -----------------------------
(***************************************************************************)
(* Art-Net nodes (src/libartnet/artnet): what an application calls, what   *)
(* they send, and what they do with the packets of others.  A node is a    *)
(* record; operators named for a function take it, and give back what it   *)
(* has become and what was sent.  The Linux build.                         *)
(*                                                                         *)
(* Packets are records.  Those between the nodes modelled are on the wire; *)
(* those of other senders a scenario names, they may come at any time.     *)
(***************************************************************************)
EXTENDS ArtNetOutput, ArtNetTod, ArtNetFirmware, Functions, TLC

CONSTANTS
    ARTNET_MAX_PORTS,
    SequenceNumbers,   \* the values of a uint8_t
    Nodes,             \* the numbers of nodes, each the address of its host
    Broadcast,         \* the broadcast address
    Garbage,           \* an address that was never written
    Sockets,
    MaxWire,           \* bound: nothing is begun while more packets are on the wire
    MaxBlocks,         \* bound: no firmware is begun while a node has counted more blocks
    Scenarios

ASSUME NodeAssumption ==
    /\ ARTNET_MAX_PORTS \in Nat \ {0} /\ SequenceNumbers \in Nat \ {0}
    /\ Nodes \subseteq Nat /\ Sockets \subseteq Nat /\ MaxWire \in Nat
    /\ MaxBlocks \in Nat
    /\ NoIp = NoPeer /\ NoIp \notin Nodes \cup {Broadcast}

VARIABLES
    scenario,   \* which calls and packets there are, chosen once
    nodes,
    open,       \* the sockets that are open
    wire,       \* the packets on the way, in order
    sent,       \* those of the last step, to state properties
    past        \* what happened, to state properties

vars == <<scenario, nodes, open, wire, sent, past>>

Ports == 0 .. ARTNET_MAX_PORTS - 1

-----------------------------------------------------------------------------
(* Addresses: the subnet in the high nibble, the port's in the low one.     *)

LowNibble(x) == x % 16
_make_addr(subnet, addr) == 16 * LowNibble(subnet) + LowNibble(addr)

PROGRAM_DEFAULTS == 0
PROGRAM_NO_CHANGE == 127
PROGRAM_CHANGE_MASK == 128

-----------------------------------------------------------------------------
(* Interfaces and sockets (network.c).                                      *)

(* get_ifaces with add_iface_if_needed: those up, not the loopback, of IP.  *)
get_ifaces(interfaces) == SelectSeq(interfaces, LAMBDA i : i.up /\ ~i.loopback /\ i.inet)

(* artnet_net_init: the address wanted, else that of the first interface;   *)
(* NoIp is the error.                                                       *)
artnet_net_init(interfaces, wanted) ==
    LET found == get_ifaces(interfaces)
        matches == {i \in DOMAIN found : wanted = NoIp \/ found[i].ip = wanted} IN
    IF matches = {} THEN NoIp ELSE found[Min(matches)].ip

(* artnet_net_send: what was sent.                                          *)
Sends(n, packets, up) ==
    IF n.mode # "ON" THEN [n |-> n, out |-> <<>>]
    ELSE IF ~up THEN [n |-> [n EXCEPT !.report_code = "UDPFAIL"], out |-> <<>>]
    ELSE [n |-> n, out |-> packets]

Quietly(n) == [n |-> n, out |-> <<>>]

-----------------------------------------------------------------------------
(* transmit.c.                                                              *)

Packet(n, type, to) == [type |-> type, from |-> n.ip, to |-> to]

artnet_tx_poll(n, to, private, auto, up) ==
    IF n.type \notin {"SRV", "RAW"} THEN Quietly(n)
    ELSE Sends(n, <<Packet(n, "POLL", to) @@ [private |-> private, auto |-> auto]>>, up)

(* The reply is built when something it says has changed,                   *)
artnet_tx_build_art_poll_reply(n) ==
    [n EXCEPT !.ar_temp =
        [sub |-> n.subnet, name |-> n.short_name, style |-> n.type,
         numbports |-> Max({0} \cup {i + 1 : i \in {i \in Ports : n.out[i].enabled
                                                               \/ n.in[i].enabled}}),
         types |-> n.types, swin |-> [i \in Ports |-> n.in[i].addr],
         swout |-> [i \in Ports |-> n.out[i].addr]]]

(* and sent as it is, with the status of the ports.                         *)
artnet_tx_poll_reply(n, up) ==
    Sends(n, <<Packet(n, "REPLY", n.reply_to) @@
               [ar |-> n.ar_temp, goodinput |-> [i \in Ports |-> n.in[i].disabled]]>>, up)

artnet_tx_tod_request(n, up) ==
    Sends(n, <<Packet(n, "TODREQUEST", Broadcast) @@
               [address |-> {n.out[i].addr : i \in {i \in Ports : n.out[i].enabled}}]>>, up)

(* artnet_tx_tod_data: the table in one block (ARTNET_MAX_UID_COUNT is not  *)
(* reached), nothing when it is empty.                                      *)
artnet_tx_tod_data(n, port, up) ==
    LET tod == n.out[port].tod IN
    IF tod.length = 0 THEN Quietly(n)
    ELSE Sends(n, <<Packet(n, "TODDATA", Broadcast) @@
                    [address |-> n.out[port].addr,
                     uids |-> SubSeq(tod.data, 1, Min({tod.length, Len(tod.data)}))]>>, up)

artnet_tx_tod_control(n, address, flush, up) ==
    Sends(n, <<Packet(n, "TODCONTROL", Broadcast) @@
               [address |-> address, flush |-> flush]>>, up)

artnet_tx_firmware_reply(n, to, code, up) ==
    Sends(n, <<Packet(n, "FIRMWAREREPLY", to) @@ [code |-> code]>>, up)

-----------------------------------------------------------------------------
(* The list of nodes (artnet.c).                                            *)

(* find_entry_from_ip, find_private_entry: 0 if there is none.              *)
find_entry_from_ip(list, ip) ==
    LET those == {i \in DOMAIN list : list[i].ip = ip} IN
    IF those = {} THEN 0 ELSE Min(those)

(* mutant: what is known of a node already is kept.                         *)
FirstWordStays(list, p) ==
    IF find_entry_from_ip(list, p.from) # 0 THEN list
    ELSE Append(list, [ip |-> p.from, pub |-> p.ar, firmware |-> NoTransfer])

artnet_nl_update(list, p) ==
    LET i == find_entry_from_ip(list, p.from) IN
    IF i # 0 THEN [list EXCEPT ![i].pub = p.ar]
    ELSE Append(list, [ip |-> p.from, pub |-> p.ar, firmware |-> NoTransfer])

(* find_nodes_from_uni: how many ports have the universe, and the addresses *)
(* of their nodes, each once.                                               *)
PortsWith(entry, universe) ==
    {i \in 0 .. entry.pub.numbports - 1 : entry.pub.swout[i] = universe}

find_nodes_from_uni(list, universe, size) ==
    LET those == SelectSeq(list, LAMBDA e : PortsWith(e, universe) # {})
        ips == [i \in DOMAIN those |-> those[i].ip] IN
    [count |-> FoldLeft(LAMBDA sum, e : sum + Cardinality(PortsWith(e, universe)), 0, list),
     ips |-> SubSeq(ips, 1, Min({size, Len(ips)}))]

-----------------------------------------------------------------------------
(* Nodes.                                                                   *)

NewIn ==
    [addr |-> 0, default_addr |-> 0, net_ctl |-> FALSE, disabled |-> FALSE,
     enabled |-> FALSE, seq |-> 0]

NewOut ==
    [addr |-> 0, default_addr |-> 0, net_ctl |-> FALSE, enabled |-> FALSE,
     merge |-> NewMerge, tod |-> reset_tod]

NoReply ==
    [sub |-> 0, name |-> "none", style |-> "SRV", numbports |-> 0,
     types |-> [i \in Ports |-> "none"], swin |-> [i \in Ports |-> 0],
     swout |-> [i \in Ports |-> 0]]

NoSocket == 0

(* artnet_new.                                                              *)
artnet_new(ip) ==
    [ip |-> ip, type |-> "SRV", mode |-> "STANDBY", sd |-> NoSocket, reply_to |-> NoIp,
     subnet |-> 0, default_subnet |-> 0, subnet_net_ctl |-> FALSE,
     send_apr_on_change |-> FALSE, report_code |-> "POWEROK", short_name |-> "none",
     bcast_limit |-> 0, types |-> [i \in Ports |-> "none"], in |-> [i \in Ports |-> NewIn],
     out |-> [i \in Ports |-> NewOut], ar_temp |-> NoReply, node_list |-> <<>>,
     firmware |-> NoTransfer, peer |-> NoIp, master |-> TRUE, callbacks |-> {}]

(* artnet_start, once it has its socket: a server polls and asks for tables *)
(* of devices, others introduce themselves.                                 *)
Started(n, up) ==
    LET on == [n EXCEPT !.mode = "ON", !.reply_to = IF @ = NoIp THEN Broadcast ELSE @]
        built == artnet_tx_build_art_poll_reply(on)
        poll == artnet_tx_poll(built, Broadcast, FALSE, TRUE, up)
        request == artnet_tx_tod_request(poll.n, up) IN
    IF n.type # "SRV" THEN artnet_tx_poll_reply(built, up)
    ELSE [n |-> request.n, out |-> poll.out \o request.out]

Told(n, up) ==
    IF n.mode = "ON" THEN artnet_tx_poll_reply(artnet_tx_build_art_poll_reply(n), up)
    ELSE Quietly(n)

MovedTo(n, subnet) ==
    [n EXCEPT !.subnet = subnet,
       !.in = [i \in Ports |-> [@[i] EXCEPT !.addr = _make_addr(subnet, @), !.seq = 0]],
       !.out = [i \in Ports |-> [@[i] EXCEPT !.addr = _make_addr(subnet, @)]]]

artnet_set_subnet_addr(n, subnet, up) ==
    LET set == [n EXCEPT !.default_subnet = subnet] IN
    IF n.subnet_net_ctl THEN Quietly([set EXCEPT !.report_code = "USERFAIL"])
    ELSE IF subnet = n.subnet THEN Quietly(set)
    ELSE Told(MovedTo(set, subnet), up)

(* mutant: a port that gets an address for the first time is not told.      *)
FirstUntold(n, port, addr, up) ==
    LET was == n.in[port]
        set == [n EXCEPT !.in[port].enabled = TRUE, !.in[port].default_addr = addr]
        moved == [set EXCEPT !.in[port].addr = _make_addr(n.subnet, addr),
                             !.in[port].seq = 0] IN
    IF was.net_ctl THEN Quietly([set EXCEPT !.report_code = "USERFAIL"])
    ELSE IF LowNibble(addr) = LowNibble(was.addr) THEN Quietly(set)
    ELSE Told(moved, up)

(* artnet_set_port_addr of an input port,                                   *)
set_input_addr(n, port, addr, up) ==
    LET was == n.in[port]
        set == [n EXCEPT !.in[port].enabled = TRUE, !.in[port].default_addr = addr]
        moved == [set EXCEPT !.in[port].addr = _make_addr(n.subnet, addr),
                             !.in[port].seq = 0] IN
    IF was.net_ctl THEN Quietly([set EXCEPT !.report_code = "USERFAIL"])
    ELSE IF was.enabled /\ LowNibble(addr) = LowNibble(was.addr) THEN Quietly(set)
    ELSE Told(moved, up)

(* and of an output port, whose net_ctl is never set.                       *)
set_output_addr(n, port, addr, up) ==
    LET was == n.out[port]
        set == [n EXCEPT !.out[port].enabled = TRUE, !.out[port].default_addr = addr]
        moved == [set EXCEPT !.out[port].addr = _make_addr(n.subnet, addr)] IN
    IF was.net_ctl THEN Quietly([set EXCEPT !.report_code = "USERFAIL"])
    ELSE IF was.enabled /\ LowNibble(addr) = LowNibble(was.addr) THEN Quietly(set)
    ELSE Told(moved, up)

(* artnet_send_dmx: broadcast, or to each node that has the universe.  As   *)
(* ports are counted, addresses may be used that were never written.        *)
Destinations(n, universe) ==
    LET found == find_nodes_from_uni(n.node_list, universe, n.bcast_limit) IN
    IF n.bcast_limit = 0 \/ found.count > n.bcast_limit THEN <<Broadcast>>
    ELSE [i \in 1 .. found.count |->
            IF i <= Len(found.ips) THEN found.ips[i] ELSE Garbage]

artnet_send_dmx(n, port, up) ==
    LET in == n.in[port]
        to == Destinations(n, in.addr)
        result == Sends(n, [i \in DOMAIN to |-> Packet(n, "DMX", to[i]) @@
                              [universe |-> in.addr, seq |-> in.seq, port |-> port]], up)
        broadcast == to = <<Broadcast>> IN
    IF n.mode # "ON" \/ in.disabled THEN Quietly(n)
    ELSE IF broadcast /\ ~up THEN result
    ELSE [result EXCEPT !.n.in[port].seq = (@ + 1) % SequenceNumbers]

(* artnet_send_firmware, to an entry.  A transfer under way is forgotten.   *)
artnet_tx_firmware_packet(n, i, up) ==
    LET result == Sends(n, <<FirmwarePacket(n.node_list[i].firmware, n.ip)>>, up) IN
    IF result.out = <<>> THEN result
    ELSE [result EXCEPT !.n.node_list[i].firmware = BlockSent(@)]

artnet_send_firmware(n, i, data, up) ==
    artnet_tx_firmware_packet(
        [n EXCEPT !.node_list[i].firmware = StartedTransfer(n.node_list[i].ip, data)], i, up)

-----------------------------------------------------------------------------
(* receive.c: what a node does with a packet.  e: whether sending works,    *)
(* whether the application's handler takes the packet, and what new memory  *)
(* holds.                                                                   *)

(* check_callback; firmware and IP programming have handlers that cannot be *)
(* set.                                                                     *)
check_callback(n, name, e) == name \in n.callbacks /\ e.takes

handle_poll(n, p, e) ==
    IF n.type = "RAW" THEN Quietly(n)
    ELSE artnet_tx_poll_reply(
            [n EXCEPT !.reply_to = IF p.private THEN p.from ELSE Broadcast,
                      !.send_apr_on_change = p.auto], e.up)

handle_reply(n, p) == Quietly([n EXCEPT !.node_list = artnet_nl_update(@, p)])

(* For each output port with the universe.                                  *)
handle_dmx(n, p) ==
    Quietly([n EXCEPT !.out =
        [i \in Ports |-> IF @[i].enabled /\ @[i].addr = p.universe
                         THEN [@[i] EXCEPT !.merge = Output(@, p)] ELSE @[i]]])

(* The subnet: as it was set here, or as programmed from the network.  The  *)
(* ports follow unless the packet has the number the subnet has.            *)
Resubnetted(n, p) ==
    LET to == IF p.subnet = PROGRAM_DEFAULTS
              THEN [n EXCEPT !.subnet = n.default_subnet, !.subnet_net_ctl = FALSE]
              ELSE IF p.subnet >= PROGRAM_CHANGE_MASK
              THEN [n EXCEPT !.subnet = p.subnet - PROGRAM_CHANGE_MASK,
                             !.subnet_net_ctl = TRUE]
              ELSE n IN
    IF p.subnet = to.subnet THEN to
    ELSE [to EXCEPT !.in = [i \in Ports |-> [@[i] EXCEPT !.addr = _make_addr(to.subnet, @)]],
                    !.out = [i \in Ports |-> [@[i] EXCEPT !.addr = _make_addr(to.subnet, @)]]]

Programmed(n, port, code) ==
    CASE code = PROGRAM_NO_CHANGE    -> port
      [] code = PROGRAM_DEFAULTS     ->
            [port EXCEPT !.addr = _make_addr(n.subnet, port.default_addr), !.net_ctl = FALSE]
      [] code >= PROGRAM_CHANGE_MASK ->
            [port EXCEPT !.addr = _make_addr(n.subnet, code), !.net_ctl = TRUE]
      [] OTHER                       -> port

(* Input ports.                                                             *)
ProgrammedIn(n, p) == [n EXCEPT !.in = [i \in Ports |-> Programmed(n, @[i], p.swin[i])]]

(* Output ports: network control is noted at the input port of that number. *)
ProgrammedOut(n, p) ==
    LET Changes(i) == p.swout[i] >= PROGRAM_CHANGE_MASK IN
    [n EXCEPT
       !.out = [i \in Ports |->
          IF p.swout[i] # PROGRAM_DEFAULTS /\ ~Changes(i) THEN @[i]
          ELSE [Programmed(n, @[i], p.swout[i])
                  EXCEPT !.net_ctl = n.out[i].net_ctl /\ Changes(i), !.enabled = TRUE]],
       !.in = [i \in Ports |-> [@[i] EXCEPT !.net_ctl = @ \/ Changes(i)]]]

(* Ports that get another address begin a new sequence.                     *)
Readdressed(n, p) ==
    LET programmed == ProgrammedOut(ProgrammedIn(Resubnetted(n, p), p), p) IN
    [programmed EXCEPT !.in = [i \in Ports |->
        IF @[i].addr = n.in[i].addr THEN @[i] ELSE [@[i] EXCEPT !.seq = 0]]]

(* The command for the merge of a port.                                     *)
Commanded(n, p) ==
    IF p.command.mode \notin {"HTP", "LTP"} THEN n
    ELSE [n EXCEPT !.out[p.command.port].merge.merge_mode = p.command.mode]

handle_address(n, p, e) ==
    LET named == IF p.name = "none" THEN n
                 ELSE [n EXCEPT !.short_name = p.name, !.report_code = "NAMEOK"]
        changed == Commanded(Readdressed(named, p), p) IN
    IF n.type \in {"SRV", "RAW"} THEN Quietly(n)
    ELSE artnet_tx_poll_reply(artnet_tx_build_art_poll_reply(changed), e.up)

_artnet_handle_input(n, p, e) ==
    IF n.type \notin {"NODE", "MSRV"} THEN Quietly(n)
    ELSE artnet_tx_poll_reply(
            artnet_tx_build_art_poll_reply(
                [n EXCEPT !.in = [i \in Ports |->
                    IF i < p.numbports THEN [@[i] EXCEPT !.disabled = p.disable[i]]
                    ELSE @[i]]]), e.up)

(* The tables of the ports, one after the other.                            *)
TodDatas(n, ports, e) ==
    FoldSet(LAMBDA i, so_far :
                LET one == artnet_tx_tod_data(so_far.n, i, e.up) IN
                [n |-> one.n, out |-> so_far.out \o one.out],
            Quietly(n), ports)

PortsAt(n, addresses) == {i \in Ports : n.out[i].enabled /\ n.out[i].addr \in addresses}

handle_tod_request(n, p, e) ==
    IF n.type # "NODE" THEN Quietly(n) ELSE TodDatas(n, PortsAt(n, p.address), e)

handle_tod_control(n, p, e) ==
    LET those == PortsAt(n, {p.address})
        flushed == [n EXCEPT !.out = [i \in Ports |->
                       IF i \in those /\ p.flush THEN [@[i] EXCEPT !.tod = flush_tod]
                       ELSE @[i]]] IN
    TodDatas(flushed, those, e)

handle_firmware_packet(n, p, e) ==
    LET received == handle_firmware(n.firmware, p, e.word) IN
    artnet_tx_firmware_reply([n EXCEPT !.firmware = received.firm], p.from,
                             received.code, e.up)

(* mutant: the next block is sent when the last one was.                    *)
NextAfterLast(n, p, e) ==
    LET i == find_entry_from_ip(n.node_list, p.from)
        firm == n.node_list[i].firmware IN
    IF i = 0 \/ firm.total = 0 THEN Quietly(n)
    ELSE IF p.code = "FAIL" \/ (p.code = "ALLGOOD" /\ firm.total = firm.current)
    THEN Quietly([n EXCEPT !.node_list[i].firmware = NoTransfer])
    ELSE IF p.code = "BLOCKGOOD" /\ firm.total = firm.current
    THEN artnet_tx_firmware_packet(n, i, e.up)
    ELSE Quietly(n)

handle_firmware_reply(n, p, e) ==
    LET i == find_entry_from_ip(n.node_list, p.from)
        firm == n.node_list[i].firmware IN
    IF i = 0 \/ firm.total = 0 THEN Quietly(n)
    ELSE IF p.code = "FAIL" \/ (p.code = "ALLGOOD" /\ firm.total = firm.current)
    THEN Quietly([n EXCEPT !.node_list[i].firmware = NoTransfer])
    ELSE IF p.code = "BLOCKGOOD" /\ firm.total # firm.current
    THEN artnet_tx_firmware_packet(n, i, e.up)
    ELSE Quietly(n)

HandlerOf(type) ==
    CASE type = "POLL" -> "poll"       [] type = "REPLY" -> "reply"
      [] type = "DMX" -> "dmx"         [] type = "ADDRESS" -> "address"
      [] type = "INPUT" -> "input"     [] type = "TODREQUEST" -> "todrequest"
      [] type = "TODDATA" -> "toddata" [] type = "TODCONTROL" -> "todcontrol"
      [] OTHER -> "none"

(* The handler for all packets is asked first.  That for replies is asked   *)
(* after the list has changed.                                              *)
handle(n, p, e) ==
    IF check_callback(n, "recv", e) THEN Quietly(n)
    ELSE IF p.type = "REPLY" THEN handle_reply(n, p)
    ELSE IF check_callback(n, HandlerOf(p.type), e) THEN Quietly(n)
    ELSE CASE p.type = "POLL"           -> handle_poll(n, p, e)
           [] p.type = "DMX"            -> handle_dmx(n, p)
           [] p.type = "ADDRESS"        -> handle_address(n, p, e)
           [] p.type = "INPUT"          -> _artnet_handle_input(n, p, e)
           [] p.type = "TODREQUEST"     -> handle_tod_request(n, p, e)
           [] p.type = "TODDATA"        -> Quietly(n)
           [] p.type = "TODCONTROL"     -> handle_tod_control(n, p, e)
           [] p.type = "FIRMWAREMASTER" -> handle_firmware_packet(n, p, e)
           [] p.type = "FIRMWAREREPLY"  -> handle_firmware_reply(n, p, e)
           [] OTHER -> Quietly([n EXCEPT !.report_code = "PARSEFAIL"])

check_timeouts(n) ==
    IF ~TimedOut(n.firmware) THEN n
    ELSE [n EXCEPT !.firmware = reset_firmware_upload(@), !.report_code = "FIRMWAREFAIL"]

-----------------------------------------------------------------------------
(* The nodes, the network between them and the applications.                *)

(* What to watch, for the properties: when each source was heard on port 0  *)
(* of a node, how often (up to twice) the last one while no other was; the  *)
(* firmware given, whether packets of another transfer were on the way      *)
(* then, what was handed over and the answer; whether nodes of a ring were  *)
(* on when its socket was closed or another ring joined; and the settings   *)
(* of input ports sent last.                                                *)
NewPast ==
    [heard |-> [s \in scenario.sources |-> OldAge], solo |-> 0, last |-> NoLevels,
     devices |-> {}, odd |-> FALSE, stranded |-> FALSE,
     given |-> <<>>, crossed |-> FALSE, upload |-> NoUpload, answer |-> "none",
     split |-> FALSE]

Init ==
    /\ scenario \in Scenarios
    /\ nodes = scenario.nodes
    /\ open = {nodes[h].sd : h \in {h \in DOMAIN nodes : nodes[h].mode = "ON"}}
    /\ wire = <<>> /\ sent = <<>> /\ past = NewPast

Calls(name) == name \in scenario.calls /\ Len(wire) <= MaxWire

(* Whether sending works: it may fail, and does without an open socket.     *)
Ups(h) ==
    IF nodes[h].sd \notin open THEN {FALSE} ELSE IF scenario.fails THEN BOOLEAN ELSE {TRUE}

(* A broadcast is heard by all others that are on; what goes to a stranger  *)
(* is not followed.                                                         *)
Copies(p) ==
    IF p.to # Broadcast THEN IF p.to \in DOMAIN nodes THEN <<p>> ELSE <<>>
    ELSE LET those == {h \in DOMAIN nodes : nodes[h].mode = "ON" /\ h # p.from} IN
         [i \in 1 .. Cardinality(those) |-> [p EXCEPT !.to = SetToSeq(those)[i]]]

Emitted(out) ==
    /\ wire' = wire \o FlattenSeq([i \in DOMAIN out |->
                  IF out[i].type \in scenario.wired THEN Copies(out[i]) ELSE <<>>])
    /\ sent' = SelectSeq(out, LAMBDA p : p.type \in scenario.watched)

(* A call that changes one node, and what it sends.                         *)
Does(h, result) ==
    /\ nodes' = [nodes EXCEPT ![h] = result.n]
    /\ Emitted(result.out)
    /\ UNCHANGED scenario

Sets(h, n) == Does(h, Quietly(n)) /\ UNCHANGED <<open, past>>

(* Nodes that were joined form a ring.                                      *)
PeerOf(h) == IF nodes[h].peer = NoIp THEN h ELSE nodes[h].peer

Ring(h) ==
    LET after == PeerOf(h) IN {h, after, PeerOf(after), PeerOf(PeerOf(after))}

New(h, wanted) ==
    LET ip == artnet_net_init(scenario.interfaces[h], wanted) IN
    /\ Calls("new") /\ h \notin DOMAIN nodes
    /\ nodes' = IF ip = NoIp THEN nodes ELSE nodes @@ (h :> artnet_new(ip))
    /\ sent' = <<>>
    /\ UNCHANGED <<scenario, open, wire, past>>

(* The memory is given back; the socket is not closed.                      *)
Destroy(h) ==
    /\ Calls("destroy") /\ h \in DOMAIN nodes /\ PeerOf(h) = h
    /\ nodes[h].mode = "STANDBY"
    /\ nodes' = Restrict(nodes, DOMAIN nodes \ {h}) /\ sent' = <<>>
    /\ UNCHANGED <<scenario, open, wire, past>>

(* artnet_join: h is put before the other, and what came after h after the  *)
(* other's ring.  Only the two are asked whether they are on.               *)
Joined(h, other) ==
    LET After(x) == IF x = h THEN other ELSE nodes[x].peer
        Ends(x) == After(x) \in {NoIp, other}
        last == CASE Ends(other)        -> other
                  [] Ends(After(other)) -> After(other)
                  [] OTHER              -> After(After(other)) IN
    (last :> PeerOf(h)) @@ (h :> other)

Join(h, other) ==
    LET peers == Joined(h, other) IN
    /\ Calls("join") /\ {h, other} \subseteq DOMAIN nodes
    /\ \A x \in {h, other} : nodes[x].mode # "ON"
    /\ nodes' = [x \in DOMAIN nodes |->
                    [nodes[x] EXCEPT
                       !.peer = IF x \in DOMAIN peers THEN peers[x] ELSE @,
                       !.master = IF x \in Ring(h) \cup Ring(other) THEN x = h ELSE @]]
    /\ sent' = <<>>
    /\ past' = [past EXCEPT !.split = @ \/ \E x \in Ring(h) \cup Ring(other) :
                                                nodes[x].mode = "ON"]
    /\ UNCHANGED <<scenario, open, wire>>

(* artnet_net_start: the master opens the socket for all.                   *)
WithSocket(h, socket) ==
    [x \in DOMAIN nodes |->
        IF x \in Ring(h) THEN [nodes[x] EXCEPT !.sd = socket] ELSE nodes[x]]

Start(h) ==
    /\ Calls("start") /\ h \in DOMAIN nodes /\ nodes[h].mode = "STANDBY"
    /\ IF ~nodes[h].master
       THEN /\ \E up \in Ups(h) : Does(h, Started(nodes[h], up))
            /\ UNCHANGED open
       ELSE LET socket == Min(Sockets \ open)
                with == WithSocket(h, socket) IN
            \/ \E up \in {TRUE, ~scenario.fails} :
                  LET result == Started(with[h], up) IN
                  /\ open # Sockets /\ open' = open \cup {socket}
                  /\ nodes' = [with EXCEPT ![h] = result.n]
                  /\ Emitted(result.out) /\ UNCHANGED scenario
            \/ (scenario.fails \/ open = Sockets) /\ Sets(h, nodes[h])
    /\ UNCHANGED past

(* artnet_stop, of any node that is on.  The socket is closed, which the    *)
(* others of the ring may still use, or which was closed before: its number *)
(* may then be that of another ring's socket.                               *)
Stop(h) ==
    LET n == nodes[h] IN
    /\ Calls("stop") /\ h \in DOMAIN nodes /\ n.mode = "ON"
    /\ Does(h, Quietly([n EXCEPT !.mode = "STANDBY"]))
    /\ open' = open \ {n.sd}
    /\ past' = [past EXCEPT !.split = @ \/ ~n.master
                                  \/ \E x \in Ring(h) \ {h} : nodes[x].mode = "ON"]

artnet_set_node_type(h, type) ==
    /\ Calls("type") /\ h \in DOMAIN nodes /\ Sets(h, [nodes[h] EXCEPT !.type = type])

artnet_set_bcast_limit(h, limit) ==
    /\ Calls("limit") /\ h \in DOMAIN nodes
    /\ Sets(h, [nodes[h] EXCEPT !.bcast_limit = limit])

artnet_set_handler(h, name) ==
    /\ Calls("handler") /\ h \in DOMAIN nodes
    /\ Sets(h, [nodes[h] EXCEPT !.callbacks = @ \cup {name}])

artnet_set_port_type(h, port, type) ==
    /\ Calls("porttype") /\ h \in DOMAIN nodes
    /\ Sets(h, [nodes[h] EXCEPT !.types[port] = type])

artnet_set_short_name(h, name) ==
    /\ Calls("name") /\ h \in DOMAIN nodes
    /\ Sets(h, artnet_tx_build_art_poll_reply([nodes[h] EXCEPT !.short_name = name]))

SetSubnet(h, subnet) ==
    /\ Calls("subnet") /\ h \in scenario.told
    /\ \E up \in Ups(h) : Does(h, artnet_set_subnet_addr(nodes[h], subnet, up))
    /\ UNCHANGED <<open, past>>

SetPortAddr(h, port, addr) ==
    /\ Calls("portaddr") /\ h \in scenario.told
    /\ \E up \in Ups(h) :
          \/ Does(h, set_input_addr(nodes[h], port, addr, up))
          \/ Does(h, set_output_addr(nodes[h], port, addr, up))
    /\ UNCHANGED <<open, past>>

artnet_send_poll(h, private) ==
    /\ Calls("poll") /\ h \in DOMAIN nodes
    /\ \E up \in Ups(h) : Does(h, artnet_tx_poll(nodes[h], Broadcast, private, FALSE, up))
    /\ UNCHANGED <<open, past>>

SendDmx(h, port) ==
    /\ Calls("dmx") /\ h \in DOMAIN nodes
    /\ \E up \in Ups(h) : Does(h, artnet_send_dmx(nodes[h], port, up))
    /\ UNCHANGED <<open, past>>

(* artnet_send_address, of servers, to an entry.                            *)
SendTo(h, i, body) ==
    /\ Calls("program") /\ h \in DOMAIN nodes /\ nodes[h].type \in {"SRV", "RAW"}
    /\ i \in DOMAIN nodes[h].node_list
    /\ \E up \in Ups(h) :
          Does(h, Sends(nodes[h], <<body @@ [from |-> nodes[h].ip,
                                            to |-> nodes[h].node_list[i].ip]>>, up))
    /\ UNCHANGED <<open, past>>

(* artnet_send_input, likewise.  What is copied into the packet are not the  *)
(* settings but the bytes of the pointer to them: any.                      *)
SendInput(h, i, bytes) ==
    LET entry == nodes[h].node_list[i] IN
    /\ Calls("input") /\ h \in DOMAIN nodes /\ nodes[h].type \in {"SRV", "RAW"}
    /\ i \in DOMAIN nodes[h].node_list
    /\ \E up \in Ups(h) :
          Does(h, Sends(nodes[h], <<Packet(nodes[h], "INPUT", entry.ip) @@
                                    [numbports |-> entry.pub.numbports, disable |-> bytes]>>, up))
    /\ UNCHANGED <<open, past>>

(* artnet_send_firmware, at any time, whatever is left of a transfer before *)
(* (bound: it is not the same firmware twice in a row).                     *)
SendFirmware(h, i, data) ==
    /\ Calls("firmware") /\ h \in DOMAIN nodes /\ nodes[h].type \in {"SRV", "RAW"}
    /\ nodes[h].mode = "ON" /\ i \in DOMAIN nodes[h].node_list
    /\ past.given # data /\ \A x \in DOMAIN nodes : nodes[x].firmware.expected <= MaxBlocks
    /\ \E up \in Ups(h) : Does(h, artnet_send_firmware(nodes[h], i, data, up))
    /\ past' = [past EXCEPT !.given = data, !.crossed = wire # <<>>, !.upload = NoUpload,
                            !.answer = "none"]
    /\ UNCHANGED open

(* artnet_add_rdm_device and artnet_remove_rdm_device: the table is sent.   *)
AddDevice(h, uid, memory) ==
    LET n == [nodes[h] EXCEPT !.out[0].tod = add_tod_uid(@, uid, memory)] IN
    /\ Calls("devices") /\ h \in DOMAIN nodes /\ uid \notin past.devices
    /\ \E up \in Ups(h) : Does(h, artnet_tx_tod_data(n, 0, up))
    /\ past' = [past EXCEPT !.devices = @ \cup {uid}]
    /\ UNCHANGED open

(* It is odd to remove the first device, or one that is not there.          *)
RemoveDevice(h, uid, memory) ==
    LET tod == nodes[h].out[0].tod
        n == [nodes[h] EXCEPT !.out[0].tod = remove_tod_uid(@, uid, memory)] IN
    /\ Calls("devices") /\ h \in DOMAIN nodes
    /\ \E up \in Ups(h) : Does(h, artnet_tx_tod_data(n, 0, up))
    /\ past' = [past EXCEPT !.devices = @ \ {uid},
                            !.odd = @ \/ uid \notin past.devices \/ tod.data[1] = uid]
    /\ UNCHANGED open

SendTodControl(h, address, flush) ==
    /\ Calls("tod") /\ h \in DOMAIN nodes
    /\ \E up \in Ups(h) : Does(h, artnet_tx_tod_control(nodes[h], address, flush, up))
    /\ UNCHANGED <<open, past>>

-----------------------------------------------------------------------------
(* What past keeps of a packet that node h reads, new being the node then.  *)
Seen(h, p, new) ==
    LET n == nodes[h]
        silent == \A s \in scenario.sources \ {p.from} : past.heard[s] = OldAge
        out == n.out[0]
        i == find_entry_from_ip(n.node_list, p.from) IN
    CASE p.type = "DMX" /\ p.universe = out.addr /\ out.enabled /\ p.from \in scenario.sources ->
            [past EXCEPT !.heard[p.from] = 0, !.last = Copied(NoLevels, p),
                         !.solo = IF ~silent THEN 0
                                  ELSE IF past.heard[p.from] = OldAge THEN 1
                                  ELSE Min({@ + 1, 2})]
      [] p.type = "ADDRESS" /\ n.type = "NODE" ->
            [past EXCEPT !.stranded = @ \/ (p.subnet = new.subnet /\ n.subnet # new.subnet)]
      [] p.type = "TODCONTROL" /\ p.flush /\ p.address = out.addr ->
            [past EXCEPT !.devices = {}, !.odd = FALSE]
      [] p.type = "FIRMWAREMASTER" ->
            LET upload == handle_firmware(check_timeouts(n).firmware, p, 0).upload IN
            [past EXCEPT !.upload = IF upload = NoUpload THEN @ ELSE upload]
      [] p.type = "FIRMWAREREPLY" /\ i # 0 /\ n.node_list[i].firmware.total # 0
            /\ new.node_list[i].firmware.total = 0 -> [past EXCEPT !.answer = p.code]
      [] OTHER -> past

(* What handle makes of a packet may depend on.                             *)
Environments(h) ==
    [up : Ups(h), takes : IF nodes[h].callbacks = {} THEN {FALSE} ELSE BOOLEAN, word : {0}]

(* artnet_read, for one packet: the nodes of a ring all handle it.          *)
Handles(h, p) ==
    \E e \in Environments(h) :
        LET result == [x \in Ring(h) |->
                         handle(check_timeouts(nodes[x]), p,
                                [e EXCEPT !.up = @ /\ nodes[x].sd \in open])]
            order == <<h>> \o SetToSeq(Ring(h) \ {h}) IN
        /\ nodes' = [x \in DOMAIN nodes |-> IF x \in Ring(h) THEN result[x].n ELSE nodes[x]]
        /\ past' = Seen(h, p, result[h].n)
        /\ LET out == FlattenSeq([i \in DOMAIN order |-> result[order[i]].out]) IN
           LET rest == IF p \in Range(wire) THEN RemoveFirst(wire, p) ELSE wire IN
           /\ wire' = rest \o FlattenSeq([i \in DOMAIN out |->
                          IF out[i].type \in scenario.wired THEN Copies(out[i]) ELSE <<>>])
           /\ sent' = SelectSeq(out, LAMBDA x : x.type \in scenario.watched)
        /\ UNCHANGED <<scenario, open>>

(* A packet from one of the nodes, the first one unless the network changes *)
(* the order.                                                               *)
Read(h) ==
    LET mine == {i \in DOMAIN wire : wire[i].to = h} IN
    /\ h \in DOMAIN nodes /\ nodes[h].mode = "ON" /\ nodes[h].sd \in open
    /\ \E i \in mine :
          /\ scenario.reorders \/ i = Min(mine)
          /\ Handles(h, wire[i])

(* And from another sender.                                                 *)
Hears(h, p) ==
    /\ p.to \in {h, Broadcast}
    /\ h \in DOMAIN nodes /\ nodes[h].mode = "ON" /\ nodes[h].sd \in open
    /\ Len(wire) <= MaxWire
    /\ Handles(h, p)

(* There is no packet: only the time-out is looked at.                      *)
ReadsNothing(h) ==
    /\ h \in DOMAIN nodes /\ nodes[h].mode = "ON" /\ check_timeouts(nodes[h]) # nodes[h]
    /\ Sets(h, check_timeouts(nodes[h]))

(* The network loses a packet; one for a node that is not on is lost.       *)
Loses(i) ==
    /\ i \in DOMAIN wire
    /\ scenario.loses \/ nodes[wire[i].to].mode # "ON"
    /\ wire' = RemoveAt(wire, i) /\ sent' = <<>>
    /\ UNCHANGED <<scenario, nodes, open, past>>

Older(n) ==
    [n EXCEPT !.firmware = OlderTransfer(@),
              !.out = [i \in Ports |-> [@[i] EXCEPT !.merge = OlderOutput(@)]]]

(* A second goes by.                                                        *)
Tick ==
    /\ scenario.ticks
    /\ nodes' = [h \in DOMAIN nodes |-> Older(nodes[h])]
    /\ past' = [past EXCEPT !.heard = [s \in DOMAIN @ |-> Min({@[s] + 1, OldAge})]]
    /\ sent' = <<>>
    /\ UNCHANGED <<scenario, open, wire>>

Next ==
    \/ \E h \in DOMAIN scenario.interfaces :
          \/ \E wanted \in Nodes \cup {NoIp} : New(h, wanted)
          \/ \E other \in DOMAIN scenario.interfaces : Join(h, other)
          \/ Destroy(h) \/ Start(h) \/ Stop(h)
          \/ \E type \in {"NODE", "RAW", "SRV"} : artnet_set_node_type(h, type)
          \/ \E limit \in 0 .. 2 : artnet_set_bcast_limit(h, limit)
          \/ \E name \in {"recv", "poll", "dmx"} : artnet_set_handler(h, name)
          \/ artnet_set_port_type(h, 0, "DMX") \/ artnet_set_short_name(h, "named")
          \/ \E subnet \in scenario.subnets : SetSubnet(h, subnet)
          \/ \E addr \in scenario.addrs : SetPortAddr(h, 0, addr)
          \/ \E private \in BOOLEAN : artnet_send_poll(h, private)
          \/ \E port \in Ports : SendDmx(h, port)
          \/ \E i \in 1 .. 2, body \in scenario.bodies : SendTo(h, i, body)
          \/ \E bytes \in [Ports -> BOOLEAN] : SendInput(h, 1, bytes)
          \/ \E data \in scenario.firmwares : SendFirmware(h, 1, data)
          \/ \E uid \in Uids, memory \in Uids :
                AddDevice(h, uid, memory) \/ RemoveDevice(h, uid, memory)
          \/ \E flush \in BOOLEAN : SendTodControl(h, 0, flush)
          \/ Read(h) \/ ReadsNothing(h)
          \/ \E p \in scenario.packets : Hears(h, p)
    \/ \E i \in 1 .. Len(wire) : Loses(i)
    \/ Tick

Spec == Init /\ [][Next]_vars

(* Nodes go on reading.  It is asked for only where a transfer must end, as *)
(* TLC needs long to tell whether a packet can be handled.                  *)
ReadsOn(h) ==
    "firmware" \in scenario.calls /\ ~scenario.loses /\ (Read(h) \/ ReadsNothing(h))

FairSpec == Spec /\ \A h \in Nodes : WF_vars(ReadsOn(h))

-----------------------------------------------------------------------------
(* Properties.                                                              *)

On(h) == h \in DOMAIN nodes /\ nodes[h].mode = "ON"

(* The type invariant.                                                      *)
TypeOK ==
    /\ scenario \in Scenarios
    /\ DOMAIN nodes \subseteq Nodes /\ open \subseteq Sockets
    /\ \A h \in DOMAIN nodes :
          LET n == nodes[h] IN
          /\ n.mode \in {"STANDBY", "ON"} /\ n.sd \in Sockets \cup {NoSocket}
          /\ n.peer \in Nodes \cup {NoIp} /\ n.master \in BOOLEAN
          /\ \A i \in Ports :
                /\ {n.in[i].addr, n.out[i].addr} \subseteq 0 .. 255
                /\ n.in[i].seq \in 0 .. SequenceNumbers - 1
                /\ n.out[i].merge.data \in [Slots -> Levels]
                /\ n.out[i].merge.length \in 0 .. ARTNET_DMX_LENGTH
                /\ n.out[i].tod.length \in 0 .. Len(n.out[i].tod.data)

(* A source has one of the two places of a port: the case the code has for  *)
(* both ("invalid!", receive.c:130) does not happen.                        *)
OnePlaceEach ==
    \A h \in DOMAIN nodes, i \in Ports :
        LET m == nodes[h].out[i].merge IN m.ipA = NoIp \/ m.ipA # m.ipB

(* While no other source was heard for more than the time-out, the second   *)
(* packet of a source is shown as it is: nothing of sources that are gone   *)
(* is left in the merge, whatever the places had been before.               *)
SoleSourceShown ==
    past.solo = 2 =>
        \A h \in DOMAIN nodes :
            LET m == nodes[h].out[0].merge IN
            \A i \in 1 .. m.length : m.data[i] = past.last[i]

(* Whoever has a place and was heard within the time-out keeps it: another  *)
(* source cannot take it.                                                   *)
PlacesKept ==
    \A h \in DOMAIN nodes \cap DOMAIN nodes' :
        LET m == nodes[h].out[0].merge
            new == nodes'[h].out[0].merge IN
        /\ m.ipA # NoIp /\ m.ageA <= MERGE_TIMEOUT_SECONDS => new.ipA = m.ipA
        /\ m.ipB # NoIp /\ m.ageB <= MERGE_TIMEOUT_SECONDS => new.ipB = m.ipB

(* What a port shows is of the sources that have its places, and they keep  *)
(* them.                                                                    *)
PlacesAreShown == [][SoleSourceShown' /\ PlacesKept]_vars

(* An input port that gets another address, by any way, begins its sequence *)
(* anew.                                                                    *)
SequenceRestarts ==
    \A h \in DOMAIN nodes \cap DOMAIN nodes', i \in Ports :
        nodes'[h].in[i].addr # nodes[h].in[i].addr => nodes'[h].in[i].seq = 0

(* The reply that is kept ready says what is so, whatever was set here or   *)
(* programmed from the network since it was built; but the number of ports  *)
(* can be wrong when network control was noted for an input port.           *)
ReplyIsCurrent ==
    \A h \in DOMAIN nodes :
        LET n == nodes[h]
            now == artnet_tx_build_art_poll_reply(n).ar_temp IN
        On(h) =>
            /\ n.ar_temp.sub = now.sub /\ n.ar_temp.name = now.name
            /\ n.ar_temp.swin = now.swin /\ n.ar_temp.swout = now.swout
            /\ (\E i \in Ports : n.in[i].net_ctl) \/ n.ar_temp.numbports = now.numbports

(* What is changed at a node shows in what it sends next.                   *)
ChangesAreTold == ReplyIsCurrent /\ [][ReplyIsCurrent' /\ SequenceRestarts]_vars

(* All ports are in the node's subnet, unless a controller has set it back  *)
(* to a default of 0: then they are not moved.                              *)
PortsInSubnet ==
    ~past.stranded =>
        \A h \in DOMAIN nodes, i \in Ports :
            {nodes[h].in[i].addr \div 16, nodes[h].out[i].addr \div 16}
                \subseteq {LowNibble(nodes[h].subnet)}

(* When no packet is on the way, a server knows the addresses of a node     *)
(* that is on: each change was told, in order, and none was lost.           *)
ListIsCurrent ==
    wire = <<>> /\ "program" \in scenario.calls /\ ~scenario.loses /\ ~scenario.fails =>
        \A s \in DOMAIN nodes, h \in DOMAIN nodes :
            On(s) /\ nodes[s].type = "SRV" /\ On(h) /\ nodes[h].type = "NODE" =>
                \E i \in DOMAIN nodes[s].node_list :
                    LET e == nodes[s].node_list[i] IN
                    /\ e.ip = h /\ e.pub.sub = nodes[h].subnet
                    /\ e.pub.swin = [j \in Ports |-> nodes[h].in[j].addr]
                    /\ e.pub.swout = [j \in Ports |-> nodes[h].out[j].addr]

(* A node is in the list once, and levels go to all nodes that have their   *)
(* universe, and to no others; but where one of them has it on two ports,   *)
(* also to an address that was never written, if there is no broadcast.     *)
SentToListeners ==
    \A h \in DOMAIN nodes :
        LET list == nodes[h].node_list
            Twice(u) == \E i \in DOMAIN list : Cardinality(PortsWith(list[i], u)) > 1
            those(u) == {list[i].ip : i \in {i \in DOMAIN list : PortsWith(list[i], u) # {}}}
            to(u) == {p.to : p \in {p \in Range(sent) : p.type = "DMX" /\ p.universe = u}} IN
        /\ IsInjective([i \in DOMAIN list |-> list[i].ip])
        /\ \A p \in Range(sent) : p.type = "DMX" =>
              LET u == p.universe IN
              \/ to(u) \in {{Broadcast}, those(u)}
              \/ Twice(u) /\ to(u) = those(u) \cup {Garbage}

(* A server knows the nodes and sends to those it should.                   *)
NodesAreKnown == ListIsCurrent /\ SentToListeners

(* The table of devices is what the application added and did not remove,   *)
(* through growth and removals, as long as it removes no first device and   *)
(* none that is not there.                                                  *)
TableExact ==
    ~past.odd => \A h \in DOMAIN nodes :
        LET tod == nodes[h].out[0].tod IN
        Listed(tod) = past.devices /\ tod.length = Cardinality(past.devices)

(* The firmware that is handed over is what was given, whatever packets     *)
(* were lost or delayed, with its length in words if it has several blocks, *)
(* if no packet of an earlier transfer was on the way when it began.        *)
UploadIsGiven ==
    past.upload # NoUpload /\ ~past.crossed =>
        /\ past.upload.data = past.given
        /\ Len(past.given) > ARTNET_FIRMWARE_SIZE => past.upload.length = Len(past.given)

(* A transfer that was answered for as good was handed over.                *)
GoodIsDone == past.answer = "ALLGOOD" /\ ~past.crossed => past.upload.data = past.given

(* Firmware arrives whole or is not acknowledged.                           *)
FirmwareIsGiven == UploadIsGiven /\ GoodIsDone

(* A ring has one master.  The nodes use one open socket, and each socket   *)
(* that is open is a master's, as long as no ring was joined or lost its    *)
(* socket while nodes of it were on.                                        *)
RingsShare ==
    /\ \A h \in DOMAIN nodes :
          /\ Cardinality({x \in Ring(h) : nodes[x].master}) = 1
          /\ \A x \in Ring(h) : Ring(x) = Ring(h)
    /\ ~past.split =>
          /\ open = {nodes[h].sd : h \in {h \in DOMAIN nodes : On(h) /\ nodes[h].master}}
          /\ \A h \in DOMAIN nodes :
                On(h) /\ nodes[h].master => \A x \in Ring(h) : nodes[x].sd = nodes[h].sd

(* Between any two packets and calls: the types, the places of the sources, *)
(* the subnet, the table of devices and the rings of joined nodes.          *)
Consistent ==
    /\ TypeOK /\ OnePlaceEach /\ PortsInSubnet
    /\ TableExact /\ RingsShare

(* A transfer whose last block is not full is answered for in the end, if   *)
(* the application leaves it time, no packet is lost and both nodes read.   *)
Unanswered ==
    /\ "firmware" \in scenario.calls /\ ~scenario.loses /\ ~scenario.fails
    /\ past.given # <<>> /\ past.answer = "none"
    /\ Len(past.given) % ARTNET_FIRMWARE_SIZE # 0

TransfersEnd ==
    <>[][past'.given = past.given]_vars => (Unanswered ~> ~Unanswered)
=============================================================================
