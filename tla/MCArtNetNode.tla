---------------------------- MODULE MCArtNetNode ----------------------------
(* Instances of ArtNetNode for TLC: what is tried together.                 *)
EXTENDS ArtNetNode

MCWords == 0 .. 8

Eth(ip) == [ip |-> ip, up |-> TRUE, loopback |-> FALSE, inet |-> TRUE]
Lo == [Eth(127) EXCEPT !.loopback = TRUE]
Down == [Eth(3) EXCEPT !.up = FALSE]

(* A host of each node; nodes 1 and 2 are on.                               *)
Hosts(hs) == [h \in hs |-> <<Lo, Down, Eth(h)>>]

Node(h, type, socket) ==
    LET n == [artnet_new(h) EXCEPT !.type = type, !.sd = socket] IN
    IF socket = NoSocket THEN n ELSE Started(n, TRUE).n

WithOutput(n, addr) ==
    artnet_tx_build_art_poll_reply(set_output_addr([n EXCEPT !.type = "NODE"], 0, addr, FALSE).n)

Nothing ==
    [nodes |-> (1 :> Node(1, "NODE", 1)), interfaces |-> Hosts({1}), sources |-> {},
     calls |-> {}, packets |-> {}, wired |-> {}, watched |-> {}, told |-> {}, subnets |-> {},
     addrs |-> {}, bodies |-> {}, firmwares |-> {}, fails |-> FALSE, loses |-> FALSE,
     reorders |-> FALSE, ticks |-> FALSE]

(* Three sources and one output port.                                       *)
Dmx(from, length, levels) ==
    [type |-> "DMX", from |-> from, to |-> Broadcast, universe |-> 1, length |-> length,
     levels |-> levels]

NoChange == [i \in Ports |-> PROGRAM_NO_CHANGE]

Address(subnet, swin, swout, mode) ==
    [type |-> "ADDRESS", name |-> "none", subnet |-> subnet,
     swin |-> [NoChange EXCEPT ![0] = swin], swout |-> [NoChange EXCEPT ![0] = swout],
     command |-> [mode |-> mode, port |-> 0]]

Foreign(body) == body @@ [from |-> 20, to |-> 1]

Merging ==
    [Nothing EXCEPT
       !.nodes = (1 :> WithOutput(Node(1, "NODE", 1), 1)), !.sources = {11, 12, 13},
       !.packets = {Dmx(s, 2, <<0, 1>>) : s \in {11, 12, 13}}
                   \cup {Dmx(s, 1, <<1, 0>>) : s \in {11, 12, 13}}
                   \cup {Foreign(Address(127, 127, 127, m)) : m \in {"HTP", "LTP"}}
                   \cup {Foreign([type |-> "INPUT", numbports |-> 1,
                                  disable |-> [i \in Ports |-> TRUE]])},
       !.ticks = TRUE]

(* A server programs a node, which is also set up by its application.       *)
Programming ==
    [Nothing EXCEPT
       !.nodes = (1 :> Node(1, "SRV", 1)) @@ (2 :> [Node(2, "NODE", NoSocket) EXCEPT !.type = "NODE"]),
       !.interfaces = Hosts({1, 2}), !.calls = {"start", "subnet", "portaddr", "program"},
       !.wired = {"POLL", "REPLY", "ADDRESS"}, !.told = {2},
       !.subnets = {0, 1}, !.addrs = {2},
       !.bodies = {Address(0, 127, 127, "none"), Address(129, 127, 127, "none"),
                   Address(127, 0, 127, "none"), Address(127, 130, 127, "none"),
                   Address(127, 127, 0, "none"), Address(127, 127, 130, "none")}]

(* A node is named, by its application and from the network.                *)
Naming ==
    [Nothing EXCEPT
       !.nodes = (1 :> Node(1, "NODE", 1)), !.calls = {"name", "subnet", "portaddr", "dmx"},
       !.told = {1}, !.subnets = {0, 1}, !.addrs = {0},
       !.packets = {Foreign([Address(s, 127, 127, "none") EXCEPT !.name = name]) :
                      s \in {0, 127, 129}, name \in {"none", "other"}}]

(* A server that sends to the nodes it has found.                           *)
Reply(from, swout, numbports) ==
    [type |-> "REPLY", from |-> from, to |-> 1,
     ar |-> [NoReply EXCEPT !.swout = swout, !.numbports = numbports]]

Sending ==
    [Nothing EXCEPT
       !.nodes = (1 :> Node(1, "SRV", 1)), !.calls = {"limit", "dmx"},
       !.packets = {Reply(ip, [i \in Ports |-> IF i = 0 THEN a ELSE b], n) :
                            ip \in {11, 12}, a \in {0, 1}, b \in {0, 1}, n \in {1, 2}}
                   \cup {Reply(13, [i \in Ports |-> i], 1)},
       !.watched = {"DMX"}]

(* What the application may set, and sending that may fail.                 *)
Answering ==
    [Nothing EXCEPT
       !.nodes = (1 :> Node(1, "SRV", 1)),
       !.calls = {"dmx", "handler", "type", "poll", "porttype"},
       !.packets = {[type |-> "POLL", from |-> 11, to |-> 1, private |-> TRUE, auto |-> FALSE],
                    [type |-> "DIAGDATA", from |-> 11, to |-> 1],
                    Reply(11, [i \in Ports |-> i], 1), Reply(11, [i \in Ports |-> i], 2)},
       !.watched = {"DMX"}, !.fails = TRUE]

(* Firmware, with packets lost and in any order and those of another        *)
(* server, or with none lost.                                               *)
Uploading ==
    [Nothing EXCEPT
       !.nodes = (1 :> [Node(1, "SRV", 1) EXCEPT !.node_list =
                          artnet_nl_update(<<>>, Reply(2, [i \in Ports |-> 0], 0))])
                 @@ (2 :> Node(2, "NODE", 2)),
       !.interfaces = Hosts({1, 2}), !.calls = {"firmware"},
       !.wired = {"FIRMWAREMASTER", "FIRMWAREREPLY"},
       !.firmwares = {<<1>>, <<1, 2, 3>>, <<4, 5, 6>>, <<4, 3, 2, 1, 5>>,
                      <<4, 3, 2, 1, 5, 6, 7>>},
       !.packets = {[type |-> "FIRMWAREMASTER", from |-> 20, to |-> 2, part |-> "CONT",
                     block |-> 1, total |-> 5, words |-> <<8, 8>>]},
       !.loses = TRUE, !.reorders = TRUE, !.ticks = TRUE]

Delivering ==
    [Uploading EXCEPT
       !.firmwares = {<<1>>, <<1, 2, 3, 4>>, <<4, 3, 2, 1, 5>>,
                      <<1, 2, 3, 4, 5, 6, 7, 8, 1, 2, 3>>},
       !.loses = FALSE, !.reorders = FALSE, !.packets = {}]

(* A server disables input ports of a node.                                 *)
Disabling ==
    [Nothing EXCEPT
       !.nodes = (1 :> [Node(1, "SRV", 1) EXCEPT !.node_list =
                          artnet_nl_update(<<>>, Reply(2, [i \in Ports |-> 0], 1))])
                 @@ (2 :> WithOutput(Node(2, "NODE", 2), 0)),
       !.interfaces = Hosts({1, 2}), !.calls = {"input", "dmx"}, !.wired = {"INPUT", "REPLY"},
       !.watched = {"DMX"}]

(* A table of devices.                                                      *)
Devices ==
    [Nothing EXCEPT
       !.nodes = (1 :> WithOutput(Node(1, "NODE", 1), 0)), !.calls = {"devices", "tod"},
       !.packets = {[type |-> "TODCONTROL", from |-> 11, to |-> 1, address |-> 0, flush |-> f] :
                      f \in BOOLEAN}
                   \cup {[type |-> "TODREQUEST", from |-> 11, to |-> 1, address |-> {0}],
                         [type |-> "TODDATA", from |-> 11, to |-> 1]},
       !.fails = TRUE]

(* Nodes are made, joined, started and stopped.                             *)
Joining ==
    [Nothing EXCEPT
       !.nodes = (1 :> Node(1, "NODE", NoSocket)), !.interfaces = Hosts({1, 2, 3}),
       !.calls = {"new", "destroy", "join", "start", "stop"}]

MCScenarios == {Merging, Programming, Sending, Devices, Joining, Answering, Naming,
                Disabling, Uploading, Delivering}
=============================================================================
