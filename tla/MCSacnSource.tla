--------------------------- MODULE MCSacnSource ---------------------------
(***************************************************************************)
(* Scenarios for SacnSource: each has the calls of one part of the API.    *)
(***************************************************************************)
EXTENDS SacnSource, TLC

I1 == <<"v4", 1>>
I2 == <<"v6", 2>>
D1 == <<"v4", 11>>
D2 == <<"v6", 12>>

Threaded == [manual |-> FALSE, types |-> {"v4", "v6"}, max |-> 3, name |-> "A"]
Manual == [Threaded EXCEPT !.manual = TRUE]

Config == [priority |-> 100, preview |-> FALSE, unicast_only |-> FALSE, dests |-> <<>>]
UnicastTo(d) == [Config EXCEPT !.unicast_only = TRUE, !.dests = <<d>>]

(* A source of the thread with levels for one interface, as DMX.cpp has it, *)
(* and packets, and universe discovery, that do not leave.                  *)
Plain ==
    [handles |-> (1 :> Threaded), universes |-> {1}, system |-> {I1}, listeners |-> {I1},
     calls |-> {"create", "destroy", "add", "remove", "levels", "deinit", "discovery"},
     configs |-> {Config}, netint_configs |-> {Default}, workings |-> {{I1}},
     levels |-> {<<7>>}, paps |-> {}, force_syncs |-> {FALSE}, failures |-> {{}, {I1}},
     lively |-> TRUE]

(* A source of the application.                                             *)
ByHand == [Plain EXCEPT !.handles = (1 :> Manual), !.failures = {{}}, !.lively = FALSE]

(* What changes the packets of a universe.                                  *)
Labels ==
    [ByHand EXCEPT !.calls = {"create", "add", "levels", "name", "priority", "preview", "send_now",
                              "manual"}]

(* Per-address priorities, with a packet for each tick or in one.           *)
Priorities ==
    [ByHand EXCEPT !.calls = {"create", "add", "remove", "levels", "pap", "manual"},
                   !.levels = {<<7>>, <<7, 8>>}, !.paps = {<<>>, <<0, 100>>}]

(* Unicast destinations.                                                    *)
Unicasting ==
    [ByHand EXCEPT !.listeners = {I1, D1},
                   !.calls = {"create", "add", "remove", "levels", "dests", "discovery",
                              "manual"},
                   !.configs = {Config, UnicastTo(D1)}]

(* Several of them.                                                         *)
Destinations ==
    [ByHand EXCEPT !.listeners = {I1, D1, D2},
                   !.calls = {"create", "add", "levels", "dests", "manual"},
                   !.netint_configs = {Only({})}, !.configs = {UnicastTo(D1)}]

(* Packets that do not leave: multicast, and then there is no unicast       *)
(* either, or unicast alone.                                                *)
FailingMulticast ==
    [Plain EXCEPT !.listeners = {I1, D1},
                  !.configs = {[Config EXCEPT !.dests = <<D1>>]},
                  !.calls = {"create", "add", "levels"}, !.failures = {{}, {I1}}]

FailingUnicast == [FailingMulticast EXCEPT !.failures = {{}, {D1}}]

(* Per-address priorities of the thread, with packets that do not leave.    *)
FailingPriorities ==
    [Plain EXCEPT !.calls = {"create", "add", "remove", "pap"}, !.paps = {<<100>>}]

(* Universe discovery of a source with several universes.                   *)
Discovering ==
    [ByHand EXCEPT !.universes = {1, 2},
                   !.calls = {"create", "add", "levels", "discovery", "manual"}]

(* Interfaces that come and go, and memory that runs out.                   *)
Interfaces ==
    [ByHand EXCEPT !.handles = (1 :> [Manual EXCEPT !.types = {"v4"}]),
                   !.universes = {1, 2}, !.system = {I1, I2}, !.listeners = {I1, I2},
                   !.calls = {"create", "add", "remove", "nomemory", "reset", "reset_each",
                              "manual"},
                   !.netint_configs = {Default, Only({}), Only({I2})},
                   !.workings = {{}, {I1, I2}}]

(* The same, with levels.                                                   *)
Resetting ==
    [Interfaces EXCEPT !.universes = {1}, !.handles = (1 :> Manual),
                       !.calls = {"create", "add", "levels", "reset_each", "manual"},
                       !.netint_configs = {Default, Only({I2})}]

(* One source of the thread and one of the application.                     *)
Mixed ==
    [ByHand EXCEPT !.handles = (1 :> Threaded) @@ (2 :> [Manual EXCEPT !.max = 0]),
                   !.calls = {"create", "destroy", "add", "levels", "nomemory", "manual", "deinit"}]

MCScenarios ==
    {Plain, Labels, Priorities, Unicasting, Destinations, FailingMulticast, FailingUnicast,
     FailingPriorities, Discovering, Interfaces, Resetting, Mixed}

(* One at a time, to see how large each is.                                 *)
MCPlain == {Plain}
MCLabels == {Labels}
MCPriorities == {Priorities}
MCUnicasting == {Unicasting}
MCDestinations == {Destinations}
MCFailing == {FailingMulticast, FailingUnicast, FailingPriorities}
MCDiscovering == {Discovering}
MCInterfaces == {Interfaces}
MCResetting == {Resetting}
MCMixed == {Mixed}
=============================================================================
