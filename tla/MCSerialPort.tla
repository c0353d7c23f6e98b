--------------------------- MODULE MCSerialPort ---------------------------
(***************************************************************************)
(* Scenarios for SerialPort.                                               *)
(***************************************************************************)
EXTENDS SerialPort, TLC

CONSTANTS nobody, t1, t2, t3

Op(kind) == [kind |-> kind]
Sized(kind, size) == [kind |-> kind, size |-> size]
ToPort(name) == [kind |-> "setPort", name |-> name]
ToSettings(settings) == [kind |-> "set", settings |-> settings]

(* Two readers of one device.                                               *)
Readers ==
    [opened |-> TRUE, unplugs |-> 1, bytes |-> 3, calls |-> (t1 :> 2) @@ (t2 :> 2),
     ops |-> (t1 :> {Sized("read", 2), Sized("readline", 3)})
          @@ (t2 :> {Sized("readlines", 2), Op("flushInput")})]

(* Two writers, as several DMX objects on one port would be.                *)
Writers ==
    [opened |-> TRUE, unplugs |-> 1, bytes |-> 1, calls |-> (t1 :> 1) @@ (t2 :> 2),
     ops |-> (t1 :> {Sized("write", 2)})
          @@ (t2 :> {Sized("write", 2), Op("flushOutput"), Op("flush")})]

(* The port is changed, under a reader and a writer.                        *)
Renamed ==
    [opened |-> TRUE, unplugs |-> 0, bytes |-> 2, calls |-> (t1 :> 1) @@ (t2 :> 1) @@ (t3 :> 2),
     ops |-> (t1 :> {Sized("read", 2)}) @@ (t2 :> {Sized("write", 2)})
          @@ (t3 :> {ToPort("there"), ToPort("elsewhere"), Op("flush")})]

(* It is closed under them, without a mutex.                                *)
ClosedUnder ==
    [Renamed EXCEPT !.ops = (t1 :> {Sized("readline", 2)}) @@ (t2 :> {Sized("write", 1), Op("close")})
                            @@ (t3 :> {Op("close"), Op("open")})]

(* It is opened, closed, renamed and set by one thread, with a device that  *)
(* is unplugged, as DMX.cpp does.                                           *)
Controlled ==
    [opened |-> FALSE, unplugs |-> 1, bytes |-> 1, calls |-> (t1 :> 3),
     ops |-> (t1 :> {Op("open"), Op("close"), ToPort("there"), ToPort("elsewhere"),
                     ToSettings("usual"), ToSettings("custom"), ToSettings("invalid"),
                     Sized("write", 1), Op("line"), Op("sendBreak")})]

MCScenarios == {Readers, Writers, Renamed, ClosedUnder, Controlled}

MCEols == {2}
=============================================================================
