---------------------------- MODULE SerialPort ----------------------------
(***************************************************************************)
(* A port of the serial library in src/serial/src: the calls of the class  *)
(* Serial (serial.cc) and what they do on Unix (impl/unix.cc), call by     *)
(* call of the system, with the threads that make them, the timers that    *)
(* end them, and a device that sends, takes and is unplugged.              *)
(*                                                                         *)
(* Reads and writes take a mutex each, setPort() and flush() both, and     *)
(* open(), close() and the settings none.                                  *)
(***************************************************************************)
EXTENDS Integers, Sequences, FiniteSets, Functions, SequencesExt, FiniteSetsExt

CONSTANTS
    Nobody,    \* no thread
    Eols,      \* which bytes of the device end a line
    Scenarios  \* which threads make which calls, how many, with how many bytes

(* What an application may ask of a port.  A line of no size would overrun  *)
(* its buffer (serial.cc:191-198).                                          *)
Asked ==
    [kind : {"open", "close", "line", "flush", "flushInput", "flushOutput", "sendBreak"}]
    \cup [kind : {"read", "write"}, size : Nat]
    \cup [kind : {"readline", "readlines"}, size : Nat \ {0}]
    \cup [kind : {"setPort"}, name : {"there", "elsewhere"}]
    \cup [kind : {"set"}, settings : {"usual", "custom", "invalid"}]

ASSUME ScenariosAssumption ==
    /\ Eols \subseteq Nat
    /\ \A s \in Scenarios :
          /\ s.opened \in BOOLEAN /\ s.unplugs \in Nat /\ s.bytes \in Nat
          /\ Nobody \notin DOMAIN s.ops
          /\ \A t \in DOMAIN s.ops : s.ops[t] \subseteq Asked
          /\ s.calls \in [DOMAIN s.ops -> Nat]

VARIABLES
    scenario,     \* chosen once
    port,         \* port_, fd_, is_open_, and the setting last made
    descriptors,  \* those open in the process, with what is set of them
    readMutex, writeMutex,
    arrived,      \* the bytes the device has sent
    taken,        \* those that have been read or dropped
    wire,         \* for each byte written, the call that wrote it
    plugged,      \* is the device there?
    unplugs,
    call,         \* the call of each thread
    calls,        \* how many it has made
    leaks,        \* opens that failed after they had a descriptor
    failed        \* has closing, or setting of an open port, failed?

mutexes == <<readMutex, writeMutex>>
device == <<arrived, taken, wire, plugged, unplugs>>
faults == <<leaks, failed>>
vars == <<scenario, port, descriptors, mutexes, device, call, calls, faults>>

Threads == DOMAIN call

NoFd == -1

(* A device that was unplugged stays dead for the descriptors it had.       *)
IsValid(fd) == fd \in DOMAIN descriptors

IsAlive(fd) == IsValid(fd) /\ descriptors[fd].alive

Available == arrived - taken

NoCall ==
    [op |-> [kind |-> "none"], at |-> "none", got |-> <<>>, target |-> 0, sent |-> 0,
     first |-> FALSE, late |-> FALSE, endless |-> FALSE, disturbed |-> FALSE, threw |-> FALSE]

Init ==
    /\ scenario \in Scenarios
    /\ port = [name |-> "there", open |-> scenario.opened, settings |-> "usual",
               fd |-> IF scenario.opened THEN 1 ELSE NoFd]
    /\ descriptors = [fd \in (IF scenario.opened THEN {1} ELSE {}) |->
                        [settings |-> "usual", alive |-> TRUE]]
    /\ readMutex = Nobody /\ writeMutex = Nobody
    /\ arrived = 0 /\ taken = 0 /\ wire = <<>> /\ plugged = TRUE /\ unplugs = 0
    /\ call = [t \in DOMAIN scenario.ops |-> NoCall]
    /\ calls = [t \in DOMAIN scenario.ops |-> 0]
    /\ leaks = 0 /\ failed = FALSE

-----------------------------------------------------------------------------
(* Calls and their locks.                                                   *)

Reading == {"read", "readline", "readlines"}
TakesRead == Reading \cup {"flushInput", "flush", "setPort"}
TakesWrite == {"write", "flushOutput", "flush", "setPort"}

At(t, label) == call[t].at = label

Is(t, kinds) == call[t].op.kind \in kinds

Goes(t, label) == call' = [call EXCEPT ![t].at = label]

Returns(t) == Goes(t, "leave")

Throws(t) == call' = [call EXCEPT ![t].at = "leave", ![t].threw = TRUE]

(* Where a call goes after its locks.                                       *)
Body(kind) ==
    CASE kind \in Reading -> "read"
      [] kind = "write" -> "write"
      [] kind = "setPort" -> "reopen"
      [] kind \in {"flush", "flushInput", "flushOutput", "sendBreak"} -> "flush"
      [] kind \in {"open", "close", "set", "line"} -> kind

Start(t, op) ==
    /\ At(t, "none") /\ calls[t] < scenario.calls[t]
    /\ call' = [call EXCEPT ![t] = [NoCall EXCEPT !.op = op,
                  !.at = IF op.kind \in TakesRead THEN "readlock"
                         ELSE IF op.kind \in TakesWrite THEN "writelock" ELSE Body(op.kind)]]
    /\ calls' = [calls EXCEPT ![t] = @ + 1]
    /\ UNCHANGED <<scenario, port, descriptors, mutexes, device, faults>>

(* mutant: nobody waits for the read mutex.                                 *)
TakesAnyway(t) ==
    readMutex' = t /\ Goes(t, IF Is(t, TakesWrite) THEN "writelock" ELSE Body(call[t].op.kind))

(* The ScopedReadLock, and then in setPort() and flush() the ScopedWriteLock. *)
TakesReadMutex(t) ==
    /\ readMutex = Nobody /\ readMutex' = t
    /\ Goes(t, IF Is(t, TakesWrite) THEN "writelock" ELSE Body(call[t].op.kind))

ReadLock(t) ==
    /\ At(t, "readlock") /\ TakesReadMutex(t)
    /\ UNCHANGED <<scenario, port, descriptors, writeMutex, device, calls, faults>>

TakesWriteMutex(t) ==
    /\ writeMutex = Nobody /\ writeMutex' = t /\ Goes(t, Body(call[t].op.kind))

WriteLock(t) ==
    /\ At(t, "writelock") /\ TakesWriteMutex(t)
    /\ UNCHANGED <<scenario, port, descriptors, readMutex, device, calls, faults>>

Unlocked(t, mutex) == IF mutex = t THEN Nobody ELSE mutex

Leave(t) ==
    /\ At(t, "leave")
    /\ call' = [call EXCEPT ![t] = NoCall]
    /\ readMutex' = Unlocked(t, readMutex) /\ writeMutex' = Unlocked(t, writeMutex)
    /\ UNCHANGED <<scenario, port, descriptors, device, calls, faults>>

Unlocking == UNCHANGED <<scenario, mutexes, plugged, unplugs, calls>>

OnlyCall == Unlocking /\ UNCHANGED <<port, descriptors, arrived, taken, wire, faults>>

-----------------------------------------------------------------------------
(* SerialImpl::read().  The bytes are named by their places in what the     *)
(* device sends.                                                            *)

Takes(t, n, label) ==
    /\ call' = [call EXCEPT ![t].at = label,
                            ![t].got = @ \o [i \in 1 .. n |-> taken + i]]
    /\ taken' = taken + n
    /\ Unlocking /\ UNCHANGED <<port, descriptors, arrived, wire, faults>>

(* What ::read() returns of so many bytes; nothing, too, when it fails.     *)
ReadOf(wanted) == IF IsAlive(port.fd) THEN Min({Available, wanted}) ELSE 0

(* read() wants all bytes at once, readline() and readlines() one by one.   *)
Wanted(t) == IF Is(t, {"read"}) THEN call[t].op.size ELSE 1

ReadStarts(t) ==
    /\ At(t, "read")
    /\ IF ~port.open THEN Throws(t) /\ OnlyCall
       ELSE LET n == ReadOf(Wanted(t)) IN
            /\ call' = [call EXCEPT ![t].at = "check", ![t].late = FALSE,
                                    ![t].target = Len(call[t].got) + Wanted(t),
                                    ![t].got = @ \o [i \in 1 .. n |-> taken + i]]
            /\ taken' = taken + n
            /\ Unlocking /\ UNCHANGED <<port, descriptors, arrived, wire, faults>>

(* What follows SerialImpl::read(): lines end with the time, an end of line, *)
(* or the size.                                                             *)
IsOver(c) ==
    \/ c.op.kind = "read" \/ Len(c.got) < c.target \/ Len(c.got) = c.op.size
    \/ c.op.kind = "readline" /\ Last(c.got) \in Eols

ReadChecks(t) ==
    /\ At(t, "check")
    /\ LET c == call[t] IN
       IF Len(c.got) < c.target /\ ~c.late THEN Goes(t, "select")
       ELSE IF IsOver(c) THEN Returns(t) ELSE Goes(t, "read")
    /\ OnlyCall

(* waitReadable().  A descriptor that was closed is an error, and after     *)
(* close() has set fd_ nothing is watched until the time is over.           *)
ReadSelects(t) ==
    /\ At(t, "select")
    /\ \/ Goes(t, "check")
       \/ /\ IsValid(port.fd) /\ (Available > 0 \/ ~IsAlive(port.fd))
          /\ Goes(t, IF Wanted(t) > 1 THEN "settle" ELSE "again")
       \/ port.fd # NoFd /\ ~IsValid(port.fd) /\ Throws(t)
    /\ OnlyCall

(* available() and waitByteTimes().                                         *)
ReadSettles(t) ==
    /\ At(t, "settle")
    /\ IF port.open /\ ~IsAlive(port.fd) THEN Throws(t) ELSE Goes(t, "again")
    /\ OnlyCall

Missing(t) == call[t].target - Len(call[t].got)

ReadsAgain(t) ==
    /\ At(t, "again")
    /\ IF ReadOf(Missing(t)) < 1 THEN Throws(t) /\ OnlyCall
       ELSE Takes(t, ReadOf(Missing(t)), "check")

-----------------------------------------------------------------------------
(* SerialImpl::write().                                                     *)

WriteStarts(t) ==
    /\ At(t, "write")
    /\ IF ~port.open THEN Throws(t)
       ELSE call' = [call EXCEPT ![t].at = "checkwrite", ![t].first = TRUE, ![t].late = FALSE]
    /\ OnlyCall

(* mutant: the time is not looked at.                                       *)
WriteOver(c) == c.sent = c.op.size

IsWritten(c) == c.sent = c.op.size \/ (~c.first /\ c.late)

(* The first time the time that remains is not looked at; when it is        *)
(* negative, as an unsigned number it is the longest of all.                *)
WriteChecks(t) ==
    /\ At(t, "checkwrite")
    /\ LET c == call[t] IN
       IF IsWritten(c) THEN Returns(t)
       ELSE call' = [call EXCEPT ![t].at = "selectwrite", ![t].first = FALSE,
                                 ![t].endless = c.first /\ c.late]
    /\ OnlyCall

(* pselect(): interrupted, out of time, ready, or failed.                   *)
WriteSelects(t) ==
    /\ At(t, "selectwrite")
    /\ \/ Goes(t, "checkwrite")
       \/ call[t].late /\ ~call[t].endless /\ Returns(t)
       \/ IsValid(port.fd) /\ Goes(t, "put")
       \/ port.fd # NoFd /\ ~IsValid(port.fd) /\ Throws(t)
    /\ OnlyCall

Puts(t) ==
    /\ At(t, "put")
    /\ \/ ~IsAlive(port.fd) /\ Throws(t) /\ OnlyCall
       \/ Goes(t, "checkwrite") /\ OnlyCall
       \/ \E n \in 1 .. call[t].op.size - call[t].sent :
             /\ IsAlive(port.fd)
             /\ call' = [call EXCEPT ![t].at = "checkwrite", ![t].sent = @ + n]
             /\ wire' = wire \o [i \in 1 .. n |-> <<t, calls[t]>>]
             /\ Unlocking /\ UNCHANGED <<port, descriptors, arrived, taken, faults>>

-----------------------------------------------------------------------------
(* flush(), flushInput(), flushOutput() and sendBreak(), which do not look  *)
(* at what the system answers.                                              *)
Flush(t) ==
    /\ At(t, "flush")
    /\ IF port.open THEN Returns(t) ELSE Throws(t)
    /\ taken' = IF Is(t, {"flushInput"}) /\ port.open /\ IsAlive(port.fd) THEN arrived ELSE taken
    /\ Unlocking /\ UNCHANGED <<port, descriptors, arrived, wire, faults>>

(* setBreak(), setRTS(), setDTR(), getCTS(), getDSR(), getRI() and getCD(), *)
(* which do.                                                                *)
LineFails == ~port.open \/ ~IsAlive(port.fd)

Line(t) ==
    /\ At(t, "line")
    /\ IF LineFails THEN Throws(t) ELSE Returns(t)
    /\ OnlyCall

-----------------------------------------------------------------------------
(* Opening and closing.                                                     *)

LeastFd == Min((1 .. Cardinality(DOMAIN descriptors) + 1) \ DOMAIN descriptors)

(* ::open(), once more when it is interrupted.                              *)
Open(t) ==
    /\ At(t, "open")
    /\ \/ port.open /\ Throws(t) /\ OnlyCall
       \/ /\ ~port.open /\ Throws(t)
          /\ port' = [port EXCEPT !.fd = NoFd]
          /\ Unlocking /\ UNCHANGED <<descriptors, arrived, taken, wire, faults>>
       \/ /\ ~port.open /\ port.name = "there" /\ plugged
          /\ port' = [port EXCEPT !.fd = LeastFd]
          /\ descriptors' = [fd \in DOMAIN descriptors \cup {LeastFd} |->
                               IF fd = LeastFd THEN [settings |-> "none", alive |-> TRUE]
                               ELSE descriptors[fd]]
          /\ Goes(t, "configure")
          /\ Unlocking /\ UNCHANGED <<arrived, taken, wire, faults>>

Opening(t) == Is(t, {"open", "setPort"})

(* reconfigurePort() throws: for an open() the descriptor is left open.     *)
NotConfigured(t) ==
    /\ Throws(t)
    /\ leaks' = leaks + (IF Opening(t) /\ IsValid(port.fd) THEN 1 ELSE 0)
    /\ failed' = (failed \/ ~Opening(t))
    /\ UNCHANGED port

(* reconfigurePort(): settings that are invalid are found out before any    *)
(* is set, and a custom baud rate is set after all the others.              *)
IsRefused == ~IsAlive(port.fd) \/ port.settings = "invalid"

Configure(t) ==
    /\ At(t, "configure")
    /\ \/ IsRefused /\ NotConfigured(t) /\ UNCHANGED descriptors
       \/ /\ ~IsRefused
          /\ descriptors' = [descriptors EXCEPT ![port.fd].settings = port.settings]
          /\ \/ port.settings = "custom" /\ NotConfigured(t)
             \/ /\ Returns(t) /\ UNCHANGED faults
                /\ port' = [port EXCEPT !.open = @ \/ Opening(t)]
    /\ Unlocking /\ UNCHANGED <<arrived, taken, wire>>

AppliesSettings(t) == IF port.open THEN Goes(t, "configure") ELSE Returns(t)

(* setBaudrate(), setBytesize(), setParity(), setStopbits() and             *)
(* setFlowcontrol().                                                        *)
Set(t) ==
    /\ At(t, "set")
    /\ port' = [port EXCEPT !.settings = call[t].op.settings]
    /\ AppliesSettings(t)
    /\ Unlocking /\ UNCHANGED <<descriptors, arrived, taken, wire, faults>>

(* After close(), setPort() opens the new port.                             *)
AfterClose(t) == IF Is(t, {"setPort"}) THEN "rename" ELSE "leave"

(* mutant: the descriptor is not closed.                                    *)
StaysOpen(fd) == descriptors

Closed(fd) == Restrict(descriptors, DOMAIN descriptors \ {fd})

(* ::close(): what has not been read is dropped, and calls under way may    *)
(* find that.  A close() that fails has closed the descriptor all the same. *)
Close(t) ==
    /\ At(t, "close")
    /\ IF ~port.open THEN Goes(t, AfterClose(t)) /\ OnlyCall
       ELSE IF port.fd = NoFd THEN Goes(t, "closed") /\ OnlyCall
       ELSE /\ descriptors' = Closed(port.fd)
            /\ taken' = IF IsAlive(port.fd) THEN arrived ELSE taken
            /\ \E ok \in {IsValid(port.fd), FALSE} :
                  /\ call' = [u \in Threads |->
                        IF u # t THEN [call[u] EXCEPT !.disturbed = TRUE]
                        ELSE [call[u] EXCEPT !.at = IF ok THEN "noFd" ELSE "leave",
                                             !.threw = ~ok]]
                  /\ failed' = (failed \/ ~ok)
            /\ Unlocking /\ UNCHANGED <<port, arrived, wire, leaks>>

(* fd_ = -1, and then is_open_ = false.                                     *)
ForgetsFd(t) ==
    /\ At(t, "noFd") /\ port' = [port EXCEPT !.fd = NoFd] /\ Goes(t, "closed")
    /\ Unlocking /\ UNCHANGED <<descriptors, arrived, taken, wire, faults>>

IsClosed(t) ==
    /\ At(t, "closed") /\ port' = [port EXCEPT !.open = FALSE] /\ Goes(t, AfterClose(t))
    /\ Unlocking /\ UNCHANGED <<descriptors, arrived, taken, wire, faults>>

(* setPort(), of a port that was open or that was not.                      *)
Reopens(t) ==
    /\ At(t, "reopen") /\ port.open /\ Goes(t, "close") /\ OnlyCall

Renames(t) ==
    /\ \/ At(t, "reopen") /\ ~port.open /\ Returns(t)
       \/ At(t, "rename") /\ Goes(t, "open")
    /\ port' = [port EXCEPT !.name = call[t].op.name]
    /\ Unlocking /\ UNCHANGED <<descriptors, arrived, taken, wire, faults>>

-----------------------------------------------------------------------------
(* The device, and time.                                                    *)

Arrives ==
    /\ plugged /\ arrived < scenario.bytes /\ \E fd \in DOMAIN descriptors : IsAlive(fd)
    /\ arrived' = arrived + 1
    /\ UNCHANGED <<scenario, port, descriptors, mutexes, taken, wire, plugged, unplugs, call, calls,
                   faults>>

Unplugged ==
    /\ plugged /\ unplugs < scenario.unplugs
    /\ plugged' = FALSE /\ unplugs' = unplugs + 1
    /\ descriptors' = [fd \in DOMAIN descriptors |-> [descriptors[fd] EXCEPT !.alive = FALSE]]
    /\ UNCHANGED <<scenario, port, mutexes, arrived, taken, wire, call, calls, faults>>

Plugged ==
    /\ ~plugged /\ plugged' = TRUE
    /\ UNCHANGED <<scenario, port, descriptors, mutexes, arrived, taken, wire, unplugs, call, calls,
                   faults>>

(* The timer of a read or a write expires.                                  *)
Timed == {"check", "select", "settle", "again", "checkwrite", "selectwrite", "put"}

Expires(t) ==
    /\ call[t].at \in Timed /\ ~call[t].late
    /\ call' = [call EXCEPT ![t].late = TRUE]
    /\ UNCHANGED <<scenario, port, descriptors, mutexes, device, calls, faults>>

-----------------------------------------------------------------------------
Step(t) ==
    \/ ReadLock(t) \/ WriteLock(t) \/ Leave(t)
    \/ ReadStarts(t) \/ ReadChecks(t) \/ ReadSelects(t) \/ ReadSettles(t) \/ ReadsAgain(t)
    \/ WriteStarts(t) \/ WriteChecks(t) \/ WriteSelects(t) \/ Puts(t)
    \/ Flush(t) \/ Line(t) \/ Open(t) \/ Configure(t) \/ Set(t)
    \/ Close(t) \/ ForgetsFd(t) \/ IsClosed(t) \/ Reopens(t) \/ Renames(t)

Next ==
    \/ \E t \in Threads :
          \/ \E op \in scenario.ops[t] : Start(t, op)
          \/ Step(t) \/ Expires(t)
    \/ Arrives \/ Unplugged \/ Plugged

Spec == Init /\ [][Next]_vars

(* Threads go on, and time passes.                                          *)
AllThreads == UNION {DOMAIN s.ops : s \in Scenarios}

FairSpec ==
    /\ Spec
    /\ \A t \in AllThreads :
          WF_vars(t \in Threads /\ Step(t)) /\ WF_vars(t \in Threads /\ Expires(t))
-----------------------------------------------------------------------------
(* The type invariant.  A call never reads more than its buffer holds, or   *)
(* writes more than it is given.                                            *)
TypeOK ==
    /\ port.name \in {"there", "elsewhere"} /\ port.open \in BOOLEAN
    /\ port.fd \in {NoFd} \cup (Nat \ {0})
    /\ {readMutex, writeMutex} \subseteq Threads \cup {Nobody}
    /\ taken \in 0 .. arrived /\ arrived \in 0 .. scenario.bytes
    /\ \A t \in Threads :
          /\ Is(t, Reading) => Len(call[t].got) <= call[t].op.size
          /\ Is(t, {"write"}) => call[t].sent <= call[t].op.size

(* A call of read(), readline() or readlines() gets bytes that follow one   *)
(* another: no other thread reads or drops some between them, unless the    *)
(* port is closed meanwhile, for which close() takes no mutex.              *)
BytesInARow ==
    \A t \in Threads :
        LET got == call[t].got IN
        ~call[t].disturbed => \A i \in 1 .. Len(got) - 1 : got[i + 1] = got[i] + 1

(* The bytes of a write() follow one another on the wire: frames of several *)
(* threads are never mixed.                                                 *)
FramesWhole ==
    \A i, j \in DOMAIN wire :
        i < j /\ wire[i] = wire[j] => \A k \in i .. j : wire[k] = wire[i]

(* What the mutexes of a port are for: the calls of several threads neither *)
(* share what is read nor mix what is written.                              *)
BytesKept == BytesInARow /\ FramesWhole

(* However a call ends, by an exception too, it gives its mutexes back, and *)
(* both are only held together by calls that need both.                     *)
MutexesGivenBack ==
    \A t \in Threads :
        /\ readMutex = t => Is(t, TakesRead)
        /\ writeMutex = t => Is(t, TakesWrite)

(* A port that is open has a descriptor, set up as the application asked,   *)
(* however often it was opened, closed, renamed and set, unless a call of   *)
(* the system for that has failed.                                          *)
Changing == {"configure", "noFd", "closed"}

OpenIsConfigured ==
    port.open /\ ~failed /\ (\A t \in Threads : call[t].at \notin Changing) =>
        IsValid(port.fd) /\ descriptors[port.fd].settings = port.settings

(* The descriptors of the process are the port's own and those of calls of  *)
(* open() that failed when they had one already, which leave it open.       *)
DescriptorsAccounted == Cardinality(DOMAIN descriptors \ {port.fd}) <= leaks

(* Mutexes, descriptors and settings agree with what the calls are at.      *)
Consistent == TypeOK /\ MutexesGivenBack /\ OpenIsConfigured /\ DescriptorsAccounted

(* Every call returns or throws: no thread waits for ever for a mutex or    *)
(* for a device that neither sends nor takes.  The exception is a write()   *)
(* whose time was over before it looked, which waits for 49 days.           *)
Waits(t) == t \in Threads /\ ~At(t, "none")

CallsReturn ==
    \A t \in AllThreads : Waits(t) ~> (~Waits(t) \/ \E u \in Threads : call[u].endless)
=============================================================================
