-------------------------- MODULE SerialPortProofs --------------------------
(***************************************************************************)
(* What the mutexes of a serial port are for, proved for any number of     *)
(* threads that make any calls: readers get bytes in a row, the frames of  *)
(* writers stay whole, and every mutex is given back.  And, when one       *)
(* thread opens, closes, renames and sets the port: an open port has a     *)
(* descriptor set up as that thread asked, and no descriptor is lost.      *)
(***************************************************************************)
EXTENDS SerialPort, FiniteSetTheorems, WellFoundedInduction, TLAPS

USE ScenariosAssumption

-----------------------------------------------------------------------------
(* Types.                                                                   *)

Settings == {"usual", "custom", "invalid"}

AtRead == {"read", "check", "select", "settle", "again"}
AtWrite == {"write", "checkwrite", "selectwrite", "put"}
Flushes == {"flush", "flushInput", "flushOutput", "sendBreak"}

Labels ==
    AtRead \cup AtWrite
    \cup {"none", "readlock", "writelock", "flush", "line", "open", "configure", "set", "close",
          "noFd", "closed", "reopen", "rename", "leave"}

CallType ==
    [op : Asked \cup {[kind |-> "none"]}, at : Labels, got : Seq(Nat), target : Nat, sent : Nat,
     first : BOOLEAN, late : BOOLEAN, endless : BOOLEAN, disturbed : BOOLEAN, threw : BOOLEAN]

Users == DOMAIN scenario.ops

PortTyped ==
    /\ port \in [name : {"there", "elsewhere"}, open : BOOLEAN, settings : Settings,
                 fd : {NoFd} \cup (Nat \ {0})]
    /\ DOMAIN descriptors \subseteq Nat \ {0} /\ IsFiniteSet(DOMAIN descriptors)
    /\ descriptors \in [DOMAIN descriptors -> [settings : Settings \cup {"none"}, alive : BOOLEAN]]
    /\ leaks \in Nat /\ failed \in BOOLEAN

DeviceTyped ==
    /\ arrived \in 0 .. scenario.bytes /\ taken \in 0 .. arrived
    /\ wire \in Seq(Users \X Nat) /\ plugged \in BOOLEAN /\ unplugs \in Nat

CallsTyped ==
    /\ scenario \in Scenarios
    /\ call \in [Users -> CallType] /\ calls \in [Users -> Nat]
    /\ readMutex \in Users \cup {Nobody} /\ writeMutex \in Users \cup {Nobody}

(* What is asked has the parts its kind calls for.                          *)
LEMMA AskedParts ==
    ASSUME NEW op \in Asked
    PROVE  /\ op.kind \in {"read", "write"} => op.size \in Nat
           /\ op.kind \in {"readline", "readlines"} => op.size \in Nat /\ op.size > 0
           /\ op.kind = "setPort" => op.name \in {"there", "elsewhere"}
           /\ op.kind = "set" => op.settings \in Settings
           /\ op.kind \in TakesRead \cup TakesWrite
                          \cup {"open", "close", "line", "sendBreak", "set"}
BY DEF Asked, Settings, TakesRead, TakesWrite, Reading

(* The lesser of two numbers.                                               *)
LEMMA Lesser ==
    ASSUME NEW a \in Int, NEW b \in Int
    PROVE  Min({a, b}) = IF a <= b THEN a ELSE b
<1>1. \A x : (x \in {a, b} /\ \A y \in {a, b} : x <= y) <=> x = (IF a <= b THEN a ELSE b)
  OBVIOUS
<1> QED
  BY <1>1 DEF Min

(* What ::read() returns is there, and wanted.                              *)
LEMMA ReadOfFits ==
    ASSUME CallsTyped, DeviceTyped, NEW wanted \in Nat
    PROVE  ReadOf(wanted) \in Nat /\ ReadOf(wanted) <= wanted /\ taken + ReadOf(wanted) <= arrived
<1>1. arrived \in Nat /\ taken \in Nat /\ taken <= arrived
  BY DEF DeviceTyped, CallsTyped
<1>2. Available \in Nat
  BY <1>1 DEF Available
<1>3. Min({Available, wanted}) = IF Available <= wanted THEN Available ELSE wanted
  BY <1>2, Lesser
<1> QED
  BY <1>1, <1>2, <1>3 DEF ReadOf, Available

-----------------------------------------------------------------------------
(* What a call is at fits what was asked, and it never has more than that.  *)
Fits(c) ==
    /\ c.at = "none" => c.op = [kind |-> "none"]
    /\ c.at # "none" => c.op \in Asked
    /\ c.at = "readlock" => c.op.kind \in TakesRead
    /\ c.at = "writelock" => c.op.kind \in TakesWrite
    /\ c.at \in {"none", "readlock", "writelock"} => c.got = <<>> /\ c.sent = 0
    /\ c.at \in AtRead => c.op.kind \in Reading
    /\ c.at \in AtWrite => c.op.kind = "write"
    /\ c.at = "flush" => c.op.kind \in Flushes
    /\ c.at = "line" => c.op.kind = "line"
    /\ c.at = "open" => c.op.kind \in {"open", "setPort"}
    /\ c.at = "configure" => c.op.kind \in {"open", "setPort", "set"}
    /\ c.at = "set" => c.op.kind = "set"
    /\ c.at \in {"close", "noFd", "closed"} => c.op.kind \in {"close", "setPort"}
    /\ c.at \in {"reopen", "rename"} => c.op.kind = "setPort"

Measured(c) ==
    /\ c.got # <<>> => c.op.kind \in Reading
    /\ c.op.kind \in Reading => Len(c.got) <= c.op.size
    /\ c.at = "read" => IF c.op.kind = "read" THEN c.got = <<>> ELSE Len(c.got) < c.op.size
    /\ c.at \in AtRead \ {"read"} => Len(c.got) <= c.target /\ c.target <= c.op.size
    /\ c.sent # 0 => c.op.kind = "write"
    /\ c.op.kind = "write" => c.sent <= c.op.size

(* Who holds the mutexes.                                                   *)
Holds(t) ==
    /\ readMutex = t <=> Is(t, TakesRead) /\ ~At(t, "readlock")
    /\ writeMutex = t <=> Is(t, TakesWrite) /\ ~At(t, "readlock") /\ ~At(t, "writelock")

(* What a call has read ends with the last byte that was taken.             *)
Rising(bytes) == \A i \in 1 .. Len(bytes) - 1 : bytes[i + 1] = bytes[i] + 1

EndsWith(bytes, last) == bytes # <<>> => bytes[Len(bytes)] = last

InARow(t) == ~call[t].disturbed => Rising(call[t].got) /\ EndsWith(call[t].got, taken)

(* What a call has written is the last on the wire.                         *)
Frame(t) == <<t, calls[t]>>

OnWire(t) ==
    IF call[t].sent = 0
    THEN ~At(t, "none") => \A i \in DOMAIN wire : wire[i] # Frame(t)
    ELSE wire # <<>> /\ wire[Len(wire)] = Frame(t)

WireSound ==
    /\ \A i \in DOMAIN wire : wire[i][2] <= calls[wire[i][1]]
    /\ FramesWhole

Sound(t) == Fits(call[t]) /\ Measured(call[t]) /\ Holds(t) /\ InARow(t) /\ OnWire(t)

Calls == CallsTyped /\ WireSound /\ \A u \in Users : Sound(u)

Inv == Calls /\ DeviceTyped /\ PortTyped

Waiting == {"none", "readlock", "writelock"}

(* Nobody who does not hold its mutex has read or written anything.         *)
LEMMA NothingYet ==
    ASSUME Inv, NEW u \in Users
    PROVE  /\ readMutex # u => call[u].got = <<>>
           /\ writeMutex # u => call[u].sent = 0
           /\ call[u] \in CallType /\ Fits(call[u]) /\ Measured(call[u])
<1>1. Sound(u) /\ call[u] \in CallType
  BY DEF Inv, Calls, CallsTyped
<1>2. Fits(call[u]) /\ Measured(call[u]) /\ Holds(u)
  BY <1>1 DEF Sound
<1> QED
  BY <1>1, <1>2 DEF Fits, Measured, Holds, Is, At, Reading, TakesRead, TakesWrite

(* A call that neither reads nor writes goes on; when it drops what has     *)
(* arrived, it holds the read mutex.                                        *)
LEMMA Moves ==
    ASSUME Inv, NEW t \in Users, NEW c \in CallType,
           call' = [call EXCEPT ![t] = c],
           UNCHANGED <<scenario, readMutex, writeMutex, wire, calls>>,
           Fits(c), Measured(c),
           c.op = call[t].op, c.got = call[t].got, c.sent = call[t].sent,
           c.disturbed = call[t].disturbed, c.at \notin Waiting, call[t].at \notin Waiting,
           taken' = taken \/ (readMutex = t /\ call[t].got = <<>>)
    PROVE  Calls'
<1>1. CallsTyped /\ WireSound /\ \A u \in Users : Sound(u)
  BY DEF Inv, Calls
<1>2. call \in [Users -> CallType] /\ call'[t] = c /\ \A u \in Users : u # t => call'[u] = call[u]
  BY <1>1 DEF CallsTyped
<1>3. CallsTyped'
  BY <1>1, <1>2 DEF CallsTyped, Users
<1>4. WireSound'
  BY <1>1 DEF WireSound, FramesWhole
<1>5. ASSUME NEW u \in Users PROVE Sound(u)'
  <2>1. Sound(u) /\ (readMutex # u => call[u].got = <<>>)
    BY <1>1, NothingYet
  <2>2. Fits(call[u])' /\ Measured(call[u])'
    BY <1>2, <2>1 DEF Sound, Fits, Measured, NoCall
  <2>3. Holds(u)'
    BY <1>2, <2>1 DEF Sound, Holds, Is, At, Waiting
  <2>4. InARow(u)'
    <3>1. CASE u = t
      BY <1>2, <2>1, <3>1 DEF Sound, InARow, Rising, EndsWith
    <3>2. CASE u # t
      BY <1>2, <2>1, <3>2 DEF Sound, InARow, Rising, EndsWith
    <3> QED
      BY <3>1, <3>2
  <2>5. OnWire(u)'
    BY <1>2, <2>1 DEF Sound, OnWire, Frame, At, Waiting
  <2> QED
    BY <2>2, <2>3, <2>4, <2>5 DEF Sound
<1> QED
  BY <1>3, <1>4, <1>5 DEF Calls, Users

(* The same, of a call that goes somewhere or throws.                       *)
LEMMA Going ==
    ASSUME Inv, NEW t \in Users, NEW l \in Labels \ Waiting,
           Goes(t, l) \/ (l = "leave" /\ Throws(t)),
           UNCHANGED <<scenario, readMutex, writeMutex, wire, calls>>,
           call[t].at \notin Waiting,
           Fits([call[t] EXCEPT !.at = l]), Measured([call[t] EXCEPT !.at = l]),
           taken' = taken \/ (readMutex = t /\ call[t].got = <<>>)
    PROVE  Calls'
<1>1. call[t] \in CallType /\ Fits(call[t]) /\ Measured(call[t])
  BY NothingYet
<1> DEFINE gone == [call[t] EXCEPT !.at = l]
           threw == [call[t] EXCEPT !.at = l, !.threw = TRUE]
<1>2. call' = [call EXCEPT ![t] = gone] \/ call' = [call EXCEPT ![t] = threw]
  BY DEF Goes, Throws
<1>3. Fits(gone) /\ Measured(gone)
  BY <1>1
<1>4. gone \in CallType /\ threw \in CallType /\ gone.at = l /\ threw.at = l
  BY <1>1 DEF CallType
<1>5. /\ gone.op = call[t].op /\ gone.got = call[t].got /\ gone.sent = call[t].sent
      /\ gone.disturbed = call[t].disturbed /\ gone.target = call[t].target
      /\ threw.op = call[t].op /\ threw.got = call[t].got /\ threw.sent = call[t].sent
      /\ threw.disturbed = call[t].disturbed /\ threw.target = call[t].target
  BY <1>1 DEF CallType
<1> HIDE DEF gone, threw
<1>6. Fits(threw) /\ Measured(threw)
  BY <1>3, <1>4, <1>5 DEF Fits, Measured, Waiting
<1> QED
  BY <1>2, <1>3, <1>4, <1>5, <1>6, Moves

-----------------------------------------------------------------------------
(* One lemma for the steps of each kind.                                    *)

(* Wherever a call is, it may return.                                       *)
LEMMA MayLeave ==
    ASSUME Inv, NEW t \in Users, call[t].at \notin Waiting
    PROVE  Fits([call[t] EXCEPT !.at = "leave"]) /\ Measured([call[t] EXCEPT !.at = "leave"])
BY NothingYet DEF Fits, Measured, CallType, AtRead, AtWrite, Waiting

(* A step that changes nothing but the call.                                *)
LEMMA OnlyGoing ==
    ASSUME Inv, NEW t \in Users, NEW l \in Labels \ Waiting,
           Goes(t, l) \/ (l = "leave" /\ Throws(t)), OnlyCall, call[t].at \notin Waiting,
           Fits([call[t] EXCEPT !.at = l]), Measured([call[t] EXCEPT !.at = l])
    PROVE  Inv'
<1>1. UNCHANGED <<scenario, readMutex, writeMutex, wire, calls, taken>>
  BY DEF OnlyCall, Unlocking, mutexes
<1>2. Calls'
  BY <1>1, Going
<1>3. DeviceTyped' /\ PortTyped'
  BY DEF OnlyCall, Unlocking, faults, Inv, DeviceTyped, PortTyped, Users
<1> QED
  BY <1>2, <1>3 DEF Inv

(* The same, when the call returns or throws.                               *)
LEMMA OnlyLeaving ==
    ASSUME Inv, NEW t \in Users, Returns(t) \/ Throws(t), OnlyCall, call[t].at \notin Waiting
    PROVE  Inv'
<1>1. "leave" \in Labels \ Waiting /\ (Goes(t, "leave") \/ Throws(t))
  BY DEF Labels, Waiting, Returns
<1> QED
  BY <1>1, MayLeave, OnlyGoing

(* waitReadable() and what follows it.                                      *)
LEMMA ReadWaits ==
    ASSUME Inv, NEW t \in Users, ReadSelects(t) \/ ReadSettles(t) \/ ReadChecks(t)
    PROVE  Inv'
<1>1. call[t].at \in AtRead \ {"read"} /\ OnlyCall /\ call[t].at \notin Waiting
  BY DEF ReadSelects, ReadSettles, ReadChecks, At, AtRead, Waiting
<1>2. call[t] \in CallType /\ Fits(call[t]) /\ Measured(call[t])
  BY NothingYet
<1>3. CASE Returns(t) \/ Throws(t)
  BY <1>1, <1>3, OnlyLeaving
<1>4. ASSUME NEW l \in AtRead \ {"read"}, Goes(t, l) PROVE Inv'
  <2>1. l \in Labels \ Waiting
    BY DEF Labels, Waiting, AtRead
  <2>2. Fits([call[t] EXCEPT !.at = l]) /\ Measured([call[t] EXCEPT !.at = l])
    BY <1>1, <1>2 DEF Fits, Measured, CallType, AtRead, AtWrite
  <2> QED
    BY <1>1, <1>4, <2>1, <2>2, OnlyGoing
<1>5. CASE ReadChecks(t) /\ ~IsOver(call[t]) /\ Len(call[t].got) >= call[t].target /\ Goes(t, "read")
  <2>1. "read" \in Labels \ Waiting
    BY DEF Labels, Waiting, AtRead
  <2>2. call[t].op.kind \in Reading \ {"read"} /\ Len(call[t].got) # call[t].op.size
    BY <1>1, <1>2, <1>5 DEF IsOver, Fits
  <2>3. call[t].op.size \in Nat
    BY <1>1, <1>2, <2>2, AskedParts DEF Fits, AtRead, Reading
  <2>4. Fits([call[t] EXCEPT !.at = "read"]) /\ Measured([call[t] EXCEPT !.at = "read"])
    BY <1>1, <1>2, <2>2, <2>3 DEF Fits, Measured, CallType, AtRead, AtWrite
  <2> QED
    BY <1>1, <1>5, <2>1, <2>4, OnlyGoing
<1>6. CASE ReadChecks(t)
  <2>1. call[t].target \in Int /\ Len(call[t].got) \in Int
    BY <1>2 DEF CallType
  <2>2. CASE Goes(t, "select")
    BY <1>4, <2>2 DEF AtRead
  <2>3. Goes(t, "select") \/ Returns(t)
        \/ (~IsOver(call[t]) /\ Len(call[t].got) >= call[t].target /\ Goes(t, "read"))
    BY <1>6, <2>1 DEF ReadChecks, IsOver
  <2> QED
    BY <1>3, <1>5, <1>6, <2>2, <2>3
<1>7. CASE ReadSelects(t) \/ ReadSettles(t)
  BY <1>3, <1>4, <1>7 DEF ReadSelects, ReadSettles, AtRead
<1> QED
  BY <1>6, <1>7

(* Two sequences one after the other.                                       *)
LEMMA Joined ==
    ASSUME NEW S, NEW a \in Seq(S), NEW b \in Seq(S)
    PROVE  a \o b \in Seq(S) /\ Len(a \o b) = Len(a) + Len(b)
OBVIOUS

(* Bytes that follow one another are appended to bytes that do, and come    *)
(* right before them.                                                       *)
LEMMA Appended ==
    ASSUME NEW got \in Seq(Nat), NEW from \in Nat, NEW n \in Nat, NEW result,
           result = got \o [i \in 1 .. n |-> from + i], Rising(got), EndsWith(got, from)
    PROVE  Rising(result) /\ EndsWith(result, from + n)
<1> DEFINE more == [i \in 1 .. n |-> from + i]
<1>1. more \in Seq(Nat) /\ Len(more) = n /\ \A i \in 1 .. n : more[i] = from + i
  OBVIOUS
<1> HIDE DEF more
<1>2. result = got \o more
  BY DEF more
<1>3. Len(result) = Len(got) + n /\ Len(got) \in Nat
  BY <1>1, <1>2
<1>4. \A i \in 1 .. Len(result) :
         result[i] = IF i <= Len(got) THEN got[i] ELSE from + (i - Len(got))
  BY <1>1, <1>2, <1>3
<1>5. ASSUME NEW i \in 1 .. Len(result) - 1 PROVE result[i + 1] = result[i] + 1
  <2>1. CASE i < Len(got)
    BY <1>3, <1>4, <2>1 DEF Rising
  <2>2. CASE i = Len(got)
    <3>1. got # <<>> /\ got[i] = from
      BY <1>3, <2>2 DEF EndsWith
    <3> QED
      BY <1>3, <1>4, <2>2, <3>1
  <2>3. CASE i > Len(got)
    BY <1>3, <1>4, <2>3
  <2> QED
    BY <1>3, <2>1, <2>2, <2>3
<1>6. ASSUME result # <<>> PROVE result[Len(result)] = from + n
  <2>1. result \in Seq(Nat)
    BY <1>1, <1>2
  <2>2. Len(result) > 0
    BY <1>6, <2>1
  <2>3. CASE n = 0
    <3>1. got # <<>> /\ result[Len(got)] = got[Len(got)]
      BY <1>3, <1>4, <2>2, <2>3
    <3> QED
      BY <1>3, <2>3, <3>1 DEF EndsWith
  <2>4. CASE n > 0
    BY <1>3, <1>4, <2>2, <2>4
  <2>5. n = 0 \/ n > 0
    OBVIOUS
  <2> QED
    BY <2>3, <2>4, <2>5
<1> QED
  BY <1>5, <1>6 DEF Rising, EndsWith

(* A read takes the next bytes, no more than it has room for.               *)
LEMMA Taking ==
    ASSUME Inv, NEW t \in Users, NEW n \in Nat, NEW c \in CallType,
           call[t].at \in AtRead, call' = [call EXCEPT ![t] = c],
           c.got = call[t].got \o [i \in 1 .. n |-> taken + i],
           c.op = call[t].op, c.sent = call[t].sent, c.disturbed = call[t].disturbed,
           c.at = "check", Len(c.got) <= c.target, c.target <= c.op.size,
           taken' = taken + n, taken + n <= arrived,
           Unlocking, UNCHANGED <<port, descriptors, arrived, wire, faults>>
    PROVE  Inv'
<1>1. CallsTyped /\ DeviceTyped /\ WireSound /\ \A u \in Users : Sound(u)
  BY DEF Inv, Calls
<1>2. call \in [Users -> CallType] /\ call'[t] = c /\ \A u \in Users : u # t => call'[u] = call[u]
  BY <1>1 DEF CallsTyped
<1>3. UNCHANGED <<scenario, readMutex, writeMutex, wire, calls>>
  BY DEF Unlocking, mutexes
<1>4. CallsTyped' /\ WireSound'
  BY <1>1, <1>2, <1>3 DEF CallsTyped, Users, WireSound, FramesWhole
<1>5. call[t] \in CallType /\ Fits(call[t]) /\ Measured(call[t]) /\ Sound(t)
  BY <1>1, NothingYet
<1>6. call[t].op \in Asked /\ call[t].op.kind \in Reading /\ readMutex = t
  BY <1>5 DEF Sound, Fits, Holds, Is, At, AtRead, TakesRead
<1>7. call[t].op.size \in Nat /\ taken \in Nat /\ arrived \in Nat
  BY <1>1, <1>6, AskedParts DEF Reading, DeviceTyped, CallsTyped
<1>8. ASSUME NEW u \in Users PROVE Sound(u)'
  <2>1. CASE u = t
    <3>1. Fits(c) /\ Measured(c)
      <4>1. Fits(c)
        BY <1>5, <1>6 DEF Fits, AtRead, AtWrite
      <4>2. c.sent = 0
        BY <1>5, <1>6 DEF Measured, Reading
      <4>3. Len(c.got) <= c.op.size
        BY <1>6, <1>7 DEF CallType
      <4> QED
        BY <1>6, <4>1, <4>2, <4>3 DEF Measured, AtRead, Reading
    <3>2. Holds(t)'
      BY <1>2, <1>3, <1>5 DEF Sound, Holds, Is, At, AtRead
    <3>3. InARow(t)'
      <4>1. call[t].got \in Seq(Nat) /\ ~c.disturbed => Rising(c.got) /\ EndsWith(c.got, taken + n)
        BY <1>5, <1>7, Appended DEF Sound, InARow
      <4> QED
        BY <1>2, <1>5, <4>1 DEF InARow, Rising, EndsWith, CallType
    <3>4. OnWire(t)'
      BY <1>2, <1>3, <1>5 DEF Sound, OnWire, Frame, At, AtRead
    <3> QED
      BY <1>2, <2>1, <3>1, <3>2, <3>3, <3>4 DEF Sound
  <2>2. CASE u # t
    <3>1. call'[u] = call[u] /\ Sound(u) /\ call[u].got = <<>>
      BY <1>1, <1>2, <1>6, <2>2, NothingYet DEF CallsTyped
    <3>2. Holds(u)' /\ OnWire(u)'
      BY <1>3, <3>1 DEF Sound, Holds, Is, At, OnWire, Frame
    <3>3. InARow(u)'
      BY <3>1 DEF Sound, InARow, Rising, EndsWith
    <3> QED
      BY <3>1, <3>2, <3>3 DEF Sound
  <2> QED
    BY <2>1, <2>2
<1>9. DeviceTyped'
  BY <1>1, <1>3, <1>7 DEF DeviceTyped, Unlocking, Users, CallsTyped
<1>10. PortTyped'
  BY DEF Inv, PortTyped, faults
<1> QED
  BY <1>3, <1>4, <1>8, <1>9, <1>10 DEF Inv, Calls, Users

(* SerialImpl::read().                                                      *)
LEMMA ReadTakes ==
    ASSUME Inv, NEW t \in Users, ReadStarts(t) \/ ReadsAgain(t)
    PROVE  Inv'
<1>1. call[t] \in CallType /\ Fits(call[t]) /\ Measured(call[t]) /\ CallsTyped /\ DeviceTyped
  BY NothingYet DEF Inv, Calls
<1>2. call[t].at \in {"read", "again"} /\ call[t].at \in AtRead /\ call[t].at \notin Waiting
  BY DEF ReadStarts, ReadsAgain, At, AtRead, Waiting
<1>3. call[t].op \in Asked /\ call[t].op.kind \in Reading
  BY <1>1, <1>2 DEF Fits
<1>4. /\ call[t].op.size \in Nat
      /\ call[t].op.kind # "read" => call[t].op.size > 0
      /\ call[t].target \in Nat /\ Len(call[t].got) \in Nat
  BY <1>1, <1>3, AskedParts DEF Reading, CallType
<1>5. CASE Throws(t) /\ OnlyCall
  BY <1>2, <1>5, OnlyLeaving
<1>6. CASE ReadStarts(t) /\ port.open
  <2> DEFINE n == ReadOf(Wanted(t))
             goal == Len(call[t].got) + Wanted(t)
             c == [call[t] EXCEPT !.at = "check", !.late = FALSE, !.target = goal,
                                  !.got = call[t].got \o [i \in 1 .. n |-> taken + i]]
  <2>1. Wanted(t) \in Nat /\ Len(call[t].got) + Wanted(t) <= call[t].op.size
    <3>1. IF call[t].op.kind = "read" THEN call[t].got = <<>>
          ELSE Len(call[t].got) < call[t].op.size
      BY <1>1, <1>6 DEF ReadStarts, At, Measured
    <3>2. Wanted(t) = IF call[t].op.kind = "read" THEN call[t].op.size ELSE 1
      BY DEF Wanted, Is
    <3>3. call[t].got = <<>> => Len(call[t].got) = 0
      OBVIOUS
    <3> QED
      BY <1>4, <3>1, <3>2, <3>3
  <2>2. n \in Nat /\ n <= Wanted(t) /\ taken + n <= arrived /\ taken \in Nat
    BY <1>1, <2>1, ReadOfFits DEF DeviceTyped, CallsTyped
  <2>3. call' = [call EXCEPT ![t] = c] /\ taken' = taken + n
    BY <1>6 DEF ReadStarts
  <2> DEFINE more == [i \in 1 .. n |-> taken + i]
  <2>4. more \in Seq(Nat) /\ Len(more) = n
    BY <2>2
  <2>5. call[t].got \o more \in Seq(Nat) /\ Len(call[t].got \o more) = Len(call[t].got) + n
    <3>1. call[t].got \in Seq(Nat)
      BY <1>1 DEF CallType
    <3> HIDE DEF more, n
    <3> QED
      BY <2>2, <2>4, <3>1, Joined
  <2>6. /\ c \in CallType /\ c.got = call[t].got \o more /\ c.at = "check"
        /\ c.target = goal
    <3>1. goal \in Nat
      BY <1>4, <2>1
    <3> HIDE DEF goal, n
    <3>2. call[t].got \o more \in Seq(Nat)
      BY <2>5
    <3> HIDE DEF more
    <3>3. c = [call[t] EXCEPT !.at = "check", !.late = FALSE, !.target = goal,
                              !.got = call[t].got \o more]
      BY DEF more, n
    <3> HIDE DEF c
    <3> QED
      BY <1>1, <3>1, <3>2, <3>3 DEF CallType, Labels, AtRead
  <2>7. c.op = call[t].op /\ c.sent = call[t].sent /\ c.disturbed = call[t].disturbed
    BY <1>1 DEF CallType
  <2>8. Len(c.got) <= c.target /\ c.target <= c.op.size
    BY <1>4, <2>1, <2>2, <2>5, <2>6, <2>7
  <2>9. Unlocking /\ UNCHANGED <<port, descriptors, arrived, wire, faults>>
    BY <1>6 DEF ReadStarts
  <2>10. c.got = call[t].got \o [i \in 1 .. n |-> taken + i]
    BY <2>6
  <2> HIDE DEF c, n, more
  <2> QED
    BY <1>2, <2>2, <2>3, <2>6, <2>7, <2>8, <2>9, <2>10, Taking
<1>7. CASE ReadsAgain(t) /\ Takes(t, ReadOf(Missing(t)), "check")
  <2> DEFINE n == ReadOf(Missing(t))
             c == [call[t] EXCEPT !.at = "check",
                                  !.got = call[t].got \o [i \in 1 .. n |-> taken + i]]
  <2>1. Missing(t) \in Nat /\ call[t].target <= call[t].op.size
    BY <1>1, <1>4, <1>7 DEF Missing, ReadsAgain, At, Measured, AtRead
  <2>2. n \in Nat /\ n <= Missing(t) /\ taken + n <= arrived /\ taken \in Nat
    BY <1>1, <2>1, ReadOfFits DEF DeviceTyped, CallsTyped
  <2>3. call' = [call EXCEPT ![t] = c] /\ taken' = taken + n
    BY <1>7 DEF Takes
  <2> DEFINE more == [i \in 1 .. n |-> taken + i]
  <2>4. more \in Seq(Nat) /\ Len(more) = n
    BY <2>2
  <2>5. call[t].got \o more \in Seq(Nat) /\ Len(call[t].got \o more) = Len(call[t].got) + n
    <3>1. call[t].got \in Seq(Nat)
      BY <1>1 DEF CallType
    <3> HIDE DEF more, n
    <3> QED
      BY <2>2, <2>4, <3>1, Joined
  <2>6. /\ c \in CallType /\ c.got = call[t].got \o more /\ c.at = "check"
        /\ c.target = call[t].target
    BY <1>1, <2>5 DEF CallType, Labels, AtRead
  <2>7. c.op = call[t].op /\ c.sent = call[t].sent /\ c.disturbed = call[t].disturbed
    BY <1>1 DEF CallType
  <2>8. Len(c.got) <= c.target /\ c.target <= c.op.size
    BY <1>4, <2>1, <2>2, <2>5, <2>6, <2>7 DEF Missing
  <2>9. Unlocking /\ UNCHANGED <<port, descriptors, arrived, wire, faults>>
    BY <1>7 DEF Takes
  <2>10. c.got = call[t].got \o [i \in 1 .. n |-> taken + i]
    BY <2>6
  <2> HIDE DEF c, n, more
  <2> QED
    BY <1>2, <2>2, <2>3, <2>6, <2>7, <2>8, <2>9, <2>10, Taking
<1> QED
  BY <1>5, <1>6, <1>7 DEF ReadStarts, ReadsAgain

-----------------------------------------------------------------------------
(* SerialImpl::write().                                                     *)

(* A step of a write that changes nothing but the call.                     *)
LEMMA OnlyMoving ==
    ASSUME Inv, NEW t \in Users, NEW c \in CallType, call' = [call EXCEPT ![t] = c], OnlyCall,
           Fits(c), Measured(c), c.op = call[t].op, c.got = call[t].got, c.sent = call[t].sent,
           c.disturbed = call[t].disturbed, c.at \notin Waiting, call[t].at \notin Waiting
    PROVE  Inv'
<1>1. UNCHANGED <<scenario, readMutex, writeMutex, wire, calls, taken>>
  BY DEF OnlyCall, Unlocking, mutexes
<1>2. Calls'
  BY <1>1, Moves
<1>3. DeviceTyped' /\ PortTyped'
  BY DEF OnlyCall, Unlocking, faults, Inv, DeviceTyped, PortTyped, Users
<1> QED
  BY <1>2, <1>3 DEF Inv

(* What goes on before and after ::write() changes nothing but the call.    *)
LEMMA WriteWaits ==
    ASSUME Inv, NEW t \in Users, WriteStarts(t) \/ WriteChecks(t) \/ WriteSelects(t)
    PROVE  Inv'
<1>1. call[t].at \in AtWrite /\ OnlyCall /\ call[t].at \notin Waiting
  BY DEF WriteStarts, WriteChecks, WriteSelects, At, AtWrite, Waiting
<1>2. call[t] \in CallType /\ Fits(call[t]) /\ Measured(call[t])
  BY NothingYet
<1>3. CASE Returns(t) \/ Throws(t)
  BY <1>1, <1>3, OnlyLeaving
<1>4. ASSUME NEW c \in CallType, call' = [call EXCEPT ![t] = c], c.at \in AtWrite,
             c.op = call[t].op, c.got = call[t].got, c.sent = call[t].sent,
             c.disturbed = call[t].disturbed
      PROVE  Inv'
  <2>1. Fits(c) /\ Measured(c) /\ c.at \notin Waiting
    BY <1>1, <1>2, <1>4 DEF Fits, Measured, AtRead, AtWrite, Waiting
  <2> QED
    BY <1>1, <1>4, <2>1, OnlyMoving
<1>5. CASE WriteStarts(t) /\ port.open
  <2> DEFINE c == [call[t] EXCEPT !.at = "checkwrite", !.first = TRUE, !.late = FALSE]
  <2>1. call' = [call EXCEPT ![t] = c]
    BY <1>5 DEF WriteStarts
  <2>2. c \in CallType /\ c.at \in AtWrite /\ c.op = call[t].op /\ c.got = call[t].got
        /\ c.sent = call[t].sent /\ c.disturbed = call[t].disturbed
    BY <1>2 DEF CallType, Labels, AtWrite
  <2> HIDE DEF c
  <2> QED
    BY <1>4, <2>1, <2>2
<1>6. CASE WriteChecks(t) /\ ~IsWritten(call[t])
  <2> DEFINE endless == call[t].first /\ call[t].late
             c == [call[t] EXCEPT !.at = "selectwrite", !.first = FALSE, !.endless = endless]
  <2>1. call' = [call EXCEPT ![t] = c]
    BY <1>6 DEF WriteChecks
  <2>2. endless \in BOOLEAN
    OBVIOUS
  <2> HIDE DEF endless
  <2>3. c \in CallType /\ c.at \in AtWrite /\ c.op = call[t].op /\ c.got = call[t].got
        /\ c.sent = call[t].sent /\ c.disturbed = call[t].disturbed
    BY <1>2, <2>2 DEF CallType, Labels, AtWrite
  <2> HIDE DEF c
  <2> QED
    BY <1>4, <2>1, <2>3
<1>7. ASSUME NEW l \in AtWrite, Goes(t, l) PROVE Inv'
  <2> DEFINE c == [call[t] EXCEPT !.at = l]
  <2>1. call' = [call EXCEPT ![t] = c]
    BY <1>7 DEF Goes
  <2>2. c \in CallType /\ c.at \in AtWrite /\ c.op = call[t].op /\ c.got = call[t].got
        /\ c.sent = call[t].sent /\ c.disturbed = call[t].disturbed
    BY <1>2 DEF CallType, Labels, AtWrite
  <2> HIDE DEF c
  <2> QED
    BY <1>4, <2>1, <2>2
<1>8. CASE WriteSelects(t)
  BY <1>3, <1>7, <1>8 DEF WriteSelects, AtWrite
<1> QED
  BY <1>3, <1>5, <1>6, <1>8 DEF WriteStarts, WriteChecks

(* Frames on a wire are whole.                                              *)
Whole(w) ==
    \A i, j \in 1 .. Len(w) : i < j /\ w[i] = w[j] => \A k \in i .. j : w[k] = w[i]

(* A frame is the last on a wire, or not on it yet.                         *)
MayGrow(frame, w) ==
    \/ \A i \in 1 .. Len(w) : w[i] # frame
    \/ Len(w) > 0 /\ w[Len(w)] = frame

(* A wire with so many times the frame more on it.                          *)
GrownBy(new, old, n, frame) ==
    /\ Len(new) = Len(old) + n
    /\ \A i \in 1 .. Len(new) : new[i] = IF i <= Len(old) THEN old[i] ELSE frame

(* Then it stays whole when it grows.                                       *)
LEMMA Grows ==
    ASSUME NEW old, NEW new, NEW n \in Nat, NEW frame, Len(old) \in Nat, n > 0,
           GrownBy(new, old, n, frame), Whole(old), MayGrow(frame, old)
    PROVE  Whole(new)
<1>3. Len(new) = Len(old) + n /\ Len(old) \in Nat
  BY DEF GrownBy
<1>4. \A i \in 1 .. Len(new) : new[i] = IF i <= Len(old) THEN old[i] ELSE frame
  BY DEF GrownBy
<1>5. ASSUME NEW i \in 1 .. Len(new), NEW j \in 1 .. Len(new), i < j, new[i] = new[j],
             NEW k \in i .. j
      PROVE  new[k] = new[i]
  <2>1. CASE j <= Len(old)
    <3>1. i \in 1 .. Len(old) /\ j \in 1 .. Len(old) /\ old[i] = old[j]
      BY <1>3, <1>4, <1>5, <2>1
    <3>2. old[k] = old[i]
      BY <1>5, <3>1 DEF Whole
    <3> QED
      BY <1>3, <1>4, <1>5, <2>1, <3>2
  <2>2. CASE j > Len(old) /\ i > Len(old)
    BY <1>3, <1>4, <1>5, <2>2, SMTT(30)
  <2>3. CASE j > Len(old) /\ i <= Len(old)
    <3>1. i \in 1 .. Len(old) /\ old[i] = frame
      BY <1>3, <1>4, <1>5, <2>3
    <3>2. Len(old) > 0 /\ old[Len(old)] = frame /\ Len(old) \in 1 .. Len(old)
      BY <1>3, <3>1 DEF MayGrow
    <3>3. \A m \in i .. Len(old) : old[m] = frame
      <4>1. i = Len(old) \/ i < Len(old)
        BY <1>3, <3>1
      <4> QED
        BY <1>3, <3>1, <3>2, <4>1 DEF Whole
    <3> QED
      BY <1>3, <1>4, <1>5, <2>3, <3>1, <3>3
  <2> QED
    BY <1>3, <2>1, <2>2, <2>3
<1> QED
  BY <1>5 DEF Whole

(* ::write() takes some of what is left.                                    *)
LEMMA PutsKeeps ==
    ASSUME Inv, NEW t \in Users, Puts(t)
    PROVE  Inv'
<1>1. CallsTyped /\ DeviceTyped /\ WireSound /\ \A u \in Users : Sound(u)
  BY DEF Inv, Calls
<1>2. call[t] \in CallType /\ Fits(call[t]) /\ Measured(call[t]) /\ Sound(t)
  BY <1>1, NothingYet
<1>3. call[t].at = "put" /\ call[t].at \in AtWrite /\ call[t].at \notin Waiting
  BY DEF Puts, At, AtWrite, Waiting
<1>4. call[t].op \in Asked /\ call[t].op.kind = "write" /\ writeMutex = t /\ call[t].got = <<>>
  BY <1>2, <1>3 DEF Sound, Fits, Measured, Holds, Is, At, AtWrite, TakesWrite, Reading
<1>5. call[t].op.size \in Nat /\ call[t].sent \in Nat /\ call[t].sent <= call[t].op.size
  BY <1>2, <1>4, AskedParts DEF CallType, Measured
<1>6. CASE Throws(t) /\ OnlyCall
  BY <1>3, <1>6, OnlyLeaving
<1>7. CASE Goes(t, "checkwrite") /\ OnlyCall
  <2>1. "checkwrite" \in Labels \ Waiting
    BY DEF Labels, AtWrite, Waiting
  <2>2. Fits([call[t] EXCEPT !.at = "checkwrite"]) /\ Measured([call[t] EXCEPT !.at = "checkwrite"])
    BY <1>2, <1>3, <1>4 DEF Fits, Measured, CallType, AtRead, AtWrite
  <2> QED
    BY <1>3, <1>7, <2>1, <2>2, OnlyGoing
<1>8. ASSUME NEW n \in 1 .. call[t].op.size - call[t].sent,
             call' = [call EXCEPT ![t].at = "checkwrite", ![t].sent = @ + n],
             wire' = wire \o [i \in 1 .. n |-> <<t, calls[t]>>],
             Unlocking /\ UNCHANGED <<port, descriptors, arrived, taken, faults>>
      PROVE  Inv'
  <2> DEFINE c == [call[t] EXCEPT !.at = "checkwrite", !.sent = call[t].sent + n]
             frame == <<t, calls[t]>>
  <2>1. call' = [call EXCEPT ![t] = c]
    BY <1>8
  <2>2. call[t].sent + n \in Nat /\ call[t].sent + n <= call[t].op.size /\ n \in Nat /\ n > 0
        /\ call[t].sent + n # 0
    BY <1>5, <1>8, SMTT(30)
  <2>3. /\ c \in CallType /\ c.at = "checkwrite" /\ c.sent = call[t].sent + n
        /\ c.op = call[t].op /\ c.got = call[t].got /\ c.disturbed = call[t].disturbed
    BY <1>2, <2>2 DEF CallType, Labels, AtWrite
  <2> HIDE DEF c
  <2>4. Fits(c) /\ Measured(c)
    BY <1>2, <1>4, <2>2, <2>3 DEF Fits, Measured, AtRead, AtWrite, Reading
  <2>5. UNCHANGED <<scenario, readMutex, writeMutex, calls>>
    BY <1>8 DEF Unlocking, mutexes
  <2>6. wire \in Seq(Users \X Nat) /\ frame \in Users \X Nat
    BY <1>1 DEF DeviceTyped, CallsTyped
  <2>7. Len(wire) \in Nat /\ DOMAIN wire = 1 .. Len(wire) /\ (wire # <<>> => Len(wire) > 0)
    BY <2>6
  <2>8. Whole(wire)
    BY <1>1, <2>7 DEF WireSound, FramesWhole, Whole
  <2>9. MayGrow(frame, wire)
    BY <1>2, <1>3, <2>7 DEF Sound, OnWire, Frame, At, MayGrow
  <2> HIDE DEF frame
  <2>10. wire' = wire \o [i \in 1 .. n |-> frame]
    BY <1>8 DEF frame
  <2> DEFINE new == wire'
  <2>11. new = wire \o [i \in 1 .. n |-> frame]
    BY <2>10
  <2> HIDE DEF new
  <2>12. /\ Whole(new) /\ new \in Seq(Users \X Nat) /\ Len(new) = Len(wire) + n
         /\ \A i \in 1 .. Len(new) : new[i] = IF i <= Len(wire) THEN wire[i] ELSE frame
    <3> DEFINE S == Users \X Nat
               more == [i \in 1 .. n |-> frame]
    <3>1. more \in Seq(S) /\ Len(more) = n /\ \A i \in 1 .. n : more[i] = frame
      BY <2>2, <2>6
    <3>2. wire \in Seq(S) /\ new = wire \o more
      BY <2>6, <2>11
    <3> HIDE DEF S, more
    <3>3. new \in Seq(S) /\ Len(new) = Len(wire) + n
      BY <2>2, <3>1, <3>2, Joined
    <3>4. \A i \in 1 .. Len(new) : new[i] = IF i <= Len(wire) THEN wire[i] ELSE frame
      BY <2>2, <2>7, <3>1, <3>2, <3>3
    <3>5. GrownBy(new, wire, n, frame)
      BY <3>3, <3>4 DEF GrownBy
    <3>6. Whole(new)
      BY <2>2, <2>7, <2>8, <2>9, <3>5, Grows
    <3> QED
      BY <3>3, <3>4, <3>6 DEF S
  <2>13. DOMAIN new = 1 .. Len(new) /\ Len(new) > 0 /\ new[Len(new)] = frame /\ new # <<>>
    BY <2>2, <2>7, <2>12
  <2>14. \A i \in DOMAIN new : new[i] = frame \/ (i \in DOMAIN wire /\ new[i] = wire[i])
    BY <2>7, <2>12, <2>13
  <2>15. WireSound'
    <3>1. \A i \in DOMAIN new : new[i][2] <= calls[new[i][1]]
      BY <1>1, <2>14 DEF WireSound, frame, CallsTyped
    <3> QED
      BY <2>5, <2>12, <2>13, <3>1 DEF WireSound, FramesWhole, Whole, new
  <2>16. call \in [Users -> CallType] /\ call'[t] = c /\ \A u \in Users : u # t => call'[u] = call[u]
    BY <1>1, <2>1 DEF CallsTyped
  <2>17. CallsTyped'
    BY <1>1, <2>1, <2>3, <2>5 DEF CallsTyped, Users
  <2>18. ASSUME NEW u \in Users PROVE Sound(u)'
    <3>1. CASE u = t
      <4>1. Holds(t)'
        BY <1>2, <1>3, <2>3, <2>5, <2>16 DEF Sound, Holds, Is, At
      <4>2. InARow(t)'
        BY <1>4, <1>8, <2>3, <2>16 DEF InARow, Rising, EndsWith
      <4>3. OnWire(t)'
        BY <2>2, <2>3, <2>5, <2>13, <2>16 DEF OnWire, Frame, new, frame
      <4> QED
        BY <2>4, <2>16, <3>1, <4>1, <4>2, <4>3 DEF Sound
    <3>2. CASE u # t
      <4>1. call'[u] = call[u] /\ Sound(u) /\ call[u].sent = 0 /\ calls'[u] = calls[u]
        BY <1>1, <1>4, <2>5, <2>16, <3>2, NothingYet
      <4>2. Holds(u)' /\ InARow(u)'
        BY <1>8, <2>5, <4>1 DEF Sound, Holds, Is, At, InARow, Rising, EndsWith
      <4>3. \A i \in DOMAIN new : new[i] = <<u, calls[u]>> => i \in DOMAIN wire /\ wire[i] = new[i]
        BY <2>14, <3>2 DEF frame
      <4>4. OnWire(u)'
        BY <4>1, <4>3 DEF Sound, OnWire, Frame, At, new
      <4> QED
        BY <4>1, <4>2, <4>4 DEF Sound
    <3> QED
      BY <3>1, <3>2
  <2>19. DeviceTyped'
    BY <1>1, <1>8, <2>5, <2>12 DEF DeviceTyped, Unlocking, Users, new
  <2>20. PortTyped'
    BY <1>8 DEF Inv, PortTyped, faults
  <2> QED
    BY <2>5, <2>15, <2>17, <2>18, <2>19, <2>20 DEF Inv, Calls, Users
<1> QED
  BY <1>6, <1>7, <1>8 DEF Puts

-----------------------------------------------------------------------------
(* Flushing, the lines, opening and closing.                                *)

(* Dropping what has arrived takes the read mutex, and has read nothing.    *)
LEMMA FlushKeeps == ASSUME Inv, NEW t \in Users, Flush(t) PROVE Inv'
<1>1. CallsTyped /\ DeviceTyped /\ WireSound /\ \A u \in Users : Sound(u)
  BY DEF Inv, Calls
<1>2. call[t] \in CallType /\ Fits(call[t]) /\ Measured(call[t]) /\ Sound(t)
  BY <1>1, NothingYet
<1>3. call[t].at = "flush" /\ call[t].at \notin Waiting /\ (Goes(t, "leave") \/ Throws(t))
  BY DEF Flush, At, Waiting, Returns
<1>4. taken' = taken \/ (taken' = arrived /\ call[t].op.kind = "flushInput")
  BY DEF Flush, Is
<1>5. taken' = taken \/ (readMutex = t /\ call[t].got = <<>>)
  BY <1>2, <1>3, <1>4 DEF Sound, Holds, Is, At, TakesRead, Measured, Reading
<1>6. UNCHANGED <<scenario, readMutex, writeMutex, wire, calls>>
  BY DEF Flush, Unlocking, mutexes
<1>7. "leave" \in Labels \ Waiting
  BY DEF Labels, Waiting
<1>8. Calls'
  BY <1>3, <1>5, <1>6, <1>7, MayLeave, Going
<1>9. DeviceTyped'
  <2>1. arrived \in Nat /\ taken \in 0 .. arrived
    BY <1>1 DEF DeviceTyped, CallsTyped
  <2> QED
    BY <1>1, <1>4, <1>6, <2>1 DEF Flush, Unlocking, DeviceTyped, Users
<1>10. PortTyped'
  BY DEF Flush, Inv, PortTyped, faults
<1> QED
  BY <1>8, <1>9, <1>10 DEF Inv

(* setBreak(), setRTS() and the other lines only throw or return.           *)
LEMMA LineKeeps == ASSUME Inv, NEW t \in Users, Line(t) PROVE Inv'
<1>1. call[t].at \notin Waiting /\ OnlyCall /\ (Throws(t) \/ Returns(t))
  BY DEF Line, At, Waiting
<1> QED
  BY <1>1, OnlyLeaving

(* What a call that changes the port is at.                                 *)
Controls == {"open", "configure", "set", "close", "noFd", "closed", "reopen", "rename"}

(* A step of such a call that leaves the device alone.                      *)
LEMMA Controlling ==
    ASSUME Inv, NEW t \in Users, NEW l \in Controls \cup {"leave"}, call[t].at \in Controls,
           Goes(t, l) \/ (l = "leave" /\ Throws(t)),
           l \in {"open", "reopen", "rename"} => call[t].op.kind \in {"setPort"},
           l \in {"close", "noFd", "closed"} => call[t].op.kind \in {"close", "setPort"},
           l = "configure" => call[t].op.kind \in {"open", "setPort", "set"},
           l # "set", Unlocking, UNCHANGED <<arrived, taken, wire>>
    PROVE  Calls' /\ DeviceTyped'
<1>1. call[t] \in CallType /\ Fits(call[t]) /\ Measured(call[t])
  BY NothingYet
<1>2. l \in Labels \ Waiting /\ call[t].at \notin Waiting
  BY DEF Labels, Waiting, Controls
<1>3. Fits([call[t] EXCEPT !.at = l]) /\ Measured([call[t] EXCEPT !.at = l])
  BY <1>1 DEF Fits, Measured, CallType, AtRead, AtWrite, Controls
<1>4. UNCHANGED <<scenario, readMutex, writeMutex, wire, calls, taken>>
  BY DEF Unlocking, mutexes
<1>5. Calls'
  BY <1>2, <1>3, <1>4, Going
<1>6. DeviceTyped'
  BY DEF Inv, DeviceTyped, Unlocking, Users
<1> QED
  BY <1>5, <1>6

(* The least descriptor that is free.                                       *)
LEMMA FreeFd ==
    ASSUME PortTyped
    PROVE  LeastFd \in Nat \ {0} /\ LeastFd \notin DOMAIN descriptors
<1> DEFINE n == Cardinality(DOMAIN descriptors)
           free == (1 .. n + 1) \ DOMAIN descriptors
<1>1. IsFiniteSet(DOMAIN descriptors) /\ n \in Nat
  BY FS_CardinalityType DEF PortTyped
<1>2. free # {}
  <2>1. SUFFICES ASSUME 1 .. n + 1 \subseteq DOMAIN descriptors PROVE FALSE
    OBVIOUS
  <2>2. Cardinality(1 .. n + 1) = n + 1
    BY <1>1, FS_Interval
  <2>3. Cardinality(1 .. n + 1) <= n
    BY <1>1, <2>1, FS_Subset
  <2> QED
    BY <1>1, <2>2, <2>3
<1>3. free \subseteq Nat
  BY <1>1
<1> HIDE DEF free
<1>4. \E x \in free : \A y \in free : x <= y
  <2>1. IsWellFoundedOn(OpToRel(<, Nat), Nat)
    BY NatLessThanWellFounded
  <2>2. PICK x \in free : \A y \in free : ~(<<y, x>> \in OpToRel(<, Nat))
    BY <1>2, <1>3, <2>1, WFMin
  <2>3. \A y \in free : ~(y < x)
    BY <1>3, <2>2 DEF OpToRel
  <2> QED
    BY <1>3, <2>3
<1>5. LeastFd \in free
  BY <1>4 DEF LeastFd, Min, free
<1> QED
  BY <1>1, <1>5 DEF free

(* open() takes a descriptor that is free.                                  *)
LEMMA OpenKeeps == ASSUME Inv, NEW t \in Users, Open(t) PROVE Inv'
<1>1. call[t] \in CallType /\ Fits(call[t]) /\ call[t].at = "open" /\ PortTyped
  BY NothingYet DEF Open, At, Inv
<1>2. call[t].op.kind \in {"open", "setPort"} /\ call[t].at \in Controls
  BY <1>1 DEF Fits, Controls
<1>3. CASE Throws(t) /\ OnlyCall
  <2>1. call[t].at \notin Waiting
    BY <1>1 DEF Waiting
  <2> QED
    BY <1>3, <2>1, OnlyLeaving
<1>4. CASE /\ Throws(t) /\ port' = [port EXCEPT !.fd = NoFd]
           /\ Unlocking /\ UNCHANGED <<descriptors, arrived, taken, wire, faults>>
  <2>1. Calls' /\ DeviceTyped'
    BY <1>2, <1>4, Controlling DEF Controls
  <2>2. PortTyped'
    BY <1>1, <1>4 DEF PortTyped, faults
  <2> QED
    BY <2>1, <2>2 DEF Inv
<1>5. CASE /\ port' = [port EXCEPT !.fd = LeastFd]
           /\ descriptors' = [fd \in DOMAIN descriptors \cup {LeastFd} |->
                                IF fd = LeastFd THEN [settings |-> "none", alive |-> TRUE]
                                ELSE descriptors[fd]]
           /\ Goes(t, "configure")
           /\ Unlocking /\ UNCHANGED <<arrived, taken, wire, faults>>
  <2>1. Calls' /\ DeviceTyped'
    BY <1>2, <1>5, Controlling DEF Controls
  <2>2. LeastFd \in Nat \ {0}
    BY <1>1, FreeFd
  <2>3. DOMAIN descriptors' = DOMAIN descriptors \cup {LeastFd}
    BY <1>5
  <2>4. IsFiniteSet(DOMAIN descriptors)'
    BY <1>1, <2>3, FS_AddElement DEF PortTyped
  <2>5. port' \in [name : {"there", "elsewhere"}, open : BOOLEAN, settings : Settings,
                   fd : {NoFd} \cup (Nat \ {0})]
    BY <1>1, <1>5, <2>2 DEF PortTyped
  <2>6. descriptors' \in [DOMAIN descriptors' -> [settings : Settings \cup {"none"}, alive : BOOLEAN]]
    BY <1>1, <1>5, <2>3 DEF PortTyped
  <2> QED
    BY <1>1, <1>5, <2>1, <2>2, <2>3, <2>4, <2>5, <2>6 DEF Inv, PortTyped, faults
<1> QED
  BY <1>3, <1>4, <1>5 DEF Open

(* reconfigurePort() sets up the descriptor, or throws.                     *)
LEMMA ConfigureKeeps == ASSUME Inv, NEW t \in Users, Configure(t) PROVE Inv'
<1>1. call[t] \in CallType /\ Fits(call[t]) /\ call[t].at = "configure" /\ PortTyped
  BY NothingYet DEF Configure, At, Inv
<1>2. call[t].op.kind \in {"open", "setPort", "set"} /\ call[t].at \in Controls
  BY <1>1 DEF Fits, Controls
<1>3. Calls' /\ DeviceTyped'
  <2>1. /\ Goes(t, "leave") \/ Throws(t)
        /\ Unlocking /\ UNCHANGED <<arrived, taken, wire>>
    BY DEF Configure, NotConfigured, Returns
  <2> QED
    BY <1>2, <2>1, Controlling DEF Controls
<1>4. \/ descriptors' = descriptors
      \/ descriptors' = [descriptors EXCEPT ![port.fd].settings = port.settings]
  BY DEF Configure
<1>5. descriptors' \in [DOMAIN descriptors -> [settings : Settings \cup {"none"}, alive : BOOLEAN]]
  BY <1>1, <1>4 DEF PortTyped
<1>6. port' = port \/ port' = [port EXCEPT !.open = port.open \/ Opening(t)]
  BY DEF Configure, NotConfigured
<1>7. Opening(t) \in BOOLEAN
  BY DEF Opening, Is
<1>8. port' \in [name : {"there", "elsewhere"}, open : BOOLEAN, settings : Settings,
                 fd : {NoFd} \cup (Nat \ {0})]
  BY <1>1, <1>6, <1>7 DEF PortTyped
<1>9. leaks' \in Nat
  BY <1>1 DEF Configure, NotConfigured, faults, PortTyped
<1>10. failed' \in BOOLEAN
  BY <1>1, <1>7 DEF Configure, NotConfigured, faults, PortTyped
<1>11. DOMAIN descriptors' = DOMAIN descriptors
  BY <1>5
<1> QED
  BY <1>1, <1>3, <1>5, <1>8, <1>9, <1>10, <1>11 DEF Inv, PortTyped

(* A setting is stored before it is applied.                                *)
LEMMA SetKeeps == ASSUME Inv, NEW t \in Users, Set(t) PROVE Inv'
<1>1. call[t] \in CallType /\ Fits(call[t]) /\ call[t].at = "set" /\ PortTyped
  BY NothingYet DEF Set, At, Inv
<1>2. call[t].op \in Asked /\ call[t].op.kind = "set" /\ call[t].at \in Controls
  BY <1>1 DEF Fits, Controls
<1>3. Calls' /\ DeviceTyped'
  <2>1. Goes(t, "leave") \/ Goes(t, "configure")
    BY DEF Set, AppliesSettings, Returns
  <2>2. Unlocking /\ UNCHANGED <<arrived, taken, wire>>
    BY DEF Set
  <2> QED
    BY <1>2, <2>1, <2>2, Controlling DEF Controls
<1>4. call[t].op.settings \in Settings
  BY <1>2, AskedParts
<1>5. PortTyped'
  BY <1>1, <1>4 DEF Set, PortTyped, faults
<1> QED
  BY <1>3, <1>5 DEF Inv

(* fd_ = -1, is_open_ = false, and a new name.                              *)
LEMMA PortKeeps ==
    ASSUME Inv, NEW t \in Users, ForgetsFd(t) \/ IsClosed(t) \/ Reopens(t) \/ Renames(t)
    PROVE  Inv'
<1>1. call[t] \in CallType /\ Fits(call[t]) /\ PortTyped
      /\ call[t].at \in {"noFd", "closed", "reopen", "rename"}
  BY NothingYet DEF ForgetsFd, IsClosed, Reopens, Renames, At, Inv
<1>2. /\ call[t].at \in {"noFd", "closed"} => call[t].op.kind \in {"close", "setPort"}
      /\ call[t].at \in {"reopen", "rename"} => call[t].op.kind = "setPort" /\ call[t].op \in Asked
      /\ call[t].at \in Controls
  BY <1>1 DEF Fits, Controls
<1>3. Unlocking /\ UNCHANGED <<descriptors, arrived, taken, wire, faults>>
  BY DEF ForgetsFd, IsClosed, Reopens, Renames, OnlyCall
<1>4. Calls' /\ DeviceTyped'
  <2>1. CASE Goes(t, "closed") /\ call[t].at = "noFd"
    BY <1>2, <1>3, <2>1, Controlling DEF Controls
  <2>2. CASE Goes(t, "close") /\ call[t].at = "reopen"
    BY <1>2, <1>3, <2>2, Controlling DEF Controls
  <2>3. CASE Goes(t, "open") /\ call[t].at = "rename"
    BY <1>2, <1>3, <2>3, Controlling DEF Controls
  <2>4. CASE Goes(t, "rename") /\ Is(t, {"setPort"})
    BY <1>2, <1>3, <2>4, Controlling DEF Controls, Is
  <2>5. CASE Goes(t, "leave")
    BY <1>2, <1>3, <2>5, Controlling DEF Controls
  <2> QED
    BY <2>1, <2>2, <2>3, <2>4, <2>5
       DEF ForgetsFd, IsClosed, Reopens, Renames, AfterClose, At, Returns
<1>5. PortTyped'
  <2>1. CASE port' = port
    BY <1>1, <1>3, <2>1 DEF PortTyped, faults
  <2>2. CASE port' = [port EXCEPT !.fd = NoFd]
    BY <1>1, <1>3, <2>2 DEF PortTyped, faults
  <2>3. CASE port' = [port EXCEPT !.open = FALSE]
    BY <1>1, <1>3, <2>3 DEF PortTyped, faults
  <2>4. CASE Renames(t)
    <3>1. call[t].op.name \in {"there", "elsewhere"}
      BY <1>1, <1>2, <2>4, AskedParts DEF Renames, At
    <3> QED
      BY <1>1, <1>3, <2>4, <3>1 DEF Renames, PortTyped, faults
  <2> QED
    BY <2>1, <2>2, <2>3, <2>4 DEF ForgetsFd, IsClosed, Reopens, OnlyCall
<1> QED
  BY <1>4, <1>5 DEF Inv

(* close() disturbs the others, and has itself read nothing.                *)
LEMMA CloseKeeps == ASSUME Inv, NEW t \in Users, Close(t) PROVE Inv'
<1>1. CallsTyped /\ DeviceTyped /\ WireSound /\ PortTyped /\ \A u \in Users : Sound(u)
  BY DEF Inv, Calls
<1>2. call[t] \in CallType /\ Fits(call[t]) /\ Measured(call[t]) /\ call[t].at = "close"
  BY NothingYet DEF Close, At
<1>3. call[t].op.kind \in {"close", "setPort"} /\ call[t].at \in Controls
      /\ call[t].got = <<>>
  BY <1>2 DEF Fits, Measured, Reading, Controls
<1>4. CASE OnlyCall /\ (Goes(t, AfterClose(t)) \/ Goes(t, "closed"))
  <2>1. Calls' /\ DeviceTyped'
    <3>1. Goes(t, "closed") \/ (Goes(t, "rename") /\ Is(t, {"setPort"})) \/ Goes(t, "leave")
      BY <1>4 DEF AfterClose
    <3>2. Unlocking /\ UNCHANGED <<arrived, taken, wire>>
      BY <1>4 DEF OnlyCall
    <3> QED
      BY <1>3, <3>1, <3>2, Controlling DEF Controls, Is
  <2>2. PortTyped'
    BY <1>1, <1>4 DEF OnlyCall, PortTyped, faults
  <2> QED
    BY <2>1, <2>2 DEF Inv
<1>5. ASSUME NEW ok \in {IsValid(port.fd), FALSE}, descriptors' = Closed(port.fd),
             taken' = (IF IsAlive(port.fd) THEN arrived ELSE taken),
             call' = [u \in Threads |->
                        IF u # t THEN [call[u] EXCEPT !.disturbed = TRUE]
                        ELSE [call[u] EXCEPT !.at = IF ok THEN "noFd" ELSE "leave",
                                             !.threw = ~ok]],
             failed' = (failed \/ ~ok),
             Unlocking /\ UNCHANGED <<port, arrived, wire, leaks>>
      PROVE  Inv'
  <2>1. ok \in BOOLEAN /\ Threads = Users
    <3>1. IsValid(port.fd) \in BOOLEAN
      BY DEF IsValid
    <3>2. ok \in BOOLEAN
      BY <1>5, <3>1, Zenon
    <3> QED
      BY <1>1, <3>2 DEF CallsTyped, Threads
  <2>2. UNCHANGED <<scenario, readMutex, writeMutex, calls, wire>>
    BY <1>5 DEF Unlocking, mutexes
  <2> DEFINE to == IF ok THEN "noFd" ELSE "leave"
             c == [call[t] EXCEPT !.at = to, !.threw = ~ok]
  <2>3. call' = [u \in Users |-> IF u # t THEN [call[u] EXCEPT !.disturbed = TRUE] ELSE c]
    BY <1>5, <2>1
  <2>4. to \in {"noFd", "leave"}
    OBVIOUS
  <2> HIDE DEF to
  <2>5. /\ c \in CallType /\ c.at = to /\ c.op = call[t].op /\ c.got = call[t].got
        /\ c.sent = call[t].sent /\ c.target = call[t].target /\ c.disturbed = call[t].disturbed
    <3>1. to \in Labels
      BY <2>4 DEF Labels
    <3> DEFINE threw == ~ok
    <3>2. threw \in BOOLEAN /\ c = [call[t] EXCEPT !.at = to, !.threw = threw]
      BY <2>1
    <3> HIDE DEF threw, c
    <3> QED
      BY <1>2, <3>1, <3>2 DEF CallType
  <2> HIDE DEF c
  <2>6. Fits(c) /\ Measured(c)
    BY <1>2, <1>3, <2>4, <2>5 DEF Fits, Measured, AtRead, AtWrite
  <2>7. ASSUME NEW u \in Users, u # t
        PROVE  /\ call'[u] \in CallType /\ call'[u].disturbed
               /\ call'[u].at = call[u].at /\ call'[u].op = call[u].op /\ call'[u].got = call[u].got
               /\ call'[u].sent = call[u].sent /\ call'[u].target = call[u].target
    <3>1. call[u] \in CallType /\ call'[u] = [call[u] EXCEPT !.disturbed = TRUE]
      BY <1>1, <2>3, <2>7 DEF CallsTyped
    <3> QED
      BY <3>1 DEF CallType
  <2>8. call'[t] = c
    BY <2>3
  <2>9. CallsTyped'
    <3>1. call' \in [Users -> CallType]
      BY <2>3, <2>5, <2>7, <2>8
    <3> QED
      BY <1>1, <2>2, <3>1 DEF CallsTyped, Users
  <2>10. WireSound'
    BY <1>1, <2>2 DEF WireSound, FramesWhole
  <2>11. ASSUME NEW u \in Users PROVE Sound(u)'
    <3>1. CASE u = t
      <4>1. Holds(t)' /\ OnWire(t)'
        BY <1>1, <1>2, <2>2, <2>4, <2>5, <2>8 DEF Sound, Holds, OnWire, Is, At, Frame
      <4>2. InARow(t)'
        BY <1>3, <2>5, <2>8 DEF InARow, Rising, EndsWith
      <4> QED
        BY <2>6, <2>8, <3>1, <4>1, <4>2 DEF Sound
    <3>2. CASE u # t
      <4>1. Sound(u) /\ Fits(call[u]) /\ Measured(call[u])
        BY <1>1, NothingYet
      <4>2. Fits(call'[u]) /\ Measured(call'[u])
        BY <2>7, <3>2, <4>1 DEF Fits, Measured
      <4>3. Holds(u)' /\ OnWire(u)' /\ InARow(u)'
        BY <2>2, <2>7, <3>2, <4>1 DEF Sound, Holds, OnWire, InARow, Is, At, Frame
      <4> QED
        BY <4>2, <4>3 DEF Sound
    <3> QED
      BY <3>1, <3>2
  <2>12. DeviceTyped'
    <3>1. arrived \in Nat /\ taken \in 0 .. arrived
      BY <1>1 DEF DeviceTyped, CallsTyped
    <3>2. taken' = arrived \/ taken' = taken
      BY <1>5
    <3>3. arrived' = arrived /\ UNCHANGED <<plugged, unplugs>>
      BY <1>5 DEF Unlocking
    <3> QED
      BY <1>1, <2>2, <3>1, <3>2, <3>3 DEF DeviceTyped, Users
  <2>13. PortTyped'
    <3>1. DOMAIN descriptors' = DOMAIN descriptors \ {port.fd}
          /\ \A fd \in DOMAIN descriptors' : descriptors'[fd] = descriptors[fd]
      BY <1>5 DEF Closed, Restrict
    <3>2. IsFiniteSet(DOMAIN descriptors')
      BY <1>1, <3>1, FS_RemoveElement DEF PortTyped
    <3>3. descriptors' \in [DOMAIN descriptors' -> [settings : Settings \cup {"none"}, alive : BOOLEAN]]
      <4>1. descriptors' = [fd \in DOMAIN descriptors' |-> descriptors[fd]]
        BY <1>5, <3>1 DEF Closed, Restrict
      <4> QED
        BY <1>1, <3>1, <4>1 DEF PortTyped
    <3>4. failed' \in BOOLEAN
      BY <1>1, <1>5, <2>1 DEF PortTyped
    <3> QED
      BY <1>1, <1>5, <3>1, <3>2, <3>3, <3>4 DEF PortTyped
  <2> QED
    BY <2>2, <2>9, <2>10, <2>11, <2>12, <2>13 DEF Inv, Calls, Users
<1> QED
  BY <1>4, <1>5 DEF Close

-----------------------------------------------------------------------------
(* Calls begin, take their mutexes, and give them back.                     *)

(* A call before it has read or written.                                    *)
LEMMA Taken ==
    ASSUME Inv, NEW t \in Users, NEW l \in Labels, call[t].at \in {"readlock", "writelock"},
           call' = [call EXCEPT ![t].at = l],
           IF call[t].at = "readlock" /\ Is(t, TakesWrite) THEN l = "writelock"
           ELSE l = Body(call[t].op.kind),
           call[t].at = "readlock" => readMutex = Nobody /\ readMutex' = t /\ writeMutex' = writeMutex,
           call[t].at = "writelock" => writeMutex = Nobody /\ writeMutex' = t /\ readMutex' = readMutex,
           UNCHANGED <<scenario, port, descriptors, device, calls, faults>>
    PROVE  Inv'
<1>1. CallsTyped /\ DeviceTyped /\ WireSound /\ PortTyped /\ \A u \in Users : Sound(u)
  BY DEF Inv, Calls
<1>2. call[t] \in CallType /\ Fits(call[t]) /\ Measured(call[t]) /\ Sound(t)
  BY <1>1, NothingYet
<1>3. call[t].op \in Asked /\ call[t].got = <<>> /\ call[t].sent = 0
  BY <1>2 DEF Fits
<1>4. IF call[t].at = "readlock" THEN call[t].op.kind \in TakesRead ELSE call[t].op.kind \in TakesWrite
  BY <1>2 DEF Fits
<1> DEFINE c == [call[t] EXCEPT !.at = l]
<1>5. call' = [call EXCEPT ![t] = c]
  OBVIOUS
<1>6. /\ c \in CallType /\ c.at = l /\ c.op = call[t].op /\ c.got = <<>> /\ c.sent = 0
      /\ c.target = call[t].target /\ c.disturbed = call[t].disturbed
  BY <1>2, <1>3 DEF CallType
<1> HIDE DEF c
<1>7. call \in [Users -> CallType] /\ call'[t] = c /\ \A u \in Users : u # t => call'[u] = call[u]
  BY <1>1, <1>5 DEF CallsTyped
<1>8. CallsTyped'
  BY <1>1, <1>5, <1>6, ZenonT(30) DEF CallsTyped, Users
<1>9. WireSound' /\ UNCHANGED <<scenario, taken, wire, calls>>
  BY <1>1 DEF WireSound, FramesWhole, device
<1>10. \/ l = "writelock" /\ call[t].op.kind \in TakesWrite
       \/ l = "read" /\ call[t].op.kind \in Reading
       \/ l = "write" /\ call[t].op.kind = "write"
       \/ l = "reopen" /\ call[t].op.kind = "setPort"
       \/ l = "flush" /\ call[t].op.kind \in Flushes
  BY <1>4 DEF Body, Is, TakesRead, TakesWrite, Reading, Flushes
<1>11. Fits(c)
  BY <1>3, <1>6, <1>10 DEF Fits, AtRead, AtWrite, Flushes
<1>12. Measured(c)
  <2>1. c.op.kind \in Reading => c.op.size \in Nat /\ (c.op.kind # "read" => c.op.size > 0)
    BY <1>3, <1>6, AskedParts DEF Reading
  <2>2. c.op.kind = "write" => c.op.size \in Nat
    BY <1>3, <1>6, AskedParts
  <2>3. Len(c.got) = 0
    BY <1>6
  <2> QED
    BY <1>6, <1>10, <2>1, <2>2, <2>3 DEF Measured, AtRead
<1>13. Nobody # t
  BY <1>1 DEF CallsTyped, Users
<1>14. ASSUME NEW u \in Users PROVE Sound(u)'
  <2>1. CASE u = t
    <3>1. Holds(t)'
      <4>1. CASE call[t].at = "readlock"
        <5>1. call[t].op.kind \in TakesRead /\ readMutex' = t /\ writeMutex' = writeMutex
              /\ writeMutex # t /\ l # "readlock"
          BY <1>2, <1>4, <1>10, <4>1 DEF Sound, Holds, At
        <5>2. l = "writelock" <=> call[t].op.kind \in TakesWrite
          BY <1>4, <1>10, <4>1 DEF Is, TakesRead, TakesWrite, Reading
        <5> QED
          BY <1>6, <1>7, <5>1, <5>2 DEF Holds, Is, At
      <4>2. CASE call[t].at = "writelock"
        <5>1. /\ call[t].op.kind \in TakesWrite /\ writeMutex' = t /\ readMutex' = readMutex
              /\ readMutex = t <=> call[t].op.kind \in TakesRead
          BY <1>2, <1>4, <4>2 DEF Sound, Holds, Is, At
        <5>2. l # "readlock" /\ l # "writelock"
          BY <1>4, <1>10, <4>2 DEF Body, Is, TakesWrite
        <5> QED
          BY <1>6, <1>7, <5>1, <5>2 DEF Holds, Is, At
      <4> QED
        BY <4>1, <4>2
    <3>2. InARow(t)' /\ OnWire(t)'
      BY <1>2, <1>6, <1>7, <1>9, <1>3 DEF Sound, InARow, Rising, EndsWith, OnWire, Frame, At
    <3> QED
      BY <1>7, <1>11, <1>12, <2>1, <3>1, <3>2 DEF Sound
  <2>2. CASE u # t
    <3>1. Sound(u) /\ call'[u] = call[u] /\ Nobody # u
      BY <1>1, <1>7, <2>2 DEF CallsTyped, Users
    <3>2. Holds(u)'
      BY <2>2, <3>1 DEF Sound, Holds, Is, At
    <3>3. InARow(u)' /\ OnWire(u)'
      BY <1>9, <3>1 DEF Sound, InARow, Rising, EndsWith, OnWire, Frame, At
    <3> QED
      BY <3>1, <3>2, <3>3 DEF Sound
  <2> QED
    BY <2>1, <2>2
<1>15. DeviceTyped' /\ PortTyped'
  BY <1>1, <1>9 DEF DeviceTyped, PortTyped, device, faults, Users
<1> QED
  BY <1>8, <1>9, <1>14, <1>15 DEF Inv, Calls, Users

(* A mutex is taken by one call at a time.                                  *)
LEMMA LockKeeps == ASSUME Inv, NEW t \in Users, ReadLock(t) \/ WriteLock(t) PROVE Inv'
<1>1. call[t] \in CallType /\ Fits(call[t]) /\ call[t].at \in {"readlock", "writelock"}
  BY NothingYet DEF ReadLock, WriteLock, At
<1>2. call[t].op.kind \in TakesRead \cup TakesWrite
  BY <1>1 DEF Fits
<1>3. Body(call[t].op.kind) \in Labels /\ "writelock" \in Labels
  BY <1>2 DEF Body, TakesRead, TakesWrite, Reading, Labels, AtRead, AtWrite
<1>4. CASE ReadLock(t)
  BY <1>3, <1>4, Taken DEF ReadLock, TakesReadMutex, Goes, At
<1>5. CASE WriteLock(t)
  BY <1>3, <1>5, Taken DEF WriteLock, TakesWriteMutex, Goes, At
<1> QED
  BY <1>4, <1>5

(* A call that begins holds no mutex, and its frame has a new number.       *)
LEMMA StartKeeps ==
    ASSUME Inv, NEW t \in Users, NEW op \in scenario.ops[t], Start(t, op)
    PROVE  Inv'
<1>1. CallsTyped /\ DeviceTyped /\ WireSound /\ PortTyped /\ \A u \in Users : Sound(u)
  BY DEF Inv, Calls
<1>2. call[t] \in CallType /\ Fits(call[t]) /\ Sound(t) /\ call[t].at = "none"
  BY <1>1, NothingYet DEF Start, At
<1>3. call[t].op = [kind |-> "none"]
  BY <1>2 DEF Fits
<1>4. op \in Asked
  BY <1>1 DEF CallsTyped, Users
<1> DEFINE l == IF op.kind \in TakesRead THEN "readlock"
                ELSE IF op.kind \in TakesWrite THEN "writelock" ELSE Body(op.kind)
           c == [NoCall EXCEPT !.op = op, !.at = l]
<1>5. call' = [call EXCEPT ![t] = c]
  BY DEF Start
<1>6. \/ l = "readlock" /\ op.kind \in TakesRead
      \/ l = "writelock" /\ op.kind \in TakesWrite /\ op.kind \notin TakesRead
      \/ op.kind \notin TakesRead /\ op.kind \notin TakesWrite
         /\ \/ l = "flush" /\ op.kind = "sendBreak"
            \/ l = op.kind /\ l \in {"open", "close", "set", "line"}
  BY <1>4, AskedParts DEF Body, TakesRead, TakesWrite, Reading
<1>7. l \in Labels /\ l # "none" /\ l \notin AtRead /\ l \notin AtWrite
  BY <1>6 DEF Labels, AtRead, AtWrite
<1> HIDE DEF l
<1>8. /\ c \in CallType /\ c.at = l /\ c.op = op /\ c.got = <<>> /\ c.sent = 0
      /\ ~c.disturbed
  <2>1. NoCall \in CallType /\ NoCall.got = <<>> /\ NoCall.sent = 0 /\ ~NoCall.disturbed
    BY DEF CallType, NoCall, Labels
  <2> QED
    BY <1>4, <1>7, <2>1 DEF CallType
<1> HIDE DEF c
<1>9. Fits(c)
  BY <1>4, <1>6, <1>7, <1>8 DEF Fits, Flushes
<1>10. Measured(c)
  <2>1. c.op.kind \in Reading => c.op.size \in Nat
    BY <1>4, <1>8, AskedParts DEF Reading
  <2>2. c.op.kind = "write" => c.op.size \in Nat
    BY <1>4, <1>8, AskedParts
  <2>3. Len(c.got) = 0
    BY <1>8
  <2> QED
    BY <1>7, <1>8, <2>1, <2>2, <2>3 DEF Measured, AtRead
<1>11. call \in [Users -> CallType] /\ call'[t] = c /\ \A u \in Users : u # t => call'[u] = call[u]
  BY <1>1, <1>5 DEF CallsTyped
<1>12. calls'[t] = calls[t] + 1 /\ \A u \in Users : u # t => calls'[u] = calls[u]
  BY <1>1 DEF Start, CallsTyped
<1>13. UNCHANGED <<scenario, port, descriptors, readMutex, writeMutex, device, faults>>
  BY DEF Start, mutexes
<1>14. CallsTyped'
  <2>1. calls' \in [Users -> Nat]
    BY <1>1 DEF Start, CallsTyped
  <2> QED
    BY <1>1, <1>5, <1>8, <1>13, <2>1 DEF CallsTyped, Users
<1>15. \A i \in DOMAIN wire : wire[i] \in Users \X Nat /\ wire[i][2] <= calls[wire[i][1]]
  BY <1>1 DEF WireSound, DeviceTyped
<1>16. \A u \in Users : calls[u] \in Nat
  BY <1>1 DEF CallsTyped
<1>17. WireSound'
  <2>1. \A i \in DOMAIN wire : wire[i][2] <= calls'[wire[i][1]]
    <3>1. SUFFICES ASSUME NEW i \in DOMAIN wire PROVE wire[i][2] <= calls'[wire[i][1]]
      OBVIOUS
    <3>2. wire[i][1] \in Users /\ wire[i][2] \in Nat /\ wire[i][2] <= calls[wire[i][1]]
      BY <1>15
    <3>3. calls'[wire[i][1]] = calls[wire[i][1]] \/ calls'[wire[i][1]] = calls[wire[i][1]] + 1
      BY <1>12, <3>2
    <3> QED
      BY <1>16, <3>2, <3>3
  <2> QED
    BY <1>1, <1>13, <2>1 DEF WireSound, FramesWhole, device
<1>18. ASSUME NEW u \in Users PROVE Sound(u)'
  <2>1. CASE u = t
    <3>1. readMutex # t /\ writeMutex # t
      BY <1>2, <1>3 DEF Sound, Holds, Is, TakesRead, TakesWrite, Reading
    <3>2. Holds(t)'
      BY <1>6, <1>8, <1>11, <1>13, <3>1 DEF Holds, Is, At
    <3>3. InARow(t)'
      BY <1>8, <1>11 DEF InARow, Rising, EndsWith
    <3>4. \A i \in DOMAIN wire : wire[i] # <<t, calls[t] + 1>>
      <4>1. SUFFICES ASSUME NEW i \in DOMAIN wire, wire[i] = <<t, calls[t] + 1>> PROVE FALSE
        OBVIOUS
      <4>2. wire[i][1] = t /\ wire[i][2] = calls[t] + 1
        BY <4>1
      <4> QED
        BY <1>15, <1>16, <4>2
    <3>5. OnWire(t)'
      BY <1>8, <1>11, <1>12, <1>13, <3>4 DEF OnWire, Frame, device
    <3> QED
      BY <1>9, <1>10, <1>11, <2>1, <3>2, <3>3, <3>5 DEF Sound
  <2>2. CASE u # t
    <3>1. Sound(u) /\ call'[u] = call[u] /\ calls'[u] = calls[u]
      BY <1>1, <1>11, <1>12, <2>2
    <3>2. Holds(u)' /\ InARow(u)' /\ OnWire(u)'
      BY <1>13, <3>1 DEF Sound, Holds, Is, At, InARow, Rising, EndsWith, OnWire, Frame, device
    <3> QED
      BY <3>1, <3>2 DEF Sound
  <2> QED
    BY <2>1, <2>2
<1>19. DeviceTyped' /\ PortTyped'
  BY <1>1, <1>13 DEF DeviceTyped, PortTyped, device, faults, Users
<1> QED
  BY <1>13, <1>14, <1>17, <1>18, <1>19 DEF Inv, Calls, Users

(* However a call ends, it gives its mutexes back.                          *)
LEMMA LeaveKeeps == ASSUME Inv, NEW t \in Users, Leave(t) PROVE Inv'
<1>1. CallsTyped /\ DeviceTyped /\ WireSound /\ PortTyped /\ \A u \in Users : Sound(u)
  BY DEF Inv, Calls
<1>2. call' = [call EXCEPT ![t] = NoCall]
      /\ UNCHANGED <<scenario, port, descriptors, device, calls, faults>>
  BY DEF Leave
<1>3. readMutex' = (IF readMutex = t THEN Nobody ELSE readMutex)
      /\ writeMutex' = (IF writeMutex = t THEN Nobody ELSE writeMutex)
  BY DEF Leave, Unlocked
<1>4. NoCall \in CallType /\ Fits(NoCall) /\ Measured(NoCall)
  BY DEF CallType, Labels, NoCall, Fits, Measured, AtRead, AtWrite, Reading
<1>5. call'[t] = NoCall /\ \A u \in Users : u # t => call'[u] = call[u]
  BY <1>1, <1>2 DEF CallsTyped
<1>6. CallsTyped'
  BY <1>1, <1>2, <1>3, <1>4 DEF CallsTyped, Users
<1>7. WireSound' /\ DeviceTyped' /\ PortTyped'
  BY <1>1, <1>2 DEF WireSound, FramesWhole, DeviceTyped, PortTyped, device, faults, Users
<1>8. ASSUME NEW u \in Users PROVE Sound(u)'
  <2>1. Nobody # u /\ Nobody # t
    BY <1>1 DEF CallsTyped, Users
  <2>2. CASE u = t
    <3>1. Holds(t)' /\ InARow(t)' /\ OnWire(t)'
      BY <1>3, <1>5, <2>1 DEF Holds, Is, At, NoCall, TakesRead, TakesWrite, Reading, InARow,
                              Rising, EndsWith, OnWire
    <3> QED
      BY <1>4, <1>5, <2>2, <3>1 DEF Sound
  <2>3. CASE u # t
    <3>1. Sound(u) /\ call'[u] = call[u]
      BY <1>1, <1>5, <2>3
    <3>2. Holds(u)' /\ InARow(u)' /\ OnWire(u)'
      BY <1>2, <1>3, <2>1, <2>3, <3>1
         DEF Sound, Holds, Is, At, InARow, Rising, EndsWith, OnWire, Frame, device
    <3> QED
      BY <3>1, <3>2 DEF Sound
  <2> QED
    BY <2>2, <2>3
<1> QED
  BY <1>2, <1>6, <1>7, <1>8 DEF Inv, Calls, Users

(* Time, and the device.                                                    *)
LEMMA AroundKeeps ==
    ASSUME Inv, (\E t \in Users : Expires(t)) \/ Arrives \/ Unplugged \/ Plugged
    PROVE  Inv'
<1>1. CallsTyped /\ DeviceTyped /\ WireSound /\ PortTyped /\ \A u \in Users : Sound(u)
  BY DEF Inv, Calls
<1>2. scenario.bytes \in Nat
  BY <1>1 DEF CallsTyped
<1>3. ASSUME NEW t \in Users, Expires(t) PROVE Inv'
  <2> DEFINE c == [call[t] EXCEPT !.late = TRUE]
  <2>1. call' = [call EXCEPT ![t] = c]
        /\ UNCHANGED <<scenario, port, descriptors, readMutex, writeMutex, device, calls, faults>>
    BY <1>3 DEF Expires, mutexes
  <2>2. call[t] \in CallType /\ Fits(call[t]) /\ Measured(call[t]) /\ call[t].at \notin Waiting
    BY <1>3, NothingYet DEF Expires, Timed, Waiting
  <2>3. /\ c \in CallType /\ c.op = call[t].op /\ c.got = call[t].got /\ c.sent = call[t].sent
        /\ c.disturbed = call[t].disturbed /\ c.at = call[t].at /\ c.target = call[t].target
    BY <2>2 DEF CallType
  <2> HIDE DEF c
  <2>4. Fits(c) /\ Measured(c)
    BY <2>2, <2>3 DEF Fits, Measured
  <2>5. Calls'
    BY <2>1, <2>2, <2>3, <2>4, Moves DEF device
  <2>6. DeviceTyped' /\ PortTyped'
    BY <1>1, <2>1 DEF DeviceTyped, PortTyped, device, faults, Users
  <2> QED
    BY <2>5, <2>6 DEF Inv
<1>4. ASSUME Arrives \/ Unplugged \/ Plugged PROVE Inv'
  <2>1. UNCHANGED <<scenario, port, readMutex, writeMutex, taken, wire, call, calls, faults>>
    BY <1>4 DEF Arrives, Unplugged, Plugged, mutexes
  <2>2. CallsTyped' /\ WireSound'
    BY <1>1, <2>1 DEF CallsTyped, WireSound, FramesWhole, Users
  <2>3. ASSUME NEW u \in Users PROVE Sound(u)'
    BY <1>1, <2>1 DEF Sound, Fits, Measured, Holds, Is, At, InARow, Rising, EndsWith, OnWire, Frame
  <2>4. DeviceTyped'
    <3>1. arrived \in Nat /\ taken \in 0 .. arrived /\ arrived <= scenario.bytes
      BY <1>1, <1>2 DEF DeviceTyped
    <3>2. arrived' \in 0 .. scenario.bytes /\ taken \in 0 .. arrived'
      BY <1>2, <1>4, <3>1 DEF Arrives, Unplugged, Plugged
    <3>3. plugged' = plugged \/ plugged' = TRUE \/ plugged' = FALSE
      BY <1>4 DEF Arrives, Unplugged, Plugged
    <3>4. unplugs' = unplugs \/ unplugs' = unplugs + 1
      BY <1>4 DEF Arrives, Unplugged, Plugged
    <3>5. unplugs' \in Nat
      BY <1>1, <3>4 DEF DeviceTyped
    <3>6. plugged \in BOOLEAN
      BY <1>1 DEF DeviceTyped
    <3>7. plugged' \in BOOLEAN
      BY <3>3, <3>6, Zenon
    <3> QED
      BY <1>1, <2>1, <3>2, <3>5, <3>7 DEF DeviceTyped, Users
  <2>5. PortTyped'
    <3>1. CASE UNCHANGED descriptors
      BY <1>1, <2>1, <3>1 DEF PortTyped, faults
    <3>2. CASE descriptors' = [fd \in DOMAIN descriptors |-> [descriptors[fd] EXCEPT !.alive = FALSE]]
      <4>1. DOMAIN descriptors' = DOMAIN descriptors
        BY <3>2
      <4>2. descriptors' \in [DOMAIN descriptors -> [settings : Settings \cup {"none"}, alive : BOOLEAN]]
        BY <1>1, <3>2, ZenonT(30) DEF PortTyped
      <4> QED
        BY <1>1, <2>1, <4>1, <4>2 DEF PortTyped, faults
    <3> QED
      BY <1>4, <3>1, <3>2 DEF Arrives, Unplugged, Plugged
  <2> QED
    BY <2>1, <2>2, <2>3, <2>4, <2>5 DEF Inv, Calls, Users
<1> QED
  BY <1>3, <1>4

-----------------------------------------------------------------------------
(* Any thread, any step.                                                    *)

(* No call is under way, and nothing has arrived.                           *)
LEMMA InvInit == Init => Inv
<1> SUFFICES ASSUME Init PROVE Inv
  OBVIOUS
<1>1. scenario \in Scenarios /\ scenario.opened \in BOOLEAN /\ scenario.bytes \in Nat
  BY DEF Init
<1>2. NoCall \in CallType /\ Fits(NoCall) /\ Measured(NoCall)
  BY DEF CallType, Labels, NoCall, Fits, Measured, AtRead, AtWrite, Reading
<1>3. CallsTyped
  BY <1>1, <1>2 DEF Init, CallsTyped, Users
<1>4. WireSound
  BY DEF Init, WireSound, FramesWhole
<1>5. ASSUME NEW u \in Users PROVE Sound(u)
  <2>1. call[u] = NoCall /\ readMutex # u /\ writeMutex # u
    BY <1>1, <1>5 DEF Init, Users
  <2> QED
    BY <1>2, <2>1 DEF Sound, Holds, Is, At, NoCall, TakesRead, TakesWrite, Reading, InARow, Rising,
                      EndsWith, OnWire
<1>6. DeviceTyped
  BY <1>1 DEF Init, DeviceTyped
<1>7. PortTyped
  <2>1. DOMAIN descriptors \subseteq {1}
    BY DEF Init
  <2>2. IsFiniteSet(DOMAIN descriptors)
    BY <2>1, FS_Singleton, FS_Subset
  <2>3. descriptors \in [DOMAIN descriptors -> [settings : Settings \cup {"none"}, alive : BOOLEAN]]
    BY DEF Init, Settings
  <2>4. port \in [name : {"there", "elsewhere"}, open : BOOLEAN, settings : Settings,
                  fd : {NoFd} \cup (Nat \ {0})]
    <3>1. port = [name |-> "there", open |-> scenario.opened, settings |-> "usual",
                  fd |-> IF scenario.opened THEN 1 ELSE NoFd]
      BY DEF Init
    <3> QED
      BY <1>1, <3>1 DEF Settings
  <2>5. leaks \in Nat /\ failed \in BOOLEAN
    BY DEF Init
  <2> QED
    BY <2>1, <2>2, <2>3, <2>4, <2>5 DEF PortTyped
<1> QED
  BY <1>3, <1>4, <1>5, <1>6, <1>7 DEF Inv, Calls

(* Every step of every thread keeps the invariant.                          *)
LEMMA InvNext == Inv /\ [Next]_vars => Inv'
<1> SUFFICES ASSUME Inv, [Next]_vars PROVE Inv'
  OBVIOUS
<1>1. Threads = Users
  BY DEF Inv, Calls, CallsTyped, Threads
<1>2. ASSUME NEW t \in Users, NEW op \in scenario.ops[t], Start(t, op) PROVE Inv'
  BY <1>2, StartKeeps
<1>3. ASSUME NEW t \in Users, Step(t) PROVE Inv'
  BY <1>3, LockKeeps, LeaveKeeps, ReadTakes, ReadWaits, WriteWaits, PutsKeeps, FlushKeeps, LineKeeps,
     OpenKeeps, ConfigureKeeps, SetKeeps, CloseKeeps, PortKeeps DEF Step
<1>4. CASE (\E t \in Users : Expires(t)) \/ Arrives \/ Unplugged \/ Plugged
  BY <1>4, AroundKeeps
<1>5. CASE UNCHANGED vars
  <2>1. UNCHANGED <<scenario, port, descriptors, readMutex, writeMutex, arrived, taken, wire,
                    plugged, unplugs, call, calls, leaks, failed>>
    BY <1>5 DEF vars, mutexes, device, faults
  <2>2. Calls'
    <3>1. CallsTyped' /\ WireSound'
      BY <2>1 DEF Inv, Calls, CallsTyped, WireSound, FramesWhole, Users
    <3>2. ASSUME NEW u \in Users PROVE Sound(u)'
      BY <2>1 DEF Inv, Calls, Sound, Fits, Measured, Holds, Is, At, InARow, Rising, EndsWith, OnWire,
                  Frame
    <3> QED
      BY <2>1, <3>1, <3>2 DEF Calls, Users
  <2> QED
    BY <2>1, <2>2 DEF Inv, DeviceTyped, PortTyped, Users
<1> QED
  BY <1>1, <1>2, <1>3, <1>4, <1>5 DEF Next

(* Mutexes, buffers and the wire are as the calls of the threads say.       *)
THEOREM InvCorrect == Spec => []Inv
BY InvInit, InvNext, PTL DEF Spec

(* The calls of any number of threads neither share what is read nor mix    *)
(* what is written, whenever they come, wait and end.                       *)
THEOREM BytesKeptCorrect == Spec => []BytesKept
<1>1. Inv => BytesKept
  <2> SUFFICES ASSUME Inv PROVE BytesInARow /\ FramesWhole
    BY DEF BytesKept
  <2>1. Threads = Users
    BY DEF Inv, Calls, CallsTyped, Threads
  <2> QED
    BY <2>1 DEF Inv, Calls, WireSound, Sound, InARow, Rising, BytesInARow
<1> QED
  BY <1>1, InvCorrect, PTL

(* However a call ends, by an exception too, it gives its mutexes back.     *)
THEOREM MutexesCorrect == Spec => []MutexesGivenBack
<1>1. Inv => MutexesGivenBack
  BY DEF Inv, Calls, CallsTyped, Threads, Users, Sound, Holds, MutexesGivenBack
<1> QED
  BY <1>1, InvCorrect, PTL

(* No call reads more than its buffer holds, or writes more than it was     *)
(* given.                                                                   *)
THEOREM TypeCorrect == Spec => []TypeOK
<1>1. Inv => TypeOK
  <2> SUFFICES ASSUME Inv PROVE TypeOK
    OBVIOUS
  <2>1. Threads = Users
    BY DEF Inv, Calls, CallsTyped, Threads
  <2>2. \A t \in Users : Measured(call[t])
    BY DEF Inv, Calls, Sound
  <2> QED
    BY <2>1, <2>2 DEF Inv, Calls, CallsTyped, DeviceTyped, PortTyped, Measured, Is, TypeOK
<1> QED
  BY <1>1, InvCorrect, PTL

-----------------------------------------------------------------------------
(* One thread that opens, closes, renames and sets the port.                *)

ControlKinds == {"open", "close", "setPort", "set"}

(* No other thread than w does.                                             *)
Controller(w) ==
    \A u \in Users \ {w} : \A op \in scenario.ops[u] : op.kind \notin ControlKinds

OneControls == \E w \in Threads : Controller(w)

(* What a call was asked.                                                   *)
AsAsked == \A u \in Users : At(u, "none") \/ call[u].op \in scenario.ops[u]

Fds == DOMAIN descriptors

(* No descriptor is lost but by a failed open(), wherever w is.             *)
FdsSound(w) ==
    /\ Cardinality(Fds \ {port.fd}) <= leaks
    /\ ~port.open /\ ~At(w, "configure") => Cardinality(Fds) <= leaks
    /\ At(w, "configure") => (Opening(w) <=> ~port.open) /\ (Opening(w) => IsValid(port.fd))
    /\ At(w, "noFd") \/ At(w, "closed") => ~IsValid(port.fd)

(* The port is set up as asked, unless w is about it or something failed.   *)
SetUp(w) ==
    port.open /\ ~failed /\ call[w].at \notin Changing =>
        IsValid(port.fd) /\ descriptors[port.fd].settings = port.settings

Controlled == \A w \in Users : Controller(w) => FdsSound(w) /\ SetUp(w)

ControlInv == AsAsked /\ Controlled

(* The port is closed, or open with the one descriptor it has.              *)
LEMMA ControlInit == Init => ControlInv
<1> SUFFICES ASSUME Init PROVE ControlInv
  OBVIOUS
<1>1. Inv /\ scenario \in Scenarios /\ scenario.opened \in BOOLEAN
  BY InvInit DEF Init
<1>2. \A u \in Users : call[u] = NoCall
  BY DEF Init, Users
<1>3. AsAsked
  BY <1>2 DEF AsAsked, At, NoCall
<1>4. Cardinality({}) = 0 /\ leaks = 0
  BY FS_EmptySet DEF Init
<1>5. CASE scenario.opened
  <2>1. Fds = {1} /\ port.fd = 1 /\ port.open /\ descriptors[1].settings = port.settings
    BY <1>5 DEF Init, Fds
  <2>2. Fds \ {port.fd} = {}
    BY <2>1
  <2>3. IsValid(port.fd)
    BY <2>1 DEF IsValid, Fds
  <2>4. Cardinality(Fds \ {port.fd}) <= leaks
    BY <1>4, <2>2
  <2>5. ASSUME NEW w \in Users PROVE FdsSound(w)
    BY <1>2, <2>1, <2>4 DEF FdsSound, At, NoCall
  <2>6. ASSUME NEW w \in Users PROVE SetUp(w)
    BY <2>1, <2>3 DEF SetUp
  <2> QED
    BY <1>3, <2>5, <2>6 DEF ControlInv, Controlled
<1>6. CASE ~scenario.opened
  <2>1. Fds = {} /\ ~port.open
    BY <1>6 DEF Init, Fds
  <2>2. Fds \ {port.fd} = {}
    BY <2>1
  <2> QED
    BY <1>2, <1>3, <1>4, <2>1, <2>2
       DEF ControlInv, Controlled, FdsSound, SetUp, At, NoCall
<1> QED
  BY <1>1, <1>5, <1>6

(* A call stays what it was asked until it has left, and moves no other.    *)
LEMMA CallStays ==
    ASSUME Inv, NEW t \in Users, Step(t) \/ Expires(t)
    PROVE  /\ call'[t].op = call[t].op \/ call'[t].at = "none"
           /\ \A u \in Users \ {t} : call'[u].op = call[u].op /\ call'[u].at = call[u].at
           /\ UNCHANGED scenario
<1>1. call \in [Users -> CallType] /\ Threads = Users
  BY DEF Inv, Calls, CallsTyped, Threads
<1>2. call[t] \in CallType
  BY <1>1
<1>3. UNCHANGED scenario
  BY DEF Step, Expires, ReadLock, WriteLock, Leave, ReadStarts, ReadChecks, ReadSelects, ReadSettles,
         ReadsAgain, Takes, WriteStarts, WriteChecks, WriteSelects, Puts, Flush, Line, Open, Configure,
         Set, Close, ForgetsFd, IsClosed, Reopens, Renames, OnlyCall, Unlocking
<1>4. ASSUME NEW c, call' = [call EXCEPT ![t] = c], c.op = call[t].op \/ c.at = "none"
      PROVE  /\ call'[t].op = call[t].op \/ call'[t].at = "none"
             /\ \A u \in Users \ {t} : call'[u].op = call[u].op /\ call'[u].at = call[u].at
  BY <1>1, <1>4
<1>5. ASSUME NEW l, Goes(t, l)
      PROVE  /\ call'[t].op = call[t].op
             /\ \A u \in Users \ {t} : call'[u].op = call[u].op /\ call'[u].at = call[u].at
  BY <1>1, <1>2, <1>5 DEF Goes, CallType
<1>6. ASSUME Throws(t)
      PROVE  /\ call'[t].op = call[t].op
             /\ \A u \in Users \ {t} : call'[u].op = call[u].op /\ call'[u].at = call[u].at
  BY <1>1, <1>2, <1>6 DEF Throws, CallType
<1>7. CASE ReadLock(t) \/ WriteLock(t) \/ Flush(t) \/ Line(t) \/ Open(t) \/ Configure(t) \/ Set(t)
           \/ ForgetsFd(t) \/ IsClosed(t) \/ Reopens(t) \/ Renames(t) \/ ReadChecks(t)
           \/ ReadSelects(t) \/ ReadSettles(t)
  <2>1. (\E l : Goes(t, l)) \/ Throws(t)
    BY <1>7 DEF ReadLock, TakesReadMutex, WriteLock, TakesWriteMutex, Flush, Line, Open, Configure,
                NotConfigured, Set, AppliesSettings, ForgetsFd, IsClosed, Reopens, Renames,
                ReadChecks, ReadSelects, ReadSettles, Returns
  <2> QED
    BY <1>3, <1>5, <1>6, <2>1
<1>8. CASE Leave(t)
  BY <1>3, <1>4, <1>8 DEF Leave, NoCall
<1>9. CASE ReadStarts(t) \/ ReadsAgain(t)
  BY <1>1, <1>2, <1>3, <1>6, <1>9 DEF ReadStarts, ReadsAgain, Takes, CallType
<1>11. CASE WriteStarts(t) \/ WriteChecks(t)
  BY <1>1, <1>2, <1>3, <1>5, <1>6, <1>11 DEF WriteStarts, WriteChecks, Returns, CallType
<1>12. CASE WriteSelects(t)
  BY <1>3, <1>5, <1>6, <1>12 DEF WriteSelects, Returns
<1>13. CASE Puts(t)
  <2>1. CASE (\E l : Goes(t, l)) \/ Throws(t)
    BY <1>3, <1>5, <1>6, <2>1
  <2>2. ASSUME NEW n, call' = [call EXCEPT ![t].at = "checkwrite", ![t].sent = @ + n]
        PROVE  /\ call'[t].op = call[t].op
               /\ \A u \in Users \ {t} : call'[u].op = call[u].op /\ call'[u].at = call[u].at
    BY <1>1, <1>2, <2>2 DEF CallType
  <2> QED
    BY <1>3, <1>13, <2>1, <2>2 DEF Puts
<1>14. CASE Expires(t)
  BY <1>1, <1>2, <1>3, <1>14 DEF Expires, CallType
<1>10. CASE Close(t)
  <2>1. CASE (\E l : Goes(t, l)) \/ Throws(t)
    BY <1>3, <1>5, <1>6, <2>1
  <2>2. ASSUME NEW ok, call' = [u \in Threads |->
                        IF u # t THEN [call[u] EXCEPT !.disturbed = TRUE]
                        ELSE [call[u] EXCEPT !.at = IF ok THEN "noFd" ELSE "leave",
                                             !.threw = ~ok]]
        PROVE  /\ call'[t].op = call[t].op
               /\ \A u \in Users \ {t} : call'[u].op = call[u].op /\ call'[u].at = call[u].at
    BY <1>1, <2>2 DEF CallType
  <2> QED
    BY <1>3, <1>10, <2>1, <2>2 DEF Close
<1> QED
  BY <1>7, <1>8, <1>9, <1>10, <1>11, <1>12, <1>13, <1>14 DEF Step

(* A call that is not about the port leaves it alone.                       *)
LEMMA LeavesPort ==
    ASSUME Inv, NEW t \in Users, Step(t) \/ Expires(t), call[t].at \notin Controls
    PROVE  UNCHANGED <<port, descriptors, leaks, failed>> /\ call'[t].at \notin Changing
<1>1. call \in [Users -> CallType] /\ call[t] \in CallType /\ Fits(call[t])
  BY NothingYet DEF Inv, Calls, CallsTyped
<1>2. UNCHANGED <<port, descriptors, leaks, failed>>
  BY DEF Step, Expires, ReadLock, WriteLock, Leave, ReadStarts, ReadChecks, ReadSelects, ReadSettles,
         ReadsAgain, Takes, WriteStarts, WriteChecks, WriteSelects, Puts, Flush, Line, Open, Configure,
         Set, Close, ForgetsFd, IsClosed, Reopens, Renames, OnlyCall, At, Controls, faults
<1> SUFFICES call'[t].at \notin Changing
  BY <1>2
<1>3. ASSUME NEW l, Goes(t, l), l \notin Changing PROVE call'[t].at \notin Changing
  BY <1>1, <1>3 DEF Goes, CallType
<1>4. ASSUME Throws(t) \/ Returns(t) PROVE call'[t].at \notin Changing
  BY <1>1, <1>4 DEF Throws, Returns, Goes, CallType, Changing
<1>5. CASE ReadLock(t) \/ WriteLock(t)
  <2>1. call[t].op.kind \in TakesRead \cup TakesWrite
    BY <1>1, <1>5 DEF ReadLock, WriteLock, At, Fits
  <2>2. Body(call[t].op.kind) \notin Changing /\ "writelock" \notin Changing
    BY <2>1 DEF Body, TakesRead, TakesWrite, Reading, Changing
  <2> QED
    BY <1>3, <1>5, <2>2 DEF ReadLock, WriteLock, TakesReadMutex, TakesWriteMutex
<1>6. CASE Leave(t)
  BY <1>1, <1>6 DEF Leave, NoCall, Changing
<1>7. CASE Flush(t) \/ Line(t)
  BY <1>4, <1>7 DEF Flush, Line
<1>8. CASE ReadChecks(t) \/ ReadSelects(t) \/ ReadSettles(t)
  BY <1>3, <1>4, <1>8 DEF ReadChecks, ReadSelects, ReadSettles, Changing
<1>11. CASE ReadStarts(t)
  BY <1>1, <1>4, <1>11 DEF ReadStarts, CallType, Changing
<1>12. CASE ReadsAgain(t)
  BY <1>1, <1>4, <1>12 DEF ReadsAgain, Takes, CallType, Changing
<1>13. CASE WriteStarts(t) \/ WriteChecks(t)
  BY <1>1, <1>4, <1>13 DEF WriteStarts, WriteChecks, CallType, Changing
<1>14. CASE WriteSelects(t)
  BY <1>3, <1>4, <1>14 DEF WriteSelects, Changing
<1>15. CASE Puts(t)
  <2>1. CASE Goes(t, "checkwrite") \/ Throws(t)
    BY <1>3, <1>4, <2>1 DEF Changing
  <2>2. ASSUME NEW n, call' = [call EXCEPT ![t].at = "checkwrite", ![t].sent = @ + n]
        PROVE  call'[t].at \notin Changing
    BY <1>1, <2>2 DEF CallType, Changing
  <2> QED
    BY <1>15, <2>1, <2>2 DEF Puts
<1>10. CASE Expires(t)
  BY <1>1, <1>10 DEF Expires, CallType, Timed, Changing
<1> QED
  BY <1>5, <1>6, <1>7, <1>8, <1>10, <1>11, <1>12, <1>13, <1>14, <1>15
     DEF Step, Open, Configure, Set, Close, ForgetsFd, IsClosed, Reopens, Renames, At, Controls

(* Where a step that goes somewhere or throws leads to.                     *)
LEMMA Whither ==
    ASSUME Inv, NEW t \in Users
    PROVE  /\ \A l : Goes(t, l) => call'[t].at = l /\ call'[t].op = call[t].op
           /\ Throws(t) => call'[t].at = "leave" /\ call'[t].op = call[t].op
           /\ call[t] \in CallType /\ Fits(call[t]) /\ Threads = Users /\ PortTyped
<1>1. call \in [Users -> CallType] /\ call[t] \in CallType /\ Fits(call[t]) /\ PortTyped
  BY NothingYet DEF Inv, Calls, CallsTyped
<1> QED
  BY <1>1 DEF Goes, Throws, CallType, Threads

(* How many descriptors there are with one more or less.                    *)
LEMMA OneFd ==
    ASSUME PortTyped, NEW fd
    PROVE  /\ Cardinality(Fds) \in Nat /\ Cardinality(Fds \ {fd}) \in Nat
           /\ Cardinality(Fds) <= Cardinality(Fds \ {fd}) + 1
           /\ fd \notin Fds => Fds \ {fd} = Fds
           /\ leaks \in Nat /\ NoFd \notin Fds
<1>1. IsFiniteSet(Fds) /\ IsFiniteSet(Fds \ {fd})
  BY FS_RemoveElement DEF PortTyped, Fds
<1>2. /\ Cardinality(Fds) \in Nat /\ Cardinality(Fds \ {fd}) \in Nat
      /\ Cardinality(Fds) <= Cardinality(Fds \ {fd}) + 1
  BY <1>1, FS_CardinalityType, FS_RemoveElement
<1>3. leaks \in Nat /\ NoFd \notin Fds
  BY DEF PortTyped, Fds, NoFd
<1> QED
  BY <1>2, <1>3

(* open() is only given a descriptor by a port that has none to lose.       *)
LEMMA ControlOpen ==
    ASSUME Inv, NEW w \in Users, FdsSound(w), SetUp(w), Open(w)
    PROVE  FdsSound(w)' /\ SetUp(w)'
<1>1. /\ call[w].at = "open" /\ call[w].op.kind \in {"open", "setPort"} /\ PortTyped
      /\ Fits(call[w])
  BY Whither DEF Open, At, Fits
<1>2. CASE port.open /\ Throws(w) /\ OnlyCall
  <2>1. UNCHANGED <<port, descriptors, leaks, failed>> /\ call'[w].at = "leave"
    BY <1>2, Whither DEF OnlyCall, faults
  <2> QED
    BY <1>1, <2>1 DEF FdsSound, SetUp, Fds, At, IsValid, Changing
<1>3. CASE /\ ~port.open /\ Throws(w) /\ port' = [port EXCEPT !.fd = NoFd]
           /\ UNCHANGED <<descriptors, faults>>
  <2>1. call'[w].at = "leave" /\ port'.open = port.open /\ port'.fd = NoFd
        /\ UNCHANGED <<descriptors, leaks, failed>>
    BY <1>1, <1>3, Whither DEF PortTyped, faults
  <2>2. Cardinality(Fds) <= leaks /\ Fds \ {NoFd} = Fds
    BY <1>1, <1>3, OneFd DEF FdsSound, At
  <2> QED
    BY <1>3, <2>1, <2>2 DEF FdsSound, SetUp, Fds, At
<1>4. CASE /\ ~port.open /\ port' = [port EXCEPT !.fd = LeastFd]
           /\ descriptors' = [fd \in DOMAIN descriptors \cup {LeastFd} |->
                                IF fd = LeastFd THEN [settings |-> "none", alive |-> TRUE]
                                ELSE descriptors[fd]]
           /\ Goes(w, "configure") /\ UNCHANGED faults
  <2>1. /\ call'[w].at = "configure" /\ call'[w].op = call[w].op
        /\ port'.open = port.open /\ port'.fd = LeastFd /\ UNCHANGED <<leaks, failed>>
    BY <1>1, <1>4, Whither DEF PortTyped, faults
  <2>2. DOMAIN descriptors' = Fds \cup {LeastFd} /\ LeastFd \notin Fds
    BY <1>1, <1>4, FreeFd DEF Fds
  <2>3. (Fds \cup {LeastFd}) \ {LeastFd} = Fds
    BY <2>2
  <2>4. Cardinality(Fds) <= leaks
    BY <1>1, <1>4 DEF FdsSound, At
  <2>5. Opening(w)' /\ IsValid(port.fd)' /\ At(w, "configure")'
    BY <1>1, <2>1, <2>2 DEF Opening, Is, IsValid, At
  <2>6. Cardinality(Fds \ {port.fd})' <= leaks'
    BY <2>1, <2>2, <2>3, <2>4 DEF Fds
  <2>7. FdsSound(w)'
    BY <1>4, <2>1, <2>5, <2>6 DEF FdsSound, At
  <2> QED
    BY <1>4, <2>1, <2>7 DEF SetUp
<1> QED
  BY <1>2, <1>3, <1>4 DEF Open

(* A descriptor that could not be set up is lost, and counted.              *)
LEMMA ControlConfigure ==
    ASSUME Inv, NEW w \in Users, FdsSound(w), SetUp(w), Configure(w)
    PROVE  FdsSound(w)' /\ SetUp(w)'
<1>1. /\ call[w].at = "configure" /\ PortTyped /\ At(w, "configure")
      /\ call[w].op.kind \in {"open", "setPort", "set"}
  BY Whither DEF Configure, At, Fits
<1>2. call'[w].at = "leave"
  BY Whither DEF Configure, NotConfigured, Returns
<1>3. (Opening(w) <=> ~port.open) /\ (Opening(w) => IsValid(port.fd))
      /\ Cardinality(Fds \ {port.fd}) <= leaks
  BY <1>1 DEF FdsSound
<1>4. DOMAIN descriptors' = Fds
  BY DEF Configure, Fds
<1>5. CASE NotConfigured(w)
  <2>1. port' = port /\ leaks' = leaks + (IF Opening(w) /\ IsValid(port.fd) THEN 1 ELSE 0)
        /\ failed' = (failed \/ ~Opening(w))
    BY <1>5 DEF NotConfigured
  <2>2. CASE Opening(w)
    <3>1. ~port.open /\ leaks' = leaks + 1
      BY <1>3, <2>1, <2>2
    <3>2. Cardinality(Fds) <= leaks + 1 /\ Cardinality(Fds \ {port.fd}) <= leaks + 1
      BY <1>1, <1>3, OneFd
    <3>3. FdsSound(w)'
      BY <1>2, <1>4, <2>1, <3>1, <3>2 DEF FdsSound, At, Fds
    <3> QED
      BY <2>1, <3>1, <3>3 DEF SetUp
  <2>3. CASE ~Opening(w)
    <3>4. leaks \in Nat /\ leaks' = leaks + 0
      BY <1>1, <2>1, <2>3 DEF PortTyped
    <3>5. port.open /\ leaks' = leaks
      BY <1>3, <2>3, <3>4
    <3>6. failed' = TRUE
      BY <2>1, <2>3, Zenon
    <3>1. port.open /\ leaks' = leaks /\ failed'
      BY <3>5, <3>6
    <3>2. FdsSound(w)'
      BY <1>2, <1>3, <1>4, <2>1, <3>1 DEF FdsSound, At, Fds
    <3> QED
      BY <3>1, <3>2 DEF SetUp
  <2> QED
    BY <2>2, <2>3
<1>6. CASE /\ ~IsRefused /\ descriptors' = [descriptors EXCEPT ![port.fd].settings = port.settings]
           /\ UNCHANGED faults /\ port' = [port EXCEPT !.open = @ \/ Opening(w)]
  <2>1. IsValid(port.fd)
    BY <1>6 DEF IsRefused, IsAlive
  <2>2. port'.open = (port.open \/ Opening(w)) /\ port'.fd = port.fd /\ port'.settings = port.settings
        /\ UNCHANGED <<leaks, failed>>
    BY <1>1, <1>6 DEF PortTyped, faults
  <2>3. port'.open
    BY <1>3, <2>2
  <2>4. descriptors'[port.fd].settings = port.settings
    <3>1. descriptors[port.fd] \in [settings : Settings \cup {"none"}, alive : BOOLEAN]
      BY <1>1, <2>1 DEF PortTyped, IsValid
    <3> QED
      BY <1>6, <2>1, <3>1 DEF IsValid
  <2>5. FdsSound(w)'
    BY <1>2, <1>3, <1>4, <2>2, <2>3 DEF FdsSound, At, Fds
  <2>6. SetUp(w)'
    BY <1>4, <2>1, <2>2, <2>4 DEF SetUp, IsValid, Fds
  <2> QED
    BY <2>5, <2>6
<1> QED
  BY <1>5, <1>6 DEF Configure

(* close() closes the port's descriptor, or fails.                          *)
LEMMA ControlClose ==
    ASSUME Inv, NEW w \in Users, FdsSound(w), SetUp(w), Close(w)
    PROVE  FdsSound(w)' /\ SetUp(w)'
<1>1. call[w].at = "close" /\ PortTyped /\ call[w].at \notin Changing /\ Threads = Users
  BY Whither DEF Close, At, Changing
<1>2. CASE /\ OnlyCall
           /\ \/ ~port.open /\ Goes(w, AfterClose(w))
              \/ port.fd = NoFd /\ Goes(w, "closed")
  <2>1. UNCHANGED <<port, descriptors, leaks, failed>>
    BY <1>2 DEF OnlyCall, faults
  <2>2. \/ ~port.open /\ call'[w].at \in {"rename", "leave"}
        \/ port.fd = NoFd /\ call'[w].at = "closed"
    BY <1>2, Whither DEF AfterClose
  <2>3. ~IsValid(NoFd)
    BY <1>1, OneFd DEF IsValid, Fds
  <2>4. FdsSound(w)'
    BY <1>1, <2>1, <2>2, <2>3 DEF FdsSound, At, Fds, IsValid
  <2>5. SetUp(w)'
    BY <1>1, <2>1, <2>2 DEF SetUp, Changing, IsValid
  <2> QED
    BY <2>4, <2>5
<1>3. ASSUME port.open, NEW ok \in {IsValid(port.fd), FALSE}, descriptors' = Closed(port.fd),
             call' = [u \in Threads |->
                        IF u # w THEN [call[u] EXCEPT !.disturbed = TRUE]
                        ELSE [call[u] EXCEPT !.at = IF ok THEN "noFd" ELSE "leave",
                                             !.threw = ~ok]],
             failed' = (failed \/ ~ok), UNCHANGED <<port, leaks>>
      PROVE  FdsSound(w)' /\ SetUp(w)'
  <2>1. call'[w].at = IF ok THEN "noFd" ELSE "leave"
    <3>1. call[w] \in CallType
      BY Whither
    <3> QED
      BY <1>1, <1>3, <3>1 DEF CallType
  <2>2. DOMAIN descriptors' = Fds \ {port.fd}
    BY <1>3 DEF Closed, Restrict, Fds
  <2>3. (Fds \ {port.fd}) \ {port.fd} = Fds \ {port.fd} /\ port.fd \notin Fds \ {port.fd}
    OBVIOUS
  <2>4. Cardinality(Fds \ {port.fd})' <= leaks'
    BY <1>3, <2>2, <2>3 DEF FdsSound, Fds
  <2>8. ~IsValid(port.fd)'
    BY <1>3, <2>2 DEF IsValid
  <2>9. port' = port
    BY <1>3
  <2>10. call'[w].at # "configure"
    BY <2>1
  <2>7. ~IsValid(port.fd)' /\ port'.open /\ call'[w].at # "configure"
    BY <1>3, <2>8, <2>9, <2>10
  <2>5. FdsSound(w)'
    BY <2>4, <2>7 DEF FdsSound, At
  <2>6. SetUp(w)'
    BY <1>3, <2>1 DEF SetUp, Changing
  <2> QED
    BY <2>5, <2>6
<1> QED
  BY <1>2, <1>3 DEF Close

(* A setting, a name, and the end of close().                               *)
LEMMA ControlOther ==
    ASSUME Inv, NEW w \in Users, FdsSound(w), SetUp(w),
           Set(w) \/ ForgetsFd(w) \/ IsClosed(w) \/ Reopens(w) \/ Renames(w)
    PROVE  FdsSound(w)' /\ SetUp(w)'
<1>1. PortTyped /\ Fits(call[w])
  BY Whither
<1>2. UNCHANGED <<descriptors, leaks, failed>>
  BY DEF Set, ForgetsFd, IsClosed, Reopens, Renames, OnlyCall, faults
<1>3. CASE Set(w)
  <2>1. /\ port'.open = port.open /\ port'.fd = port.fd /\ call'[w].op = call[w].op
        /\ IF port.open THEN call'[w].at = "configure" ELSE call'[w].at = "leave"
    BY <1>1, <1>3, Whither DEF Set, AppliesSettings, Returns, PortTyped
  <2>2. call[w].at = "set" /\ call[w].op.kind = "set"
    BY <1>1, <1>3 DEF Set, At, Fits
  <2>3. FdsSound(w)'
    BY <1>2, <2>1, <2>2 DEF FdsSound, Fds, At, Opening, Is, IsValid
  <2>4. SetUp(w)'
    BY <2>1 DEF SetUp, Changing
  <2> QED
    BY <2>3, <2>4
<1>4. CASE ForgetsFd(w)
  <2>1. call[w].at = "noFd" /\ call'[w].at = "closed" /\ port'.open = port.open /\ port'.fd = NoFd
    BY <1>1, <1>4, Whither DEF ForgetsFd, At, PortTyped
  <2>2. port.fd \notin Fds /\ Cardinality(Fds) <= leaks
    BY <1>1, <2>1, OneFd DEF FdsSound, At, IsValid, Fds
  <2>3. Fds \ {NoFd} = Fds /\ NoFd \notin Fds
    BY <1>1, OneFd
  <2> QED
    BY <1>2, <2>1, <2>2, <2>3 DEF FdsSound, SetUp, Changing, At, Fds, IsValid
<1>5. CASE IsClosed(w)
  <2>1. call[w].at = "closed" /\ call'[w].at \in {"rename", "leave"} /\ ~port'.open /\ port'.fd = port.fd
    BY <1>1, <1>5, Whither DEF IsClosed, At, PortTyped, AfterClose
  <2>2. port.fd \notin Fds /\ Cardinality(Fds) <= leaks /\ Cardinality(Fds \ {port.fd}) <= leaks
    BY <1>1, <2>1, OneFd DEF FdsSound, At, IsValid, Fds
  <2> QED
    BY <1>2, <2>1, <2>2 DEF FdsSound, SetUp, At, Fds
<1>6. CASE Reopens(w) \/ Renames(w)
  <2>1. /\ call[w].at \in {"reopen", "rename"} /\ call'[w].at \in {"close", "leave", "open"}
        /\ port'.open = port.open /\ port'.fd = port.fd /\ port'.settings = port.settings
    BY <1>1, <1>6, Whither DEF Reopens, Renames, OnlyCall, At, PortTyped, Returns
  <2> QED
    BY <1>2, <2>1 DEF FdsSound, SetUp, Changing, At, Fds, IsValid
<1> QED
  BY <1>3, <1>4, <1>5, <1>6

(* What leaves the port and its controller alone keeps what they are.       *)
LEMMA ControlKept ==
    ASSUME NEW w \in Users, FdsSound(w), SetUp(w),
           UNCHANGED <<port, descriptors, leaks, failed>>,
           \/ call'[w].at = call[w].at /\ call'[w].op = call[w].op
           \/ call[w].at \notin Changing /\ call'[w].at \notin Changing
    PROVE  FdsSound(w)' /\ SetUp(w)'
BY DEF FdsSound, SetUp, Fds, At, IsValid, Opening, Is, Changing

(* A step of any thread: only the controller's are about the port.          *)
LEMMA ControlStep ==
    ASSUME Inv, ControlInv, NEW t \in Users, Step(t) \/ Expires(t)
    PROVE  ControlInv'
<1>1. /\ call'[t].op = call[t].op \/ call'[t].at = "none"
      /\ \A u \in Users \ {t} : call'[u].op = call[u].op /\ call'[u].at = call[u].at
      /\ UNCHANGED scenario
  BY CallStays
<1>2. call[t].at # "none" /\ Fits(call[t])
  BY Whither DEF Step, Expires, ReadLock, WriteLock, Leave, ReadStarts, ReadChecks, ReadSelects,
                 ReadSettles, ReadsAgain, WriteStarts, WriteChecks, WriteSelects, Puts, Flush, Line,
                 Open, Configure, Set, Close, ForgetsFd, IsClosed, Reopens, Renames, At, Timed
<1>3. AsAsked'
  BY <1>1, <1>2 DEF ControlInv, AsAsked, At, Users
<1>4. ASSUME NEW w \in Users, Controller(w) PROVE FdsSound(w)' /\ SetUp(w)'
  <2>1. FdsSound(w) /\ SetUp(w)
    BY <1>4 DEF ControlInv, Controlled
  <2>2. CASE call[t].at \notin Controls
    <3>1. UNCHANGED <<port, descriptors, leaks, failed>> /\ call'[t].at \notin Changing
          /\ call[t].at \notin Changing
      BY <2>2, LeavesPort DEF Changing, Controls
    <3> QED
      BY <1>1, <2>1, <3>1, ControlKept
  <2>3. CASE call[t].at \in Controls
    <3>1. t = w
      <4>1. call[t].op.kind \in ControlKinds
        BY <1>2, <2>3 DEF Fits, Controls, ControlKinds
      <4>2. call[t].op \in scenario.ops[t]
        BY <1>2 DEF ControlInv, AsAsked, At
      <4> QED
        BY <1>4, <4>1, <4>2 DEF Controller
    <3>2. CASE Expires(t)
      BY <2>3, <3>2 DEF Expires, Timed, Controls
    <3>3. Step(t) => \/ Open(t) \/ Configure(t) \/ Close(t)
                     \/ Set(t) \/ ForgetsFd(t) \/ IsClosed(t) \/ Reopens(t) \/ Renames(t)
      BY <2>3 DEF Step, ReadLock, WriteLock, Leave, ReadStarts, ReadChecks, ReadSelects, ReadSettles,
                  ReadsAgain, WriteStarts, WriteChecks, WriteSelects, Puts, Flush, Line, At, Controls
    <3> QED
      BY <2>1, <3>1, <3>2, <3>3, ControlOpen, ControlConfigure, ControlClose, ControlOther
  <2> QED
    BY <2>2, <2>3
<1> QED
  BY <1>1, <1>3, <1>4 DEF ControlInv, Controlled, Controller, Users

(* Every step keeps the port as its controller left it.                     *)
LEMMA ControlNext == Inv /\ ControlInv /\ [Next]_vars => ControlInv'
<1> SUFFICES ASSUME Inv, ControlInv, [Next]_vars PROVE ControlInv'
  OBVIOUS
<1>1. Threads = Users /\ call \in [Users -> CallType] /\ PortTyped
  BY DEF Inv, Calls, CallsTyped, Threads
<1>2. ASSUME NEW t \in Users, Step(t) \/ Expires(t) PROVE ControlInv'
  BY <1>2, ControlStep
<1>3. ASSUME NEW t \in Users, NEW op \in scenario.ops[t], Start(t, op) PROVE ControlInv'
  <2>1. op \in Asked /\ call[t].at = "none"
    BY <1>3 DEF Inv, Calls, CallsTyped, Users, Start, At
  <2>2. call'[t].op = op /\ call'[t].at \notin Changing
    <3> DEFINE l == IF op.kind \in TakesRead THEN "readlock"
                    ELSE IF op.kind \in TakesWrite THEN "writelock" ELSE Body(op.kind)
    <3>1. l \notin Changing
      BY <2>1, AskedParts DEF Body, TakesRead, TakesWrite, Reading, Changing
    <3>2. call'[t] = [NoCall EXCEPT !.op = op, !.at = l]
      BY <1>1, <1>3 DEF Start
    <3> HIDE DEF l
    <3> QED
      BY <3>1, <3>2 DEF NoCall
  <2>3. UNCHANGED <<scenario, port, descriptors, leaks, failed>>
        /\ \A u \in Users : u # t => call'[u] = call[u]
    BY <1>1, <1>3 DEF Start, faults
  <2>4. AsAsked'
    BY <1>3, <2>2, <2>3 DEF ControlInv, AsAsked, At, Users
  <2>5. ASSUME NEW w \in Users, Controller(w) PROVE FdsSound(w)' /\ SetUp(w)'
    <3>1. FdsSound(w) /\ SetUp(w) /\ "none" \notin Changing
      BY <2>5 DEF ControlInv, Controlled, Changing
    <3> QED
      BY <2>1, <2>2, <2>3, <3>1, ControlKept
  <2> QED
    BY <2>3, <2>4, <2>5 DEF ControlInv, Controlled, Controller, Users
<1>4. CASE Arrives \/ Plugged \/ UNCHANGED vars
  <2>1. UNCHANGED <<scenario, port, descriptors, call, leaks, failed>>
    BY <1>4 DEF Arrives, Plugged, vars, faults
  <2> QED
    BY <2>1 DEF ControlInv, AsAsked, Controlled, Controller, FdsSound, SetUp, Fds, At, IsValid, Opening,
                Is, Users
<1>5. CASE Unplugged
  <2>1. UNCHANGED <<scenario, port, call, leaks, failed>>
    BY <1>5 DEF Unplugged, faults
  <2>2. DOMAIN descriptors' = DOMAIN descriptors
        /\ \A fd \in DOMAIN descriptors : descriptors'[fd].settings = descriptors[fd].settings
    BY <1>1, <1>5 DEF Unplugged, PortTyped
  <2>3. AsAsked'
    BY <2>1 DEF ControlInv, AsAsked, At, Users
  <2>4. ASSUME NEW w \in Users, Controller(w) PROVE FdsSound(w)' /\ SetUp(w)'
    <3>1. FdsSound(w) /\ SetUp(w)
      BY <2>4 DEF ControlInv, Controlled
    <3>2. FdsSound(w)'
      BY <2>1, <2>2, <3>1 DEF FdsSound, Fds, At, IsValid, Opening, Is
    <3>3. SetUp(w)'
      BY <2>1, <2>2, <3>1 DEF SetUp, IsValid
    <3> QED
      BY <3>2, <3>3
  <2> QED
    BY <2>1, <2>3, <2>4 DEF ControlInv, Controlled, Controller, Users
<1> QED
  BY <1>1, <1>2, <1>3, <1>4, <1>5 DEF Next

(* When one thread opens, closes, renames and sets the port, whatever the   *)
(* others read, write and flush meanwhile: an open port has a descriptor    *)
(* set up as that thread asked unless something failed, and no descriptor   *)
(* is lost but by an open() that failed after it had one.                   *)
THEOREM ControlledCorrect == Spec => [](OneControls => Consistent)
<1>1. Inv /\ ControlInv => (OneControls => OpenIsConfigured /\ DescriptorsAccounted)
  <2> SUFFICES ASSUME Inv, ControlInv, NEW w \in Threads, Controller(w)
               PROVE  OpenIsConfigured /\ DescriptorsAccounted
    BY DEF OneControls
  <2>1. w \in Users /\ Threads = Users
    BY DEF Inv, Calls, CallsTyped, Threads
  <2>2. FdsSound(w) /\ SetUp(w)
    BY <2>1 DEF ControlInv, Controlled
  <2> QED
    BY <2>1, <2>2 DEF FdsSound, SetUp, OpenIsConfigured, DescriptorsAccounted, Fds
<1>2. Spec => []ControlInv
  <2>1. Init => Inv /\ ControlInv
    BY InvInit, ControlInit
  <2>2. Inv /\ ControlInv /\ [Next]_vars => Inv' /\ ControlInv'
    BY InvNext, ControlNext
  <2> QED
    BY <2>1, <2>2, PTL DEF Spec
<1>3. (OneControls => OpenIsConfigured /\ DescriptorsAccounted) /\ TypeOK /\ MutexesGivenBack
      => (OneControls => Consistent)
  BY DEF Consistent
<1> QED
  BY <1>1, <1>2, <1>3, InvCorrect, TypeCorrect, MutexesCorrect, PTL

=============================================================================
