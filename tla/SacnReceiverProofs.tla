------------------------- MODULE SacnReceiverProofs -------------------------
(***************************************************************************)
(* What a receiver's application may rely on, proved for any network, any  *)
(* times, and universe changes and networking resets between the           *)
(* collecting of notifications and their delivery: the termination sets    *)
(* hold tracked sources only, no source and no priorities are dropped in   *)
(* silence, none is reported lost that is not, and the callbacks are those *)
(* that ReceiverApi promises.                                              *)
(***************************************************************************)
EXTENDS SacnReceiver, FiniteSetTheorems, TLAPS

-----------------------------------------------------------------------------
(* Types, of a given network.                                               *)

Timers == 0 .. SourceLossTimeout
SampleTimes == 0 .. SampleTime
Intervals == {0, WaitForPriority, SourceLossTimeout}
States == {"WaitingForPap", "HaveDmxOnly", "HavePapOnly", "HaveDmxAndPap"}

SourceType(netints) ==
    [netint : netints, packet_timer : Timers, terminated : BOOLEAN,
     dmx_received_since_last_tick : BOOLEAN, recv_state : States, pap_interval : Intervals,
     pap_timer : Timers]

(* The intervals a priority timer may be started with are within the          *)
(* timeout for lost sources.                                                *)
LEMMA IntervalsFit ==
    /\ SourceLossTimeout \in Timers /\ 0 \in Timers /\ Intervals \subseteq Timers
    /\ SourceLossTimeout \in Intervals /\ WaitForPriority \in Intervals /\ 0 \in Intervals
BY TimesAssumption DEF Timers, Intervals

(* Functions from some of the elements of S to T.                           *)
Partial(S, T) == UNION {[D -> T] : D \in SUBSET S}

Flags == [offline : BOOLEAN, terminated : BOOLEAN]

TermSet(handles) == [wait_period : 0 .. ExpiredWait, sources : Partial(handles, Flags)]

ReceiverType(net) ==
    [netints : SUBSET net.netints, sp : Partial(net.netints, BOOLEAN),
     sampling : BOOLEAN, notified_sampling_started : BOOLEAN,
     sample_timer : SampleTimes, suppress_limit_exceeded : BOOLEAN,
     sources : Partial(DOMAIN net.sends, SourceType(net.netints)),
     term_sets : SUBSET TermSet(DOMAIN net.sends)]

(* What it takes to be such a function.                                     *)
LEMMA PartialIs ==
    ASSUME NEW S, NEW T, NEW f
    PROVE  f \in Partial(S, T) <=>
             /\ DOMAIN f \subseteq S /\ f = [x \in DOMAIN f |-> f[x]]
             /\ \A x \in DOMAIN f : f[x] \in T
<1>1. ASSUME f \in Partial(S, T)
      PROVE  /\ DOMAIN f \subseteq S /\ f = [x \in DOMAIN f |-> f[x]]
             /\ \A x \in DOMAIN f : f[x] \in T
  <2>1. PICK D \in SUBSET S : f \in [D -> T]
    BY <1>1 DEF Partial
  <2> QED
    BY <2>1
<1>2. ASSUME DOMAIN f \subseteq S, f = [x \in DOMAIN f |-> f[x]], \A x \in DOMAIN f : f[x] \in T
      PROVE  f \in Partial(S, T)
  <2>1. f \in [DOMAIN f -> T] /\ DOMAIN f \in SUBSET S
    BY <1>2
  <2> QED
    BY <2>1 DEF Partial
<1> QED
  BY <1>1, <1>2

(* A function given by its values.                                          *)
LEMMA PartialOf ==
    ASSUME NEW S, NEW T, NEW D \in SUBSET S, NEW f, f \in [D -> T]
    PROVE  f \in Partial(S, T) /\ DOMAIN f = D
BY DEF Partial

-----------------------------------------------------------------------------
(* A source.                                                                *)

PapStates == {"HavePapOnly", "HaveDmxAndPap"}

IsWaiting(s) == s.recv_state = "WaitingForPap"

(* A source keeps its type, and after levels it is known to have sent some. *)
LEMMA NullStartCode ==
    ASSUME NEW netints, NEW s \in SourceType(netints), NEW t, t = process_null_start_code(s)
    PROVE  /\ t \in SourceType(netints) /\ t.netint = s.netint /\ t.terminated = s.terminated
           /\ t.dmx_received_since_last_tick
           /\ IsWaiting(t) => IsWaiting(s) /\ ~IsExpired(s.pap_timer)
           /\ t.recv_state \in PapStates =>
                s.recv_state \in PapStates /\ ~PapLost(s, "dmx")
           /\ PapLost(s, "dmx") => s.recv_state \in PapStates
           /\ s.recv_state \in PapStates /\ ~PapLost(s, "dmx") => t.recv_state \in PapStates
<1> DEFINE heard == [s EXCEPT !.dmx_received_since_last_tick = TRUE,
                              !.packet_timer = SourceLossTimeout]
           both == [heard EXCEPT !.recv_state = "HaveDmxAndPap"]
           only == [heard EXCEPT !.recv_state = "HaveDmxOnly", !.pap_interval = 0, !.pap_timer = 0]
<1>1. /\ heard \in SourceType(netints) /\ heard.netint = s.netint
      /\ heard.terminated = s.terminated /\ heard.dmx_received_since_last_tick
      /\ heard.recv_state = s.recv_state
  BY IntervalsFit DEF SourceType
<1>2. /\ both \in SourceType(netints) /\ both.netint = s.netint
      /\ both.terminated = s.terminated /\ both.dmx_received_since_last_tick
      /\ both.recv_state = "HaveDmxAndPap"
  BY IntervalsFit DEF SourceType, States
<1>3. /\ only \in SourceType(netints) /\ only.netint = s.netint
      /\ only.terminated = s.terminated /\ only.dmx_received_since_last_tick
      /\ only.recv_state = "HaveDmxOnly"
  BY IntervalsFit DEF SourceType, States
<1>4. t = CASE s.recv_state = "HavePapOnly" -> both
            [] s.recv_state \in {"WaitingForPap", "HaveDmxAndPap"} /\ IsExpired(s.pap_timer) -> only
            [] OTHER -> heard
  <2>1. only = StartPapTimer([heard EXCEPT !.recv_state = "HaveDmxOnly"], 0)
    BY DEF StartPapTimer, SourceType
  <2> QED
    BY <2>1 DEF process_null_start_code
<1> HIDE DEF heard, both, only
<1>5. s.recv_state \in States
  BY DEF SourceType
<1>6. CASE s.recv_state = "HavePapOnly"
  BY <1>2, <1>4, <1>6 DEF IsWaiting, PapStates, PapLost
<1>7. CASE s.recv_state \in {"WaitingForPap", "HaveDmxAndPap"} /\ IsExpired(s.pap_timer)
  BY <1>3, <1>4, <1>7 DEF IsWaiting, PapStates, PapLost
<1>8. CASE /\ s.recv_state # "HavePapOnly"
           /\ ~(s.recv_state \in {"WaitingForPap", "HaveDmxAndPap"} /\ IsExpired(s.pap_timer))
  BY <1>1, <1>4, <1>8 DEF IsWaiting, PapStates, PapLost
<1> QED
  BY <1>6, <1>7, <1>8

(* After priorities it is known to have them.                               *)
LEMMA Pap ==
    ASSUME NEW netints, NEW s \in SourceType(netints), NEW t, t = process_pap(s)
    PROVE  /\ t \in SourceType(netints) /\ t.netint = s.netint /\ t.terminated = s.terminated
           /\ t.packet_timer = s.packet_timer
           /\ t.dmx_received_since_last_tick = s.dmx_received_since_last_tick
           /\ t.recv_state \in PapStates
<1> DEFINE both == [s EXCEPT !.recv_state = "HaveDmxAndPap",
                             !.pap_interval = SourceLossTimeout, !.pap_timer = SourceLossTimeout]
           again == [s EXCEPT !.pap_interval = s.pap_interval, !.pap_timer = s.pap_interval]
<1>1. /\ both \in SourceType(netints) /\ both.netint = s.netint
      /\ both.terminated = s.terminated /\ both.packet_timer = s.packet_timer
      /\ both.dmx_received_since_last_tick = s.dmx_received_since_last_tick
      /\ both.recv_state = "HaveDmxAndPap"
  BY IntervalsFit DEF SourceType, States
<1>2. /\ again \in SourceType(netints) /\ again.netint = s.netint
      /\ again.terminated = s.terminated /\ again.packet_timer = s.packet_timer
      /\ again.dmx_received_since_last_tick = s.dmx_received_since_last_tick
      /\ again.recv_state = s.recv_state
  BY IntervalsFit DEF SourceType
<1>3. t = IF s.recv_state \in {"WaitingForPap", "HaveDmxOnly"} THEN both ELSE again
  <2>1. /\ both = StartPapTimer([s EXCEPT !.recv_state = "HaveDmxAndPap"], SourceLossTimeout)
        /\ again = StartPapTimer(s, s.pap_interval)
    BY DEF StartPapTimer, SourceType
  <2> QED
    BY <2>1 DEF process_pap
<1>4. s.recv_state \in States
  BY DEF SourceType
<1> HIDE DEF both, again
<1> QED
  BY <1>1, <1>2, <1>3, <1>4 DEF States, PapStates

(* One that ended or whose interface went has timed out.                    *)
LEMMA MarkTerminated ==
    ASSUME NEW netints, NEW s \in SourceType(netints), NEW t, t = mark_source_terminated(s)
    PROVE  /\ t \in SourceType(netints) /\ t.netint = s.netint /\ t.terminated
           /\ t.packet_timer = 0 /\ t.recv_state = s.recv_state
BY IntervalsFit DEF mark_source_terminated, SourceType

(* One that was not tracked.                                                *)
LEMMA NewOne ==
    ASSUME NEW netints, NEW n \in netints, NEW kind \in {"dmx", "pap"},
           NEW sampling \in BOOLEAN, NEW t, t = NewSource(n, kind, sampling)
    PROVE  /\ t \in SourceType(netints) /\ t.netint = n /\ ~t.terminated
           /\ IsWaiting(t) <=> kind = "dmx" /\ ~sampling
           /\ t.recv_state \in PapStates <=> kind = "pap"
<1>1. \E state \in States, interval \in Intervals :
         /\ t = [netint |-> n, packet_timer |-> SourceLossTimeout, terminated |-> FALSE,
                 dmx_received_since_last_tick |-> TRUE, recv_state |-> state,
                 pap_interval |-> interval, pap_timer |-> interval]
         /\ state = "WaitingForPap" <=> kind = "dmx" /\ ~sampling
         /\ state \in PapStates <=> kind = "pap"
  BY IntervalsFit DEF NewSource, States, PapStates
<1> QED
  BY <1>1, IntervalsFit DEF SourceType, IsWaiting

-----------------------------------------------------------------------------
(* Termination sets.                                                        *)

OfflineIn(set, h) == set.sources[h].offline

(* The sets are not empty, have no source in common, and hold sources that  *)
(* the application may know of; one that is offline was silent for the      *)
(* timeout, or came back since the thread processed last.                   *)
TermsSound(sets, sources) ==
    /\ \A set \in sets :
          DOMAIN set.sources # {} /\ DOMAIN set.sources \subseteq DOMAIN sources
    /\ \A set, other \in sets :
          set # other => DOMAIN set.sources \cap DOMAIN other.sources = {}
    /\ \A set \in sets : \A h \in DOMAIN set.sources :
          /\ ~IsWaiting(sources[h])
          /\ OfflineIn(set, h) =>
                IsExpired(sources[h].packet_timer) \/ sources[h].dmx_received_since_last_tick

(* The parts of a set.                                                      *)
LEMMA TermSetParts ==
    ASSUME NEW handles, NEW set \in TermSet(handles)
    PROVE  /\ set.wait_period \in 0 .. ExpiredWait /\ DOMAIN set.sources \subseteq handles
           /\ set.sources \in [DOMAIN set.sources -> Flags]
           /\ set = [wait_period |-> set.wait_period, sources |-> set.sources]
<1>1. set.sources \in Partial(handles, Flags)
  BY DEF TermSet
<1>2. DOMAIN set.sources \subseteq handles
  BY <1>1, PartialIs
<1>3. /\ set.sources = [x \in DOMAIN set.sources |-> set.sources[x]]
      /\ \A x \in DOMAIN set.sources : set.sources[x] \in Flags
  BY <1>1, PartialIs
<1>4. set.sources \in [DOMAIN set.sources -> Flags]
  BY <1>3
<1> QED
  BY <1>2, <1>4 DEF TermSet

(* A set made of parts.                                                     *)
LEMMA TermSetOf ==
    ASSUME NEW handles, NEW wait \in 0 .. ExpiredWait, NEW D \in SUBSET handles,
           NEW f \in [D -> Flags],
           NEW set, set = [wait_period |-> wait, sources |-> f]
    PROVE  /\ set \in TermSet(handles) /\ set.sources = f /\ set.wait_period = wait
           /\ DOMAIN set.sources = D
<1>1. f \in Partial(handles, Flags)
  BY PartialOf
<1> QED
  BY <1>1 DEF TermSet

(* A set keeps its sources when some go offline.                            *)
LEMMA MarkedOfflineIs ==
    ASSUME NEW handles, NEW set \in TermSet(handles),
           NEW offline, \A h \in DOMAIN offline : offline[h] \in BOOLEAN,
           NEW m, m = MarkedOffline(set, offline)
    PROVE  /\ m \in TermSet(handles) /\ DOMAIN m.sources = DOMAIN set.sources
           /\ \A h \in DOMAIN set.sources :
                 OfflineIn(m, h) => OfflineIn(set, h) \/ h \in DOMAIN offline
<1> DEFINE D == DOMAIN set.sources
           f == [h \in D |-> IF h \in DOMAIN offline /\ ~set.sources[h].offline
                             THEN Offline(offline[h]) ELSE set.sources[h]]
<1>1. /\ set.wait_period \in 0 .. ExpiredWait /\ D \in SUBSET handles
      /\ set.sources \in [D -> Flags]
      /\ set = [wait_period |-> set.wait_period, sources |-> set.sources]
  BY TermSetParts
<1>2. f \in [D -> Flags]
  BY <1>1 DEF Offline, Flags
<1>3. m = [wait_period |-> set.wait_period, sources |-> f]
  BY <1>1 DEF MarkedOffline
<1>4. \A h \in D : f[h].offline => set.sources[h].offline \/ h \in DOMAIN offline
  OBVIOUS
<1> HIDE DEF D, f
<1>5. m \in TermSet(handles) /\ m.sources = f /\ DOMAIN m.sources = D
  BY <1>1, <1>2, <1>3, TermSetOf
<1> QED
  BY <1>1, <1>5, <1>4 DEF D, OfflineIn

(* A set made for source h and its peers, only h being offline.             *)
IsNewSet(m, handles, h, peers) ==
    /\ m \in TermSet(handles) /\ DOMAIN m.sources = {h} \cup peers
    /\ \A x \in DOMAIN m.sources : OfflineIn(m, x) => x = h

(* A set that mark_sources_offline makes is such a set.                     *)
LEMMA NewTermSetIs ==
    ASSUME NEW handles, NEW h, h \in handles, NEW offline, offline[h] \in BOOLEAN,
           NEW peers, peers \in SUBSET handles,
           NEW m, m = NewTermSet(h, offline[h], peers, ExpiredWait)
    PROVE  IsNewSet(m, handles, h, peers)
<1> DEFINE D == {h} \cup peers
           f == [x \in D |-> IF x = h THEN Offline(offline[h]) ELSE Undecided]
<1>1. f \in [D -> Flags]
  BY DEF Offline, Undecided, Flags
<1>2. ExpiredWait \in 0 .. ExpiredWait
  BY TimesAssumption
<1>3. m = [wait_period |-> ExpiredWait, sources |-> f]
  BY DEF NewTermSet
<1>4. D \in SUBSET handles
  OBVIOUS
<1>5. \A x \in D : f[x].offline => x = h
  BY DEF Undecided
<1> HIDE DEF D, f
<1>6. m \in TermSet(handles) /\ m.sources = f /\ DOMAIN m.sources = D
  BY <1>1, <1>2, <1>3, <1>4, TermSetOf
<1> QED
  BY <1>5, <1>6 DEF D, OfflineIn, IsNewSet

(* Handles are numbers.                                                     *)
AreNumbers(handles) == handles \subseteq Nat

(* The sets stay sound when sources go offline that have timed out.         *)
LEMMA MarkOffline ==
    ASSUME NEW handles, AreNumbers(handles), NEW sources, DOMAIN sources \subseteq handles,
           NEW sets \in SUBSET TermSet(handles), TermsSound(sets, sources),
           NEW offline, DOMAIN offline \subseteq DOMAIN sources,
           \A h \in DOMAIN offline :
              offline[h] \in BOOLEAN /\ ~IsWaiting(sources[h]) /\ IsExpired(sources[h].packet_timer),
           NEW unknown \in SUBSET DOMAIN sources,
           \A h \in unknown : h \notin DOMAIN offline /\ ~IsWaiting(sources[h]),
           NEW marked, marked = mark_sources_offline(sets, offline, unknown, ExpiredWait)
    PROVE  marked \in SUBSET TermSet(handles) /\ TermsSound(marked, sources)
<1> DEFINE waits == Waiting(sets)
           fresh == DOMAIN offline \ waits
           undecided == unknown \ waits
           IsFirst(h) == \A x \in fresh : h <= x
           New(h) == NewTermSet(h, offline[h], IF IsFirst(h) THEN undecided ELSE {}, ExpiredWait)
           Old(set) == MarkedOffline(set, offline)
<1>1. marked = {Old(set) : set \in sets} \cup {New(h) : h \in fresh}
  BY DEF mark_sources_offline
<1>2. /\ fresh \subseteq DOMAIN offline /\ fresh \subseteq handles /\ fresh \cap waits = {}
      /\ undecided \subseteq handles /\ undecided \subseteq DOMAIN sources
      /\ undecided \cap waits = {} /\ undecided \cap fresh = {}
  OBVIOUS
<1>3. ASSUME NEW set \in sets
      PROVE  /\ Old(set) \in TermSet(handles) /\ DOMAIN Old(set).sources = DOMAIN set.sources
             /\ DOMAIN set.sources \subseteq waits
             /\ \A h \in DOMAIN set.sources :
                   OfflineIn(Old(set), h) => OfflineIn(set, h) \/ h \in DOMAIN offline
  <2>1. DOMAIN set.sources \subseteq waits
    BY DEF Waiting
  <2>2. set \in TermSet(handles) /\ \A h \in DOMAIN offline : offline[h] \in BOOLEAN
    OBVIOUS
  <2> HIDE DEF waits
  <2> QED
    BY <2>1, <2>2, MarkedOfflineIs
<1>4. ASSUME NEW h \in fresh
      PROVE  /\ New(h) \in TermSet(handles) /\ h \in DOMAIN New(h).sources
             /\ DOMAIN New(h).sources \subseteq {h} \cup undecided
             /\ ~IsFirst(h) => DOMAIN New(h).sources = {h}
             /\ \A x \in DOMAIN New(h).sources : OfflineIn(New(h), x) => x = h
  <2> DEFINE peers == IF IsFirst(h) THEN undecided ELSE {}
  <2>1. h \in handles
    BY <1>2
  <2>5. offline[h] \in BOOLEAN
    BY <1>2
  <2>6. peers \in SUBSET handles
    BY <1>2
  <2>2. New(h) = NewTermSet(h, offline[h], peers, ExpiredWait)
    OBVIOUS
  <2>3. peers \subseteq undecided /\ (~IsFirst(h) => peers = {})
    OBVIOUS
  <2> HIDE DEF peers, New, IsFirst, undecided, fresh, waits
  <2>7. IsNewSet(New(h), handles, h, peers)
    BY <2>1, <2>5, <2>6, <2>2, NewTermSetIs
  <2> QED
    BY <2>3, <2>7 DEF IsNewSet
<1>5. ASSUME NEW h \in fresh, NEW x \in fresh, IsFirst(h), IsFirst(x) PROVE h = x
  <2>1. h \in Nat /\ x \in Nat
    BY <1>2 DEF AreNumbers
  <2>2. h <= x /\ x <= h
    BY <1>5
  <2> QED
    BY <2>1, <2>2
<1> HIDE DEF New, Old, IsFirst, undecided, fresh, waits
<1>6. marked \in SUBSET TermSet(handles)
  BY <1>1, <1>3, <1>4
<1>7. ASSUME NEW m \in marked
      PROVE  /\ DOMAIN m.sources # {} /\ DOMAIN m.sources \subseteq DOMAIN sources
             /\ \A h \in DOMAIN m.sources :
                   /\ ~IsWaiting(sources[h])
                   /\ OfflineIn(m, h) =>
                        \/ IsExpired(sources[h].packet_timer)
                        \/ sources[h].dmx_received_since_last_tick
  <2>1. ASSUME NEW set \in sets, m = Old(set) PROVE <1>7!2
    BY <1>3, <2>1 DEF TermsSound
  <2>2. ASSUME NEW h \in fresh, m = New(h) PROVE <1>7!2
    BY <1>2, <1>4, <2>2 DEF undecided
  <2> QED
    BY <1>1, <2>1, <2>2
<1>8. ASSUME NEW m \in marked, NEW other \in marked, m # other
      PROVE  DOMAIN m.sources \cap DOMAIN other.sources = {}
  <2>1. ASSUME NEW set \in sets, m = Old(set), NEW s \in sets, other = Old(s)
        PROVE  DOMAIN m.sources \cap DOMAIN other.sources = {}
    BY <1>3, <1>8, <2>1 DEF TermsSound
  <2>2. ASSUME NEW set \in sets, NEW h \in fresh
        PROVE  DOMAIN Old(set).sources \cap DOMAIN New(h).sources = {}
    BY <1>2, <1>3, <1>4
  <2>3. ASSUME NEW h \in fresh, NEW x \in fresh, h # x
        PROVE  DOMAIN New(h).sources \cap DOMAIN New(x).sources = {}
    BY <1>2, <1>4, <1>5, <2>3
  <2> QED
    BY <1>1, <1>8, <2>1, <2>2, <2>3
<1> QED
  BY <1>6, <1>7, <1>8 DEF TermsSound

(* After the thread processed: one that is offline was silent for the       *)
(* timeout.                                                                 *)
TermsOfSilent(sets, sources) ==
    \A set \in sets : \A h \in DOMAIN set.sources :
        OfflineIn(set, h) => IsExpired(sources[h].packet_timer)

(* A set without the sources that came back.                                *)
LEMMA MarkedOnlineIs ==
    ASSUME NEW handles, NEW set, set \in TermSet(handles), NEW online,
           NEW m, m = MarkedOnline(set, online)
    PROVE  /\ m \in TermSet(handles) /\ DOMAIN m.sources = DOMAIN set.sources \ online
           /\ \A h \in DOMAIN m.sources : OfflineIn(m, h) => OfflineIn(set, h)
<1> DEFINE D == DOMAIN set.sources \ online
           f == [h \in D |-> set.sources[h]]
<1>1. /\ set.wait_period \in 0 .. ExpiredWait /\ DOMAIN set.sources \subseteq handles
      /\ set.sources \in [DOMAIN set.sources -> Flags]
      /\ set = [wait_period |-> set.wait_period, sources |-> set.sources]
  BY TermSetParts
<1>2. f \in [D -> Flags] /\ D \in SUBSET handles
  BY <1>1
<1>3. m = [wait_period |-> set.wait_period, sources |-> f]
  BY <1>1 DEF MarkedOnline, Restrict
<1>4. \A h \in D : f[h] = set.sources[h]
  OBVIOUS
<1> HIDE DEF D, f
<1>5. m \in TermSet(handles) /\ m.sources = f /\ DOMAIN m.sources = D
  BY <1>1, <1>2, <1>3, TermSetOf
<1> QED
  BY <1>4, <1>5 DEF D, OfflineIn

(* When the sources that are online left their sets, those still offline    *)
(* there are silent.                                                        *)
LEMMA MarkOnline ==
    ASSUME NEW handles, NEW sources,
           NEW sets, sets \in SUBSET TermSet(handles), TermsSound(sets, sources),
           NEW online,
           \A h \in DOMAIN sources :
              ~IsWaiting(sources[h]) /\ sources[h].dmx_received_since_last_tick
                => IsExpired(sources[h].packet_timer) \/ h \in online,
           NEW marked, marked = mark_sources_online(sets, online)
    PROVE  /\ marked \in SUBSET TermSet(handles) /\ TermsSound(marked, sources)
           /\ TermsOfSilent(marked, sources) /\ Waiting(marked) \cap online = {}
<1> DEFINE New(set) == MarkedOnline(set, online)
<1>1. \A m \in marked : DOMAIN m.sources # {} /\ \E set \in sets : m = New(set)
  BY DEF mark_sources_online, HasSources
<1>2. ASSUME NEW set \in sets
      PROVE  /\ New(set) \in TermSet(handles) /\ DOMAIN New(set).sources = DOMAIN set.sources \ online
             /\ \A h \in DOMAIN New(set).sources : OfflineIn(New(set), h) => OfflineIn(set, h)
  <2>1. set \in TermSet(handles)
    OBVIOUS
  <2> QED
    BY <2>1, MarkedOnlineIs
<1> HIDE DEF New
<1>3. marked \in SUBSET TermSet(handles)
  BY <1>1, <1>2
<1>4. ASSUME NEW m \in marked
      PROVE  /\ DOMAIN m.sources \subseteq DOMAIN sources
             /\ \A h \in DOMAIN m.sources :
                   /\ ~IsWaiting(sources[h]) /\ h \notin online
                   /\ OfflineIn(m, h) => IsExpired(sources[h].packet_timer)
  <2>1. PICK set \in sets : m = New(set)
    BY <1>1
  <2>2. /\ DOMAIN set.sources \subseteq DOMAIN sources
        /\ \A h \in DOMAIN set.sources :
              /\ ~IsWaiting(sources[h])
              /\ OfflineIn(set, h) =>
                   \/ IsExpired(sources[h].packet_timer)
                   \/ sources[h].dmx_received_since_last_tick
    BY DEF TermsSound
  <2>3. /\ DOMAIN m.sources = DOMAIN set.sources \ online
        /\ \A h \in DOMAIN m.sources : OfflineIn(m, h) => OfflineIn(set, h)
    BY <1>2, <2>1
  <2> QED
    BY <2>2, <2>3
<1>5. ASSUME NEW m \in marked, NEW other \in marked, m # other
      PROVE  DOMAIN m.sources \cap DOMAIN other.sources = {}
  <2>1. PICK set \in sets : m = New(set)
    BY <1>1
  <2>2. PICK s \in sets : other = New(s)
    BY <1>1
  <2>3. DOMAIN set.sources \cap DOMAIN s.sources = {}
    BY <1>5, <2>1, <2>2 DEF TermsSound
  <2> QED
    BY <1>2, <2>1, <2>2, <2>3
<1>6. TermsSound(marked, sources)
  BY <1>1, <1>4, <1>5 DEF TermsSound
<1>7. TermsOfSilent(marked, sources)
  BY <1>4 DEF TermsOfSilent
<1>8. Waiting(marked) \cap online = {}
  BY <1>4 DEF Waiting
<1> QED
  BY <1>3, <1>6, <1>7, <1>8

(* The lost sources are silent, and in no set any more.                     *)
LEMMA GetExpired ==
    ASSUME NEW handles, NEW sources,
           NEW sets, sets \in SUBSET TermSet(handles), TermsSound(sets, sources),
           TermsOfSilent(sets, sources),
           NEW e, e = get_expired_sources(sets)
    PROVE  /\ e.lost \in Partial(handles, BOOLEAN)
           /\ e.term_sets \in SUBSET sets /\ Waiting(e.term_sets) \cap DOMAIN e.lost = {}
           /\ DOMAIN e.lost \subseteq DOMAIN sources
           /\ \A h \in DOMAIN e.lost :
                 ~IsWaiting(sources[h]) /\ IsExpired(sources[h].packet_timer)
<1> DEFINE gone == ExpiredSources(sets)
           stay == {set \in sets : ~Expired(set)}
           SetOf(h) == CHOOSE set \in sets : h \in DOMAIN set.sources
           lost == [h \in gone |-> SetOf(h).sources[h].terminated]
<1>1. e = [lost |-> lost, term_sets |-> stay]
  BY DEF get_expired_sources
<1>2. ASSUME NEW h \in gone
      PROVE  \E set \in sets : /\ h \in DOMAIN set.sources /\ Expired(set)
  BY DEF ExpiredSources
<1>3. ASSUME NEW h \in gone
      PROVE  h \in handles /\ lost[h] \in BOOLEAN
  <2>1. SetOf(h) \in sets /\ h \in DOMAIN SetOf(h).sources
    BY <1>2
  <2> DEFINE set == SetOf(h)
  <2>2. set \in TermSet(handles) /\ h \in DOMAIN set.sources
    BY <2>1
  <2>3. lost[h] = set.sources[h].terminated
    OBVIOUS
  <2> HIDE DEF set, lost
  <2>4. DOMAIN set.sources \subseteq handles /\ set.sources \in [DOMAIN set.sources -> Flags]
    BY <2>2, TermSetParts
  <2>5. set.sources[h] \in Flags /\ h \in handles
    BY <2>2, <2>4
  <2>6. set.sources[h].terminated \in BOOLEAN
    BY <2>5 DEF Flags
  <2> QED
    BY <2>3, <2>5, <2>6
<1>4. ASSUME NEW h \in gone
      PROVE  /\ h \in DOMAIN sources /\ ~IsWaiting(sources[h])
             /\ IsExpired(sources[h].packet_timer)
  <2>1. PICK set \in sets : h \in DOMAIN set.sources /\ Expired(set)
    BY <1>2
  <2>2. OfflineIn(set, h)
    BY <2>1 DEF Expired, OfflineIn
  <2> QED
    BY <2>1, <2>2 DEF TermsSound, TermsOfSilent
<1>5. Waiting(stay) \cap gone = {}
  <2>1. ASSUME NEW set \in stay, NEW h \in DOMAIN set.sources, h \in gone PROVE FALSE
    <3>1. PICK s \in sets : h \in DOMAIN s.sources /\ Expired(s)
      BY <1>2, <2>1
    <3> QED
      BY <2>1, <3>1 DEF TermsSound
  <2> HIDE DEF stay, gone
  <2> QED
    BY <2>1 DEF Waiting
<1>6. lost \in Partial(handles, BOOLEAN) /\ DOMAIN lost = gone
  <2>1. lost = [h \in gone |-> lost[h]]
    OBVIOUS
  <2> HIDE DEF lost, gone
  <2>2. lost \in [gone -> BOOLEAN] /\ gone \in SUBSET handles
    BY <1>3, <2>1
  <2> QED
    BY <2>2, PartialOf
<1>7. stay \in SUBSET sets
  OBVIOUS
<1> HIDE DEF lost, stay, gone
<1> QED
  BY <1>1, <1>4, <1>5, <1>6, <1>7

-----------------------------------------------------------------------------
(* The receiver.                                                            *)

(* The sources of a receiver, and one of them.                              *)
LEMMA SourcesOf ==
    ASSUME NEW net, NEW r, r \in ReceiverType(net)
    PROVE  /\ r.sources \in Partial(DOMAIN net.sends, SourceType(net.netints))
           /\ r.term_sets \in SUBSET TermSet(DOMAIN net.sends)
           /\ r.suppress_limit_exceeded \in BOOLEAN /\ r.sampling \in BOOLEAN
           /\ DOMAIN r.sources \subseteq DOMAIN net.sends
           /\ r.sources \in [DOMAIN r.sources -> SourceType(net.netints)]
           /\ \A h \in DOMAIN r.sources : r.sources[h] \in SourceType(net.netints)
<1>1. /\ r.sources \in Partial(DOMAIN net.sends, SourceType(net.netints))
      /\ r.term_sets \in SUBSET TermSet(DOMAIN net.sends)
      /\ r.suppress_limit_exceeded \in BOOLEAN /\ r.sampling \in BOOLEAN
  BY DEF ReceiverType
<1>2. /\ DOMAIN r.sources \subseteq DOMAIN net.sends
      /\ r.sources = [h \in DOMAIN r.sources |-> r.sources[h]]
      /\ \A h \in DOMAIN r.sources : r.sources[h] \in SourceType(net.netints)
  BY <1>1, PartialIs
<1>3. r.sources \in [DOMAIN r.sources -> SourceType(net.netints)]
  BY <1>2
<1> QED
  BY <1>1, <1>2, <1>3

(* A source seen since the thread processed last, noted as seen.            *)
LEMMA Seen ==
    ASSUME NEW netints, NEW s, s \in SourceType(netints),
           NEW t, t = [s EXCEPT !.dmx_received_since_last_tick = FALSE]
    PROVE  /\ t \in SourceType(netints) /\ t.recv_state = s.recv_state
           /\ t.packet_timer = s.packet_timer /\ t.terminated = s.terminated
           /\ t.netint = s.netint
<1> HIDE DEF Timers, Intervals, States
<1> QED
  BY DEF SourceType

(* Two sources that are alike for the application.                          *)
Alike(s, t) ==
    s.recv_state = t.recv_state /\ s.terminated = t.terminated /\ s.netint = t.netint

(* What the processing of all sources keeps and whom it drops: those that   *)
(* are reported lost, which are silent, and those still waiting for         *)
(* priorities, which nobody knows of.                                       *)
ProcessedWell(net, r, result) ==
    /\ result.receiver \in ReceiverType(net)
    /\ TermsSound(result.receiver.term_sets, result.receiver.sources)
    /\ result.lost \in Partial(DOMAIN net.sends, BOOLEAN)
    /\ DOMAIN result.receiver.sources \subseteq DOMAIN r.sources
    /\ \A h \in DOMAIN r.sources : h \notin DOMAIN result.receiver.sources =>
          IsWaiting(r.sources[h]) \/ h \in DOMAIN result.lost
    /\ \A h \in DOMAIN result.receiver.sources :
          Alike(result.receiver.sources[h], r.sources[h])
    /\ \A h \in DOMAIN result.lost :
          /\ h \in DOMAIN r.sources /\ h \notin DOMAIN result.receiver.sources
          /\ ~IsWaiting(r.sources[h]) /\ IsExpired(r.sources[h].packet_timer)
    /\ result.receiver.sp = r.sp /\ result.receiver.netints = r.netints
    /\ result.receiver.sampling = r.sampling

(* process_receiver_sources processes so.                                   *)
LEMMA ProcessSources ==
    ASSUME NEW net, AreNumbers(DOMAIN net.sends), NEW r, r \in ReceiverType(net),
           TermsSound(r.term_sets, r.sources),
           NEW result, result = process_receiver_sources(r)
    PROVE  ProcessedWell(net, r, result)
<1> DEFINE handles == DOMAIN net.sends
           D == DOMAIN r.sources
           lists == StatusLists(r.sources)
           offline == [h \in lists.offline |-> r.sources[h].terminated]
           marked == mark_sources_offline(r.term_sets, offline, lists.unknown, ExpiredWait)
           expired == OnlineThenLost(marked, lists.online)
           gone == lists.forgotten \cup DOMAIN expired.lost
           seen == [h \in D |-> IF h \in lists.online
                                THEN [r.sources[h] EXCEPT !.dmx_received_since_last_tick = FALSE]
                                ELSE r.sources[h]]
           kept == Without(seen, gone)
           suppress == r.suppress_limit_exceeded /\ DOMAIN expired.lost = {}
           next == [r EXCEPT !.sources = kept, !.term_sets = expired.term_sets,
                             !.suppress_limit_exceeded = suppress]
<1>1. result = [lost |-> expired.lost, receiver |-> next]
  BY DEF process_receiver_sources
<1>2. /\ D \subseteq handles /\ r.term_sets \in SUBSET TermSet(handles)
      /\ r.suppress_limit_exceeded \in BOOLEAN
      /\ \A h \in D : r.sources[h] \in SourceType(net.netints)
  BY SourcesOf
<1>3. /\ lists.offline \subseteq D /\ lists.unknown \subseteq D /\ lists.online \subseteq D
      /\ lists.forgotten \subseteq D
      /\ \A h \in D :
            /\ h \in lists.offline <=> IsOffline(r.sources[h])
            /\ h \in lists.unknown <=> IsUnknown(r.sources[h])
            /\ h \in lists.online <=> IsOnline(r.sources[h])
            /\ h \in lists.forgotten <=> IsForgotten(r.sources[h])
  BY DEF StatusLists
<1>4. DOMAIN offline = lists.offline /\ \A h \in lists.offline : offline[h] = r.sources[h].terminated
  OBVIOUS
<1>5. DOMAIN seen = D
  OBVIOUS
<1>6. DOMAIN kept = D \ gone /\ \A h \in D \ gone : kept[h] = seen[h]
  BY DEF Without, Restrict
<1>7. \A h \in D : seen[h] = r.sources[h]
                   \/ seen[h] = [r.sources[h] EXCEPT !.dmx_received_since_last_tick = FALSE]
  OBVIOUS
<1>8. \A h \in D \ lists.online : seen[h] = r.sources[h]
  OBVIOUS
<1>9. kept = [h \in DOMAIN kept |-> kept[h]]
  BY DEF Without, Restrict
<1> HIDE DEF D, handles, lists, offline
<1>10. \A h \in DOMAIN offline :
          offline[h] \in BOOLEAN /\ ~IsWaiting(r.sources[h]) /\ IsExpired(r.sources[h].packet_timer)
  <2> SUFFICES ASSUME NEW h \in lists.offline
               PROVE  /\ offline[h] \in BOOLEAN /\ ~IsWaiting(r.sources[h])
                      /\ IsExpired(r.sources[h].packet_timer)
    BY <1>4
  <2>1. h \in D /\ IsOffline(r.sources[h])
    BY <1>3
  <2>2. offline[h] \in BOOLEAN
    BY <1>2, <1>4, <2>1 DEF SourceType
  <2> QED
    BY <2>1, <2>2 DEF IsOffline, IsWaiting
<1>11. \A h \in lists.unknown : h \notin DOMAIN offline /\ ~IsWaiting(r.sources[h])
  BY <1>3, <1>4 DEF IsUnknown, IsOffline, IsWaiting
<1>12. marked \in SUBSET TermSet(handles) /\ TermsSound(marked, r.sources)
  <2>1. AreNumbers(handles) /\ D \subseteq handles /\ DOMAIN offline \subseteq D
    BY <1>2, <1>3, <1>4 DEF handles
  <2>2. lists.unknown \in SUBSET D
    BY <1>3
  <2> QED
    BY <1>2, <1>10, <1>11, <2>1, <2>2, MarkOffline DEF D
<1> HIDE DEF marked
<1> DEFINE back == mark_sources_online(marked, lists.online)
<1>13. \A h \in D : ~IsWaiting(r.sources[h]) /\ r.sources[h].dmx_received_since_last_tick
                      => IsExpired(r.sources[h].packet_timer) \/ h \in lists.online
  BY <1>3 DEF IsOnline, IsWaiting
<1>14. /\ back \in SUBSET TermSet(handles) /\ TermsSound(back, r.sources)
       /\ TermsOfSilent(back, r.sources) /\ Waiting(back) \cap lists.online = {}
  BY <1>12, <1>13, MarkOnline DEF D
<1>15. expired = get_expired_sources(back)
  BY DEF OnlineThenLost
<1> HIDE DEF back, expired
<1>16. /\ expired.lost \in Partial(handles, BOOLEAN)
       /\ expired.term_sets \in SUBSET back
       /\ Waiting(expired.term_sets) \cap DOMAIN expired.lost = {}
       /\ DOMAIN expired.lost \subseteq D
       /\ \A h \in DOMAIN expired.lost :
             ~IsWaiting(r.sources[h]) /\ IsExpired(r.sources[h].packet_timer)
  BY <1>14, <1>15, GetExpired DEF D
<1>17. \A h \in D : /\ seen[h] \in SourceType(net.netints) /\ Alike(seen[h], r.sources[h])
                    /\ seen[h].packet_timer = r.sources[h].packet_timer
  BY <1>2, <1>7, Seen DEF Alike
<1> HIDE DEF seen, kept
<1>18. kept \in Partial(handles, SourceType(net.netints))
  BY <1>2, <1>6, <1>9, <1>17, PartialIs
<1>19. suppress \in BOOLEAN
  OBVIOUS
<1>20. expired.term_sets \in SUBSET TermSet(handles)
  BY <1>14, <1>16
<1> HIDE DEF suppress, gone
<1>21. /\ next \in ReceiverType(net) /\ next.sources = kept /\ next.term_sets = expired.term_sets
       /\ next.sp = r.sp /\ next.netints = r.netints /\ next.sampling = r.sampling
  <2>1. kept \in Partial(DOMAIN net.sends, SourceType(net.netints))
    BY <1>18 DEF handles
  <2>2. expired.term_sets \in SUBSET TermSet(DOMAIN net.sends)
    BY <1>20 DEF handles
  <2> DEFINE sets == expired.term_sets
  <2>3. next = [r EXCEPT !.sources = kept, !.term_sets = sets,
                         !.suppress_limit_exceeded = suppress]
    OBVIOUS
  <2> HIDE DEF sets, next
  <2>4. /\ next \in ReceiverType(net) /\ next.sources = kept /\ next.term_sets = sets
        /\ next.sp = r.sp /\ next.netints = r.netints /\ next.sampling = r.sampling
    <3> HIDE DEF Partial, SourceType, TermSet, SampleTimes
    <3>1. sets \in SUBSET TermSet(DOMAIN net.sends)
      BY <2>2 DEF sets
    <3> QED
      BY <1>19, <2>1, <2>3, <3>1 DEF ReceiverType
  <2> QED
    BY <2>4 DEF sets
<1>22. TermsSound(expired.term_sets, kept)
  <2>1. ASSUME NEW set \in expired.term_sets, NEW h \in DOMAIN set.sources
        PROVE  /\ h \in DOMAIN kept /\ ~IsWaiting(kept[h])
               /\ OfflineIn(set, h) => IsExpired(kept[h].packet_timer)
    <3>1. /\ h \in D /\ ~IsWaiting(r.sources[h])
          /\ OfflineIn(set, h) => IsExpired(r.sources[h].packet_timer)
      BY <1>14, <1>16 DEF TermsSound, TermsOfSilent, D
    <3>2. h \in Waiting(expired.term_sets)
      BY DEF Waiting
    <3>3. h \notin DOMAIN expired.lost /\ h \notin lists.forgotten
      BY <1>3, <1>16, <3>1, <3>2 DEF IsForgotten, IsWaiting
    <3>4. h \in DOMAIN kept /\ kept[h] = seen[h]
      BY <1>6, <3>1, <3>3 DEF gone
    <3> QED
      BY <1>17, <3>1, <3>4 DEF Alike, IsWaiting
  <2>2. \A set \in expired.term_sets : DOMAIN set.sources # {}
    BY <1>14, <1>16 DEF TermsSound
  <2>3. \A set, other \in expired.term_sets :
           set # other => DOMAIN set.sources \cap DOMAIN other.sources = {}
    BY <1>14, <1>16 DEF TermsSound
  <2> QED
    BY <2>1, <2>2, <2>3 DEF TermsSound
<1>23. result.receiver = next /\ result.lost = expired.lost
  BY <1>1
<1>24. \A h \in D : h \notin DOMAIN kept => IsWaiting(r.sources[h]) \/ h \in DOMAIN expired.lost
  BY <1>3, <1>6 DEF gone, IsForgotten, IsWaiting
<1>25. \A h \in DOMAIN kept : Alike(kept[h], r.sources[h])
  BY <1>6, <1>17
<1>26. \A h \in DOMAIN expired.lost : h \in D /\ h \notin DOMAIN kept
  BY <1>6, <1>16 DEF gone
<1>27. DOMAIN kept \subseteq D
  BY <1>6
<1> HIDE DEF next
<1> QED
  BY <1>16, <1>21, <1>22, <1>23, <1>24, <1>25, <1>26, <1>27 DEF ProcessedWell, handles, D

(* A sampling period begins: nothing but the period changes.                *)
LEMMA BeginSampling ==
    ASSUME NEW net, NEW r, r \in ReceiverType(net), NEW t, t = begin_sampling_period(r)
    PROVE  /\ t \in ReceiverType(net) /\ t.sources = r.sources /\ t.term_sets = r.term_sets
           /\ t.sp = r.sp /\ t.netints = r.netints /\ t.sampling
<1> HIDE DEF Partial, SourceType, TermSet, SampleTimes
<1>1. CASE r.sampling
  BY <1>1 DEF begin_sampling_period
<1>2. CASE ~r.sampling
  <2>1. t = [r EXCEPT !.sampling = TRUE, !.notified_sampling_started = FALSE,
                      !.sample_timer = SampleTime]
    BY <1>2 DEF begin_sampling_period
  <2>2. SampleTime \in SampleTimes
    BY TimesAssumption DEF SampleTimes
  <2> QED
    BY <2>1, <2>2 DEF ReceiverType
<1> QED
  BY <1>1, <1>2

(* It ends, and the interfaces that wait are sampled in the next.           *)
LEMMA EndSampling ==
    ASSUME NEW net, NEW r, r \in ReceiverType(net), NEW t, t = end_current_sampling_period(r)
    PROVE  /\ t \in ReceiverType(net) /\ t.sources = r.sources /\ t.term_sets = r.term_sets
           /\ t.sp = [n \in NextToSample(r.sp) |-> FALSE] /\ t.netints = r.netints
<1> DEFINE sp == [n \in NextToSample(r.sp) |-> FALSE]
           rest == [r EXCEPT !.sampling = FALSE, !.sp = sp]
<1>1. sp \in Partial(net.netints, BOOLEAN)
  <2>1. r.sp \in Partial(net.netints, BOOLEAN)
    BY DEF ReceiverType
  <2>2. DOMAIN r.sp \subseteq net.netints
    BY <2>1, PartialIs
  <2>3. NextToSample(r.sp) \in SUBSET net.netints /\ sp \in [NextToSample(r.sp) -> BOOLEAN]
    BY <2>2 DEF NextToSample
  <2> HIDE DEF sp
  <2> QED
    BY <2>3, PartialOf
<1> HIDE DEF sp, Partial, SourceType, TermSet, SampleTimes
<1>2. /\ rest \in ReceiverType(net) /\ rest.sources = r.sources /\ rest.term_sets = r.term_sets
      /\ rest.sp = sp /\ rest.netints = r.netints
  BY <1>1 DEF ReceiverType
<1>3. t = IF NextToSample(r.sp) = {} THEN rest ELSE begin_sampling_period(rest)
  BY DEF end_current_sampling_period, sp
<1> HIDE DEF rest
<1>4. CASE NextToSample(r.sp) = {}
  BY <1>2, <1>3, <1>4 DEF sp
<1>5. CASE NextToSample(r.sp) # {}
  <2>1. t = begin_sampling_period(rest)
    BY <1>3, <1>5
  <2>2. /\ t \in ReceiverType(net) /\ t.sources = rest.sources /\ t.term_sets = rest.term_sets
        /\ t.sp = rest.sp /\ t.netints = rest.netints
    BY <1>2, <2>1, BeginSampling
  <2> QED
    BY <1>2, <2>2 DEF sp
<1> QED
  BY <1>4, <1>5

-----------------------------------------------------------------------------
(* The notifications.                                                       *)

DataKinds == {"dmx", "pap", "other", "pap lost"}

Truths == BOOLEAN

DataNotes(handles) ==
    [kind : DataKinds, source : handles, is_sampling : Truths, stray : Truths,
     stale : BOOLEAN]
LostNotes(handles) == [kind : {"lost"}, lost : Partial(handles, BOOLEAN), stale : BOOLEAN]
PlainNotes == [kind : {"limit", "started", "ended"}, stale : BOOLEAN]

NoteType(handles) == DataNotes(handles) \cup LostNotes(handles) \cup PlainNotes

AppType(handles) ==
    [known : SUBSET handles, pap : SUBSET handles, sampled : SUBSET handles,
     stray : SUBSET handles, sampling : BOOLEAN, failed : BOOLEAN]

(* A notification that became stale.                                        *)
LEMMA Staled ==
    ASSUME NEW handles, NEW note, note \in NoteType(handles),
           NEW n, n = [note EXCEPT !.stale = TRUE]
    PROVE  n \in NoteType(handles) /\ n.stale /\ n.kind = note.kind
<1> HIDE DEF Partial, DataKinds
<1>1. CASE note \in DataNotes(handles)
  <2>1. n \in DataNotes(handles) /\ n.stale /\ n.kind = note.kind
    BY <1>1 DEF DataNotes
  <2> QED
    BY <2>1 DEF NoteType
<1>2. CASE note \in LostNotes(handles)
  <2>1. n \in LostNotes(handles) /\ n.stale /\ n.kind = note.kind
    BY <1>2 DEF LostNotes
  <2> QED
    BY <2>1 DEF NoteType
<1>3. CASE note \in PlainNotes
  <2>1. n \in PlainNotes /\ n.stale /\ n.kind = note.kind
    BY <1>3 DEF PlainNotes
  <2> QED
    BY <2>1 DEF NoteType
<1> QED
  BY <1>1, <1>2, <1>3 DEF NoteType

(* The kinds of notifications, and what is in them.                         *)
LEMMA NoteParts ==
    ASSUME NEW handles, NEW note, note \in NoteType(handles)
    PROVE  /\ note.kind \in {"dmx", "pap", "other", "pap lost", "lost", "limit", "started", "ended"}
           /\ note.kind \in DataKinds => note.source \in handles
           /\ note.stale \in BOOLEAN
BY DEF NoteType, DataNotes, LostNotes, PlainNotes, DataKinds

(* The elements of sequences put together.                                  *)
LEMMA RangeOfConcat ==
    ASSUME NEW T, NEW s, s \in Seq(T), NEW t, t \in Seq(T)
    PROVE  s \o t \in Seq(T) /\ Range(s \o t) = Range(s) \cup Range(t)
<1>1. s \o t \in Seq(T) /\ Len(s \o t) = Len(s) + Len(t)
  OBVIOUS
<1>2. ASSUME NEW x \in Range(s) PROVE x \in Range(s \o t)
  <2>1. PICK i \in DOMAIN s : x = s[i]
    BY DEF Range
  <2>2. i \in DOMAIN (s \o t) /\ (s \o t)[i] = x
    BY <2>1
  <2> QED
    BY <2>2 DEF Range
<1>3. ASSUME NEW x \in Range(t) PROVE x \in Range(s \o t)
  <2>1. PICK i \in DOMAIN t : x = t[i]
    BY DEF Range
  <2>2. Len(s) + i \in DOMAIN (s \o t) /\ (s \o t)[Len(s) + i] = x
    BY <2>1
  <2> QED
    BY <2>2 DEF Range
<1>4. ASSUME NEW x \in Range(s \o t) PROVE x \in Range(s) \cup Range(t)
  <2>1. PICK i \in DOMAIN (s \o t) : x = (s \o t)[i]
    BY DEF Range
  <2>2. CASE i <= Len(s)
    <3>1. i \in DOMAIN s /\ x = s[i]
      BY <2>1, <2>2
    <3> QED
      BY <3>1 DEF Range
  <2>3. CASE i > Len(s)
    <3>1. i - Len(s) \in DOMAIN t /\ x = t[i - Len(s)]
      BY <2>1, <2>3
    <3> QED
      BY <3>1 DEF Range
  <2> QED
    BY <2>1, <2>2, <2>3
<1> QED
  BY <1>1, <1>2, <1>3, <1>4

(* The first of a sequence and the others.                                  *)
LEMMA RangeOfTail ==
    ASSUME NEW T, NEW s, s \in Seq(T), s # <<>>
    PROVE  /\ Head(s) \in T /\ Tail(s) \in Seq(T)
           /\ Range(s) = {Head(s)} \cup Range(Tail(s))
<1>1. Head(s) \in T /\ Tail(s) \in Seq(T) /\ Len(Tail(s)) = Len(s) - 1 /\ Len(s) > 0
  OBVIOUS
<1>2. ASSUME NEW x \in Range(s) PROVE x \in {Head(s)} \cup Range(Tail(s))
  <2>1. PICK i \in DOMAIN s : x = s[i]
    BY DEF Range
  <2>2. CASE i = 1
    BY <2>1, <2>2
  <2>3. CASE i # 1
    <3>1. i - 1 \in DOMAIN Tail(s) /\ x = Tail(s)[i - 1]
      BY <2>1, <2>3
    <3> QED
      BY <3>1 DEF Range
  <2> QED
    BY <2>2, <2>3
<1>3. ASSUME NEW x \in Range(Tail(s)) PROVE x \in Range(s)
  <2>1. PICK i \in DOMAIN Tail(s) : x = Tail(s)[i]
    BY DEF Range
  <2>2. i + 1 \in DOMAIN s /\ x = s[i + 1]
    BY <2>1
  <2> QED
    BY <2>2 DEF Range
<1>4. Head(s) \in Range(s)
  BY <1>1 DEF Range
<1> QED
  BY <1>1, <1>2, <1>3, <1>4

(* A sequence of one or none.                                               *)
LEMMA WhenIs ==
    ASSUME NEW T, NEW note, note \in T, NEW s, s = <<>> \/ s = <<note>>
    PROVE  s \in Seq(T) /\ Range(s) \subseteq {note} /\ (s = <<note>> => note \in Range(s))
<1>1. CASE s = <<>>
  BY <1>1 DEF Range
<1>2. CASE s = <<note>>
  <2>1. s \in Seq(T) /\ DOMAIN s = {1} /\ s[1] = note
    BY <1>2
  <2> QED
    BY <2>1 DEF Range
<1> QED
  BY <1>1, <1>2

-----------------------------------------------------------------------------
(* The inductive invariant.                                                 *)

Typed ==
    /\ network \in Networks /\ created \in BOOLEAN /\ due \in BOOLEAN
    /\ receiver \in ReceiverType(network) /\ notes \in Seq(NoteType(Handles))
    /\ app \in AppType(Handles)

Sound == TermsSound(receiver.term_sets, receiver.sources)

(* Without a receiver nothing is to be delivered, and after a call that     *)
(* failed the application uses nothing.                                     *)
Over == (~created => notes = <<>>) /\ (app.failed => app = AfterFailure)

HasLevels(sources, h) == h \in DOMAIN sources /\ ~IsWaiting(sources[h])
HasPap(sources, h) == h \in DOMAIN sources /\ sources[h].recv_state \in PapStates

PendIn(ns, kind, h) == \E note \in Range(ns) :
    ~note.stale /\ note.kind = kind
      /\ IF kind = "lost" THEN h \in DOMAIN note.lost ELSE note.source = h

(* What the application uses, and what it is about to be given, is there:   *)
(* the source is tracked and does not wait for its priorities, as those     *)
(* that wait are dropped without a word.                                    *)
LevelsKept(a, ns, sources) ==
    \A h \in a.known : HasLevels(sources, h) \/ PendIn(ns, "lost", h)

PapKept(a, ns, sources) ==
    \A h \in a.pap :
        HasPap(sources, h) \/ PendIn(ns, "pap lost", h) \/ PendIn(ns, "lost", h)

DataIsOf(note, sources) ==
    ~note.stale /\ note.kind \in {"dmx", "pap"} =>
        /\ HasLevels(sources, note.source)
        /\ note.kind = "pap" => HasPap(sources, note.source)

DataKept(ns, sources) == \A note \in Range(ns) : DataIsOf(note, sources)

AppKept(a, ns, sources) ==
    LevelsKept(a, ns, sources) /\ PapKept(a, ns, sources) /\ DataKept(ns, sources)

Kept == AppKept(app, notes, receiver.sources)

IInv == Typed /\ Sound /\ Over /\ Kept

(* Sources that stay what they are keep what the application was given.     *)
SameForApp(sources, others) ==
    \A h : /\ HasLevels(sources, h) => HasLevels(others, h)
           /\ HasPap(sources, h) => HasPap(others, h)

(* What it was given stays there with sources that are the same to it.      *)
LEMMA KeptBySame ==
    ASSUME NEW a, NEW ns, NEW sources, NEW others,
           AppKept(a, ns, sources), SameForApp(sources, others)
    PROVE  AppKept(a, ns, others)
<1> HIDE DEF PendIn, HasLevels, HasPap
<1> QED
  BY DEF AppKept, LevelsKept, PapKept, DataKept, DataIsOf, SameForApp

(* Sources that are alike are the same for the application.                 *)
LEMMA AlikeIsSame ==
    ASSUME NEW sources, NEW others, DOMAIN sources = DOMAIN others,
           \A h \in DOMAIN sources : sources[h].recv_state = others[h].recv_state
    PROVE  SameForApp(sources, others)
BY DEF SameForApp, HasLevels, HasPap, IsWaiting

(* An application that was told nothing, of a universe it knows nothing of. *)
LEMMA NothingKept ==
    ASSUME NEW a, a.known = {}, a.pap = {}, NEW ns, \A note \in Range(ns) : note.stale,
           NEW sources
    PROVE  AppKept(a, ns, sources)
BY DEF AppKept, LevelsKept, PapKept, DataKept, DataIsOf

(* The network's handles.                                                   *)
LEMMA NetworkIs ==
    ASSUME Typed
    PROVE  AreNumbers(Handles) /\ network.source_count_max \in Nat
           /\ IsFiniteSet(network.netints)
BY NetworksAssumption DEF Typed, Handles, AreNumbers

(* What the application knows when it was told nothing.                     *)
LEMMA NothingToldIs ==
    ASSUME NEW handles
    PROVE  /\ NothingTold \in AppType(handles) /\ AfterFailure \in AppType(handles)
           /\ NothingTold.known = {} /\ NothingTold.pap = {} /\ ~NothingTold.failed
           /\ AfterFailure.known = {} /\ AfterFailure.pap = {} /\ AfterFailure.failed
<1>1. /\ NothingTold = [known |-> {}, pap |-> {}, sampled |-> {}, stray |-> {},
                        sampling |-> FALSE, failed |-> FALSE]
      /\ AfterFailure = [known |-> {}, pap |-> {}, sampled |-> {}, stray |-> {},
                         sampling |-> FALSE, failed |-> TRUE]
  <2>1. ASSUME NEW E, NEW F, NEW T, NEW x,
               x = [known |-> E, pap |-> E, sampled |-> E, stray |-> E,
                    sampling |-> F, failed |-> F]
        PROVE  [x EXCEPT !.failed = T] =
                 [known |-> E, pap |-> E, sampled |-> E, stray |-> E,
                  sampling |-> F, failed |-> T]
    BY <2>1
  <2>2. NothingTold = [known |-> {}, pap |-> {}, sampled |-> {}, stray |-> {},
                       sampling |-> FALSE, failed |-> FALSE]
    BY DEF NothingTold
  <2>3. AfterFailure = [NothingTold EXCEPT !.failed = TRUE]
    BY DEF AfterFailure
  <2> QED
    BY <2>1, <2>2, <2>3
<1> QED
  BY <1>1 DEF AppType

(* A receiver just made.                                                    *)
LEMMA NewReceiverIs ==
    ASSUME NEW net, NEW netints, netints \in SUBSET net.netints,
           NEW r, r = NewReceiver(netints)
    PROVE  /\ r \in ReceiverType(net) /\ TermsSound(r.term_sets, r.sources)
           /\ DOMAIN r.sources = {} /\ r.term_sets = {}
<1> DEFINE sp == [n \in netints |-> FALSE]
           none == [h \in {} |-> {}]
<1>1. r = [netints |-> netints, sp |-> sp, sampling |-> TRUE,
           notified_sampling_started |-> FALSE, sample_timer |-> SampleTime,
           suppress_limit_exceeded |-> FALSE, sources |-> none, term_sets |-> {}]
  BY DEF NewReceiver
<1>2. sp \in [netints -> BOOLEAN]
  OBVIOUS
<1>3. none \in [{} -> SourceType(net.netints)] /\ {} \in SUBSET DOMAIN net.sends
  OBVIOUS
<1>4. DOMAIN none = {}
  OBVIOUS
<1> HIDE DEF sp, none
<1>5. sp \in Partial(net.netints, BOOLEAN)
  BY <1>2, PartialOf
<1>6. none \in Partial(DOMAIN net.sends, SourceType(net.netints))
  BY <1>3, PartialOf
<1>7. SampleTime \in SampleTimes
  BY TimesAssumption DEF SampleTimes
<1> HIDE DEF Partial, SourceType, TermSet, SampleTimes
<1>8. {} \in SUBSET TermSet(DOMAIN net.sends)
  OBVIOUS
<1>9. r \in ReceiverType(net)
  BY <1>1, <1>5, <1>6, <1>7, <1>8 DEF ReceiverType
<1>10. r.sources = none /\ r.term_sets = {}
  BY <1>1
<1> QED
  BY <1>4, <1>9, <1>10 DEF TermsSound

(* The specification begins with it.                                        *)
LEMMA InitIsSound ==
    ASSUME Init
    PROVE  IInv
<1>1. /\ network \in Networks /\ created = TRUE /\ due = FALSE /\ notes = <<>>
      /\ receiver = NewReceiver(network.netints) /\ app = NothingTold
  BY DEF Init
<1>2. network.netints \in SUBSET network.netints
  OBVIOUS
<1>3. receiver \in ReceiverType(network) /\ TermsSound(receiver.term_sets, receiver.sources)
  BY <1>1, <1>2, NewReceiverIs
<1>4. notes \in Seq(NoteType(Handles)) /\ Range(notes) = {}
  BY <1>1 DEF Range
<1>5. /\ app \in AppType(Handles) /\ app.known = {} /\ app.pap = {} /\ ~app.failed
  BY <1>1, NothingToldIs
<1>6. Typed
  BY <1>1, <1>3, <1>4, <1>5 DEF Typed
<1>7. Kept
  BY <1>4, <1>5, NothingKept DEF Kept
<1> QED
  BY <1>1, <1>3, <1>5, <1>6, <1>7 DEF IInv, Sound, Over

(* Create: nothing is tracked, told or to be told.                          *)
LEMMA CreateKeeps ==
    ASSUME IInv, Create
    PROVE  IInv'
<1>1. /\ ~created /\ created' = TRUE /\ app' = NothingTold
      /\ network' = network /\ due' = due /\ notes' = notes
  BY DEF Create
<1>2. PICK netints \in SUBSET network.netints : receiver' = NewReceiver(netints)
  BY DEF Create
<1>3. receiver' \in ReceiverType(network) /\ TermsSound(receiver'.term_sets, receiver'.sources)
  BY <1>2, NewReceiverIs
<1>4. notes = <<>> /\ Range(notes') = {}
  BY <1>1 DEF IInv, Over, Range
<1>5. app' \in AppType(Handles) /\ app'.known = {} /\ app'.pap = {} /\ ~app'.failed
  BY <1>1, NothingToldIs
<1>6. Typed'
  BY <1>1, <1>3, <1>5 DEF IInv, Typed, Handles
<1>7. Kept'
  BY <1>4, <1>5, NothingKept DEF Kept
<1> QED
  BY <1>1, <1>3, <1>5, <1>6, <1>7 DEF IInv, Sound, Over

(* Destroy: the same.                                                       *)
LEMMA DestroyKeeps ==
    ASSUME IInv, Destroy
    PROVE  IInv'
<1>1. /\ notes = <<>> /\ created' = FALSE /\ app' = NothingTold
      /\ receiver' = NewReceiver({})
      /\ network' = network /\ due' = due /\ notes' = notes
  BY DEF Destroy
<1>2. {} \in SUBSET network.netints
  OBVIOUS
<1>3. receiver' \in ReceiverType(network) /\ TermsSound(receiver'.term_sets, receiver'.sources)
  BY <1>1, <1>2, NewReceiverIs
<1>4. Range(notes') = {}
  BY <1>1 DEF Range
<1>5. app' \in AppType(Handles) /\ app'.known = {} /\ app'.pap = {} /\ ~app'.failed
  BY <1>1, NothingToldIs
<1>6. Typed'
  BY <1>1, <1>3, <1>5 DEF IInv, Typed, Handles
<1>7. Kept'
  BY <1>4, <1>5, NothingKept DEF Kept
<1> QED
  BY <1>1, <1>3, <1>5, <1>6, <1>7 DEF IInv, Sound, Over

(* What sacn_receiver_change_universe does: no source is tracked any more,  *)
(* and the notifications become stale.                                      *)
LEMMA ChangeUniverseIs ==
    ASSUME IInv, ChangeUniverse
    PROVE  /\ UNCHANGED <<network, created, due>> /\ app' \in {NothingTold, AfterFailure}
           /\ receiver' \in ReceiverType(network) /\ DOMAIN receiver'.sources = {}
           /\ receiver'.term_sets = {}
           /\ notes' \in Seq(NoteType(Handles)) /\ DOMAIN notes' = DOMAIN notes
           /\ \A i \in DOMAIN notes : notes'[i].stale /\ notes'[i].kind = notes[i].kind
<1> DEFINE cleared == ClearTermSetsAndSources(receiver)
           all == [n \in receiver.netints |-> FALSE]
           begun == [cleared EXCEPT !.sp = all]
<1>1. /\ created' = created /\ network' = network /\ due' = due
      /\ notes' = [i \in DOMAIN notes |-> [notes[i] EXCEPT !.stale = TRUE]]
      /\ \/ receiver' = begin_sampling_period(begun) /\ app' = NothingTold
         \/ receiver' = cleared /\ app' = AfterFailure
  BY DEF ChangeUniverse
<1>2. /\ cleared \in ReceiverType(network) /\ DOMAIN cleared.sources = {}
      /\ cleared.term_sets = {} /\ cleared.netints \in SUBSET network.netints
      /\ cleared.netints = receiver.netints
  <2> DEFINE none == [h \in {} |-> {}]
  <2>1. cleared = [receiver EXCEPT !.sources = none, !.term_sets = {}]
    BY DEF ClearTermSetsAndSources
  <2>2. none \in [{} -> SourceType(network.netints)] /\ DOMAIN none = {}
    OBVIOUS
  <2>3. {} \in SUBSET DOMAIN network.sends
    OBVIOUS
  <2> HIDE DEF none, cleared
  <2>4. none \in Partial(DOMAIN network.sends, SourceType(network.netints))
    BY <2>2, <2>3, PartialOf
  <2>5. receiver \in ReceiverType(network)
    BY DEF IInv, Typed
  <2> HIDE DEF Partial, SourceType, TermSet, SampleTimes
  <2> QED
    BY <2>1, <2>2, <2>4, <2>5 DEF ReceiverType
<1> HIDE DEF cleared
<1>3. /\ begun \in ReceiverType(network) /\ begun.sources = cleared.sources
      /\ begun.term_sets = {}
  <2>1. all \in [receiver.netints -> BOOLEAN] /\ receiver.netints \in SUBSET network.netints
    BY <1>2
  <2> HIDE DEF all
  <2>2. all \in Partial(network.netints, BOOLEAN)
    BY <2>1, PartialOf
  <2> HIDE DEF Partial, SourceType, TermSet, SampleTimes
  <2> QED
    BY <1>2, <2>2 DEF ReceiverType
<1> HIDE DEF begun
<1>4. /\ receiver' \in ReceiverType(network) /\ DOMAIN receiver'.sources = {}
      /\ receiver'.term_sets = {}
  <2>1. ASSUME NEW t, t = begin_sampling_period(begun)
        PROVE  /\ t \in ReceiverType(network) /\ t.sources = begun.sources
               /\ t.term_sets = begun.term_sets
    BY <1>3, <2>1, BeginSampling
  <2> QED
    BY <1>1, <1>2, <1>3, <2>1
<1>5. /\ notes' \in Seq(NoteType(Handles)) /\ DOMAIN notes' = DOMAIN notes
      /\ \A i \in DOMAIN notes : notes'[i].stale /\ notes'[i].kind = notes[i].kind
  <2>1. notes \in Seq(NoteType(Handles))
    BY DEF IInv, Typed
  <2>2. \A i \in DOMAIN notes : notes[i] \in NoteType(Handles)
    BY <2>1
  <2>3. \A i \in DOMAIN notes : notes'[i] = [notes[i] EXCEPT !.stale = TRUE]
    BY <1>1
  <2>4. \A i \in DOMAIN notes : /\ notes'[i] \in NoteType(Handles) /\ notes'[i].stale
                                /\ notes'[i].kind = notes[i].kind
    <3> SUFFICES ASSUME NEW i \in DOMAIN notes
                 PROVE  /\ notes'[i] \in NoteType(Handles) /\ notes'[i].stale
                        /\ notes'[i].kind = notes[i].kind
      OBVIOUS
    <3> DEFINE note == notes[i]
               n == notes'[i]
    <3>1. note \in NoteType(Handles) /\ n = [note EXCEPT !.stale = TRUE]
      BY <2>2, <2>3
    <3> HIDE DEF note, n
    <3>2. n \in NoteType(Handles) /\ n.stale /\ n.kind = note.kind
      BY <3>1, Staled
    <3> QED
      BY <3>2 DEF n, note
  <2>5. DOMAIN notes' = DOMAIN notes /\ DOMAIN notes = 1 .. Len(notes) /\ Len(notes) \in Nat
    BY <1>1, <2>1
  <2>6. notes' = [i \in 1 .. Len(notes) |-> notes'[i]]
    BY <1>1, <2>5
  <2>7. notes' \in Seq(NoteType(Handles))
    BY <2>4, <2>5, <2>6
  <2> QED
    BY <2>4, <2>5, <2>7
<1> QED
  BY <1>1, <1>4, <1>5

(* Nothing that was kept is lost by it.                                     *)
LEMMA ChangeUniverseKeeps ==
    ASSUME IInv, ChangeUniverse
    PROVE  IInv'
<1>1. /\ UNCHANGED <<network, created, due>> /\ app' \in {NothingTold, AfterFailure}
      /\ receiver' \in ReceiverType(network) /\ DOMAIN receiver'.sources = {}
      /\ receiver'.term_sets = {}
      /\ notes' \in Seq(NoteType(Handles)) /\ DOMAIN notes' = DOMAIN notes
      /\ \A i \in DOMAIN notes : notes'[i].stale
  BY ChangeUniverseIs
<1>2. TermsSound(receiver'.term_sets, receiver'.sources)
  BY <1>1 DEF TermsSound
<1>3. /\ app' \in AppType(Handles) /\ app'.known = {} /\ app'.pap = {}
      /\ app'.failed => app' = AfterFailure
  BY <1>1, NothingToldIs
<1>4. (\A note \in Range(notes') : note.stale) /\ (notes = <<>> => notes' = <<>>)
  BY <1>1 DEF Range
<1>5. Typed'
  BY <1>1, <1>3 DEF IInv, Typed, Handles
<1>6. Kept'
  BY <1>3, <1>4, NothingKept DEF Kept
<1>7. Over'
  BY <1>1, <1>3, <1>4 DEF IInv, Over
<1> QED
  BY <1>1, <1>2, <1>5, <1>6, <1>7 DEF IInv, Sound

(* The interfaces that are sampled after a reset are the receiver's.        *)
Updated(r, netints) ==
    [r EXCEPT !.sp = update_sampling_period_netints(r, netints), !.netints = netints]

(* What update_sampling_period_netints makes of it.                         *)
LEMMA UpdatedIs ==
    ASSUME NEW net, NEW r, r \in ReceiverType(net), NEW netints, netints \in SUBSET net.netints,
           NEW t, t = Updated(r, netints)
    PROVE  /\ t \in ReceiverType(net) /\ t.sources = r.sources /\ t.term_sets = r.term_sets
           /\ t.netints = netints /\ t.sp = update_sampling_period_netints(r, netints)
<1> DEFINE sp == update_sampling_period_netints(r, netints)
<1>1. /\ DOMAIN r.sp \subseteq net.netints /\ r.sampling \in BOOLEAN
      /\ \A n \in DOMAIN r.sp : r.sp[n] \in BOOLEAN
  <2>1. r.sp \in Partial(net.netints, BOOLEAN) /\ r.sampling \in BOOLEAN
    BY DEF ReceiverType
  <2> QED
    BY <2>1, PartialIs
<1>2. sp \in Partial(net.netints, BOOLEAN)
  <2> DEFINE kept == IF r.sampling THEN DOMAIN r.sp \ (r.netints \ netints) ELSE DOMAIN r.sp
             new == netints \ r.netints
  <2>1. sp = [n \in kept \cup new |-> IF n \in DOMAIN r.sp THEN r.sp[n] ELSE r.sampling]
    BY DEF update_sampling_period_netints
  <2>2. kept \cup new \in SUBSET net.netints
    BY <1>1
  <2> DEFINE D == kept \cup new
  <2>3. \A n \in D : sp[n] \in BOOLEAN
    BY <1>1, <2>1
  <2>4. DOMAIN sp = D /\ sp = [n \in D |-> sp[n]]
    BY <2>1
  <2> HIDE DEF sp, kept, new, D
  <2> QED
    BY <2>2, <2>3, <2>4, PartialIs DEF D
<1> HIDE DEF sp, Partial, SourceType, TermSet, SampleTimes
<1>3. t = [r EXCEPT !.sp = sp, !.netints = netints]
  BY DEF sp, Updated
<1>4. t \in ReceiverType(net) /\ t.sources = r.sources /\ t.term_sets = r.term_sets
      /\ t.netints = netints /\ t.sp = sp
  BY <1>2, <1>3 DEF ReceiverType
<1> QED
  BY <1>4 DEF sp

(* The sources of interfaces that went end.                                 *)
LEMMA TerminateRemovedIs ==
    ASSUME NEW net, NEW r, r \in ReceiverType(net), TermsSound(r.term_sets, r.sources),
           NEW t, t = TerminateRemoved(r)
    PROVE  /\ t \in ReceiverType(net) /\ TermsSound(t.term_sets, t.sources)
           /\ DOMAIN t.sources = DOMAIN r.sources /\ t.netints = r.netints /\ t.sp = r.sp
           /\ \A h \in DOMAIN r.sources :
                 /\ t.sources[h].recv_state = r.sources[h].recv_state
                 /\ t.sources[h].netint = r.sources[h].netint
                 /\ t.sources[h].terminated \/ t.sources[h].netint \in r.netints
                 /\ r.sources[h].terminated => t.sources[h].terminated
<1> DEFINE D == DOMAIN r.sources
           sources == [h \in D |-> IF r.sources[h].netint \in r.netints THEN r.sources[h]
                                   ELSE mark_source_terminated(r.sources[h])]
<1>1. t = [r EXCEPT !.sources = sources]
  BY DEF TerminateRemoved
<1>2. DOMAIN sources = D /\ sources = [h \in D |-> sources[h]]
  OBVIOUS
<1>3. \A h \in D : r.sources[h] \in SourceType(net.netints) /\ h \in DOMAIN net.sends
  BY SourcesOf
<1>4. ASSUME NEW h \in D
      PROVE  /\ sources[h] \in SourceType(net.netints)
             /\ sources[h].recv_state = r.sources[h].recv_state
             /\ sources[h].netint = r.sources[h].netint
             /\ sources[h].terminated \/ sources[h].netint \in r.netints
             /\ r.sources[h].terminated => sources[h].terminated
             /\ sources[h] = r.sources[h] \/ IsExpired(sources[h].packet_timer)
  <2>1. CASE r.sources[h].netint \in r.netints
    BY <1>3, <2>1
  <2>2. CASE r.sources[h].netint \notin r.netints
    <3>1. sources[h] = mark_source_terminated(r.sources[h])
      BY <2>2
    <3> HIDE DEF sources
    <3> QED
      BY <1>3, <3>1, MarkTerminated DEF IsExpired
  <2> QED
    BY <2>1, <2>2
<1> HIDE DEF sources
<1>5. sources \in Partial(DOMAIN net.sends, SourceType(net.netints))
  BY <1>2, <1>3, <1>4, PartialIs
<1>6. /\ t \in ReceiverType(net) /\ t.sources = sources /\ t.term_sets = r.term_sets
      /\ t.netints = r.netints /\ t.sp = r.sp
  <2> HIDE DEF Partial, SourceType, TermSet, SampleTimes
  <2> QED
    BY <1>1, <1>5 DEF ReceiverType
<1>7. TermsSound(r.term_sets, sources)
  BY <1>2, <1>4 DEF TermsSound, IsWaiting
<1> QED
  BY <1>2, <1>4, <1>6, <1>7

(* ResetNetworking: sources end, none is forgotten.                         *)
LEMMA ResetNetworkingKeeps ==
    ASSUME IInv, ResetNetworking
    PROVE  IInv'
<1>1. /\ created' = created /\ network' = network /\ due' = due /\ notes' = notes
  BY DEF ResetNetworking
<1>2. PICK netints \in SUBSET network.netints :
         LET updated == [receiver EXCEPT
                            !.sp = update_sampling_period_netints(receiver, netints),
                            !.netints = netints] IN
         \/ receiver' = begin_sampling_period(TerminateRemoved(updated)) /\ app' = app
         \/ receiver' = updated /\ app' = AfterFailure
  BY DEF ResetNetworking
<1> DEFINE updated == [receiver EXCEPT
                          !.sp = update_sampling_period_netints(receiver, netints),
                          !.netints = netints]
           removed == TerminateRemoved(updated)
<1>3. \/ receiver' = begin_sampling_period(removed) /\ app' = app
      \/ receiver' = updated /\ app' = AfterFailure
  BY <1>2
<1>4. receiver \in ReceiverType(network) /\ netints \in SUBSET network.netints
  BY DEF IInv, Typed
<1>5. /\ updated \in ReceiverType(network) /\ updated.sources = receiver.sources
      /\ updated.term_sets = receiver.term_sets
  <2>1. updated = Updated(receiver, netints)
    BY DEF Updated
  <2> HIDE DEF updated
  <2> QED
    BY <1>4, <2>1, UpdatedIs
<1> HIDE DEF updated
<1>6. TermsSound(updated.term_sets, updated.sources)
  BY <1>5 DEF IInv, Sound
<1>7. /\ removed \in ReceiverType(network) /\ TermsSound(removed.term_sets, removed.sources)
      /\ DOMAIN removed.sources = DOMAIN updated.sources
      /\ \A h \in DOMAIN updated.sources :
            removed.sources[h].recv_state = updated.sources[h].recv_state
  BY <1>5, <1>6, TerminateRemovedIs
<1> HIDE DEF removed
<1>8. CASE receiver' = begin_sampling_period(removed) /\ app' = app
  <2>1. /\ receiver' \in ReceiverType(network) /\ receiver'.sources = removed.sources
        /\ receiver'.term_sets = removed.term_sets
    BY <1>7, <1>8, BeginSampling
  <2>2. SameForApp(receiver.sources, receiver'.sources)
    BY <1>5, <1>7, <2>1, AlikeIsSame
  <2>3. AppKept(app, notes, receiver.sources)
    BY DEF IInv, Kept
  <2>4. AppKept(app', notes', receiver'.sources)
    BY <1>1, <1>8, <2>2, <2>3, KeptBySame
  <2>5. Typed'
    BY <1>1, <1>8, <2>1 DEF IInv, Typed, Handles
  <2> QED
    BY <1>1, <1>7, <1>8, <2>1, <2>4, <2>5 DEF IInv, Sound, Over, Kept
<1>9. CASE receiver' = updated /\ app' = AfterFailure
  <2>1. /\ app' \in AppType(Handles) /\ app'.known = {} /\ app'.pap = {}
    BY <1>9, NothingToldIs
  <2>2. AppKept(app, notes, receiver'.sources)
    BY <1>5, <1>9 DEF IInv, Kept
  <2>3. AppKept(app', notes', receiver'.sources)
    BY <1>1, <2>1, <2>2 DEF AppKept, LevelsKept, PapKept
  <2>4. Typed'
    BY <1>1, <1>5, <1>9, <2>1 DEF IInv, Typed, Handles
  <2> QED
    BY <1>1, <1>5, <1>6, <1>9, <2>3, <2>4 DEF IInv, Sound, Over, Kept
<1> QED
  BY <1>3, <1>8, <1>9

(* Time.                                                                    *)
LEMMA ElapseIs ==
    ASSUME NEW k \in Nat, NEW left \in 0 .. k
    PROVE  Elapse(left) \in 0 .. k /\ (IsExpired(left) => IsExpired(Elapse(left)))
BY DEF Elapse, IsExpired

(* A source and a termination set after a unit.                             *)
LEMMA AgedIs ==
    ASSUME NEW netints, NEW s, s \in SourceType(netints), NEW t, t = Aged(s)
    PROVE  /\ t \in SourceType(netints) /\ Alike(t, s)
           /\ IsExpired(s.packet_timer) => IsExpired(t.packet_timer)
           /\ t.dmx_received_since_last_tick = s.dmx_received_since_last_tick
<1>1. s.packet_timer \in Timers /\ s.pap_timer \in Timers
  BY DEF SourceType
<1>2. /\ Elapse(s.packet_timer) \in Timers /\ Elapse(s.pap_timer) \in Timers
      /\ IsExpired(s.packet_timer) => IsExpired(Elapse(s.packet_timer))
  BY <1>1, ElapseIs, TimesAssumption DEF Timers
<1> DEFINE p == Elapse(s.packet_timer)
           q == Elapse(s.pap_timer)
<1>3. t = [s EXCEPT !.packet_timer = p, !.pap_timer = q]
  BY DEF Aged
<1> HIDE DEF p, q, Timers, Intervals, States
<1>4. /\ t \in SourceType(netints) /\ t.packet_timer = p /\ t.recv_state = s.recv_state
      /\ t.terminated = s.terminated /\ t.netint = s.netint
      /\ t.dmx_received_since_last_tick = s.dmx_received_since_last_tick
  BY <1>2, <1>3 DEF SourceType, p, q
<1> QED
  BY <1>2, <1>4 DEF Alike, p

(* A termination set after a unit of time.                                  *)
LEMMA AgedSetIs ==
    ASSUME NEW handles, NEW set, set \in TermSet(handles), NEW t, t = AgedSet(set)
    PROVE  t \in TermSet(handles) /\ t.sources = set.sources
<1>1. set.wait_period \in 0 .. ExpiredWait
  BY DEF TermSet
<1>2. Elapse(set.wait_period) \in 0 .. ExpiredWait
  BY <1>1, ElapseIs, TimesAssumption
<1> DEFINE w == Elapse(set.wait_period)
           W == 0 .. ExpiredWait
<1>3. t = [set EXCEPT !.wait_period = w]
  BY DEF AgedSet
<1>4. set \in [wait_period : W, sources : Partial(handles, Flags)] /\ w \in W
  BY <1>2 DEF TermSet
<1> HIDE DEF w, W, Partial, Flags
<1>5. t \in [wait_period : W, sources : Partial(handles, Flags)] /\ t.sources = set.sources
  BY <1>3, <1>4
<1> QED
  BY <1>5 DEF TermSet, W

(* Tick: timers only.                                                       *)
LEMMA TickKeeps ==
    ASSUME IInv, Tick
    PROVE  IInv'
<1> DEFINE D == DOMAIN receiver.sources
           sources == [h \in D |-> Aged(receiver.sources[h])]
           sets == {AgedSet(set) : set \in receiver.term_sets}
           timer == Elapse(receiver.sample_timer)
<1>1. /\ created' = created /\ network' = network /\ notes' = notes /\ app' = app
      /\ due' = TRUE
      /\ receiver' = [receiver EXCEPT !.sample_timer = timer, !.sources = sources,
                                      !.term_sets = sets]
  BY DEF Tick
<1>2. receiver \in ReceiverType(network)
  BY DEF IInv, Typed
<1>3. timer \in SampleTimes
  <2>1. receiver.sample_timer \in SampleTimes
    BY <1>2 DEF ReceiverType
  <2> QED
    BY <2>1, ElapseIs, TimesAssumption DEF SampleTimes
<1>4. \A h \in D : receiver.sources[h] \in SourceType(network.netints) /\ h \in DOMAIN network.sends
  BY <1>2, SourcesOf
<1>5. DOMAIN sources = D /\ sources = [h \in D |-> sources[h]]
  OBVIOUS
<1>6. \A h \in D : sources[h] = Aged(receiver.sources[h])
  OBVIOUS
<1> HIDE DEF sources
<1>7. \A h \in D :
         /\ sources[h] \in SourceType(network.netints) /\ Alike(sources[h], receiver.sources[h])
         /\ IsExpired(receiver.sources[h].packet_timer) => IsExpired(sources[h].packet_timer)
         /\ sources[h].dmx_received_since_last_tick
              = receiver.sources[h].dmx_received_since_last_tick
  BY <1>4, <1>6, AgedIs
<1>8. sources \in Partial(DOMAIN network.sends, SourceType(network.netints))
  BY <1>4, <1>5, <1>7, PartialIs
<1>9. \A set \in receiver.term_sets :
         AgedSet(set) \in TermSet(DOMAIN network.sends) /\ AgedSet(set).sources = set.sources
  <2>1. receiver.term_sets \in SUBSET TermSet(DOMAIN network.sends)
    BY <1>2, SourcesOf
  <2> QED
    BY <2>1, AgedSetIs
<1>10. sets \in SUBSET TermSet(DOMAIN network.sends)
  BY <1>9
<1>11. \A t \in sets : \E set \in receiver.term_sets : t = AgedSet(set)
  OBVIOUS
<1> HIDE DEF sets, timer
<1>12. receiver' \in ReceiverType(network) /\ receiver'.sources = sources /\ receiver'.term_sets = sets
  <2> HIDE DEF Partial, SourceType, TermSet, SampleTimes
  <2> QED
    BY <1>1, <1>2, <1>3, <1>8, <1>10 DEF ReceiverType
<1>13. TermsSound(sets, sources)
  <2>1. ASSUME NEW t \in sets
        PROVE  /\ DOMAIN t.sources # {} /\ DOMAIN t.sources \subseteq D
               /\ \A h \in DOMAIN t.sources :
                    /\ ~IsWaiting(sources[h])
                    /\ OfflineIn(t, h) =>
                         IsExpired(sources[h].packet_timer) \/ sources[h].dmx_received_since_last_tick
    <3>1. PICK set \in receiver.term_sets : t = AgedSet(set)
      BY <1>11
    <3>2. t.sources = set.sources
      BY <1>9, <3>1
    <3>3. /\ DOMAIN set.sources # {} /\ DOMAIN set.sources \subseteq D
          /\ \A h \in DOMAIN set.sources :
               /\ ~IsWaiting(receiver.sources[h])
               /\ OfflineIn(set, h) =>
                    \/ IsExpired(receiver.sources[h].packet_timer)
                    \/ receiver.sources[h].dmx_received_since_last_tick
      BY DEF IInv, Sound, TermsSound
    <3> QED
      BY <1>7, <3>2, <3>3 DEF Alike, IsWaiting, OfflineIn
  <2>2. ASSUME NEW t \in sets, NEW u \in sets, t # u
        PROVE  DOMAIN t.sources \cap DOMAIN u.sources = {}
    <3>1. PICK set \in receiver.term_sets : t = AgedSet(set)
      BY <1>11
    <3>2. PICK other \in receiver.term_sets : u = AgedSet(other)
      BY <1>11
    <3>3. t.sources = set.sources /\ u.sources = other.sources
      BY <1>9, <3>1, <3>2
    <3> QED
      BY <2>2, <3>1, <3>2, <3>3 DEF IInv, Sound, TermsSound
  <2> QED
    BY <1>5, <2>1, <2>2 DEF TermsSound
<1>14. SameForApp(receiver.sources, sources)
  BY <1>5, <1>7, AlikeIsSame DEF Alike
<1>15. AppKept(app, notes, sources)
  BY <1>14, KeptBySame DEF IInv, Kept
<1>16. Typed'
  BY <1>1, <1>12 DEF IInv, Typed, Handles
<1> QED
  BY <1>1, <1>12, <1>13, <1>15, <1>16 DEF IInv, Sound, Over, Kept

-----------------------------------------------------------------------------
(* Delivery.                                                                *)

(* The application's sets after data of a source.                           *)
LEMMA GotDataIs ==
    ASSUME Typed, NEW note, note.source \in Handles, NEW a, a = GotData(note)
    PROVE  /\ a \in AppType(Handles) /\ a.known = app.known \cup {note.source}
           /\ a.pap = app.pap /\ a.sampling = app.sampling /\ a.failed = app.failed
           /\ a.sampled = IF note.is_sampling THEN app.sampled \cup {note.source}
                          ELSE app.sampled \ {note.source}
           /\ a.stray = IF note.stray THEN app.stray \cup {note.source} ELSE app.stray
<1> DEFINE known == app.known \cup {note.source}
           sampled == IF note.is_sampling THEN app.sampled \cup {note.source}
                      ELSE app.sampled \ {note.source}
           stray == IF note.stray THEN app.stray \cup {note.source} ELSE app.stray
<1>1. a = [app EXCEPT !.known = known, !.sampled = sampled, !.stray = stray]
  BY DEF GotData
<1>2. app \in AppType(Handles)
  BY DEF Typed
<1>3. known \in SUBSET Handles /\ sampled \in SUBSET Handles /\ stray \in SUBSET Handles
  BY <1>2 DEF AppType
<1> HIDE DEF known, sampled, stray
<1>4. /\ a \in AppType(Handles) /\ a.known = known /\ a.sampled = sampled /\ a.stray = stray
      /\ a.pap = app.pap /\ a.sampling = app.sampling /\ a.failed = app.failed
  BY <1>1, <1>2, <1>3 DEF AppType
<1> QED
  BY <1>4 DEF known, sampled, stray

(* What the application has, a, after it was given the notification.        *)
ToldAs(note, a) ==
    /\ a \in AppType(Handles) /\ a.failed = app.failed
    /\ ~Listens(note) => a = app
    /\ Listens(note) /\ note.kind \in {"dmx", "pap"} =>
         /\ a.known = app.known \cup {note.source}
         /\ a.pap = IF note.kind = "pap" THEN app.pap \cup {note.source} ELSE app.pap
         /\ a.sampled = IF note.is_sampling THEN app.sampled \cup {note.source}
                        ELSE app.sampled \ {note.source}
         /\ a.sampling = app.sampling
         /\ a.stray = IF note.stray THEN app.stray \cup {note.source} ELSE app.stray
    /\ Listens(note) /\ note.kind = "pap lost" =>
         /\ a.known = app.known /\ a.pap = app.pap \ {note.source}
         /\ a.sampled = app.sampled /\ a.sampling = app.sampling /\ a.stray = app.stray
    /\ Listens(note) /\ note.kind = "lost" =>
         /\ a.known = app.known \ DOMAIN note.lost /\ a.pap = app.pap \ DOMAIN note.lost
         /\ a.sampled = app.sampled \ DOMAIN note.lost /\ a.sampling = app.sampling
         /\ a.stray = app.stray \ DOMAIN note.lost
    /\ note.kind \in {"limit", "other"} => a = app
    /\ Listens(note) /\ note.kind = "started" =>
         /\ a.known = app.known /\ a.pap = app.pap /\ a.sampled = app.sampled
         /\ a.sampling = TRUE /\ a.stray = app.stray
    /\ Listens(note) /\ note.kind = "ended" =>
         /\ a.known = app.known /\ a.pap = app.pap /\ a.sampled = {}
         /\ a.sampling = FALSE /\ a.stray = app.stray

(* What the application knows after each notification it listens to.        *)
LEMMA ToldIs ==
    ASSUME Typed, NEW note, note \in NoteType(Handles), NEW a, a = Told(note)
    PROVE  ToldAs(note, a)
<1>1. app \in AppType(Handles)
  BY DEF Typed
<1>2. note.kind \in {"dmx", "pap", "other", "pap lost", "lost", "limit", "started", "ended"}
  BY NoteParts
<1>3. CASE ~Listens(note)
  <2>1. a = app
    BY <1>3 DEF Told
  <2> QED
    BY <1>1, <1>3, <2>1 DEF ToldAs
<1>4. CASE Listens(note) /\ note.kind \in {"dmx", "pap"}
  <2> DEFINE got == GotData(note)
  <2>1. note.source \in Handles
    BY <1>4, NoteParts DEF DataKinds
  <2>2. /\ got \in AppType(Handles) /\ got.known = app.known \cup {note.source}
        /\ got.pap = app.pap /\ got.sampling = app.sampling /\ got.failed = app.failed
        /\ got.sampled = IF note.is_sampling THEN app.sampled \cup {note.source}
                         ELSE app.sampled \ {note.source}
        /\ got.stray = IF note.stray THEN app.stray \cup {note.source} ELSE app.stray
    BY <2>1, GotDataIs
  <2>3. a = IF note.kind = "pap" THEN [got EXCEPT !.pap = @ \cup {note.source}] ELSE got
    BY <1>4 DEF Told
  <2> HIDE DEF got
  <2>4. CASE note.kind = "dmx"
    BY <1>4, <2>2, <2>3, <2>4 DEF ToldAs
  <2>5. CASE note.kind = "pap"
    <3> DEFINE pap == app.pap \cup {note.source}
    <3>1. a = [got EXCEPT !.pap = pap]
      BY <2>2, <2>3, <2>5
    <3>2. pap \in SUBSET Handles
      BY <1>1, <2>1 DEF AppType
    <3> HIDE DEF pap
    <3>3. /\ a \in AppType(Handles) /\ a.known = got.known /\ a.pap = pap
          /\ a.sampled = got.sampled /\ a.sampling = got.sampling /\ a.failed = got.failed
          /\ a.stray = got.stray
      BY <2>2, <3>1, <3>2 DEF AppType
    <3> QED
      BY <1>4, <2>2, <2>5, <3>3 DEF pap, ToldAs
  <2> QED
    BY <1>4, <2>4, <2>5 DEF ToldAs
<1>5. CASE Listens(note) /\ note.kind = "pap lost"
  <2>1. a = [app EXCEPT !.pap = @ \ {note.source}]
    BY <1>5 DEF Told
  <2> QED
    BY <1>1, <1>5, <2>1 DEF AppType, ToldAs
<1>6. CASE Listens(note) /\ note.kind = "lost"
  <2> DEFINE known == app.known \ DOMAIN note.lost
             pap == app.pap \ DOMAIN note.lost
             sampled == app.sampled \ DOMAIN note.lost
             stray == app.stray \ DOMAIN note.lost
  <2>1. a = [app EXCEPT !.known = known, !.pap = pap, !.sampled = sampled, !.stray = stray]
    BY <1>6 DEF Told
  <2>2. /\ known \in SUBSET Handles /\ pap \in SUBSET Handles
        /\ sampled \in SUBSET Handles /\ stray \in SUBSET Handles
    BY <1>1 DEF AppType
  <2> HIDE DEF known, pap, sampled, stray
  <2>3. /\ a \in AppType(Handles) /\ a.known = known /\ a.pap = pap
        /\ a.sampled = sampled /\ a.sampling = app.sampling /\ a.failed = app.failed
        /\ a.stray = stray
    BY <1>1, <2>1, <2>2 DEF AppType
  <2> QED
    BY <1>6, <2>3 DEF known, pap, sampled, stray, ToldAs
<1>7. CASE Listens(note) /\ note.kind \in {"limit", "other"}
  <2>1. a = app
    BY <1>7 DEF Told
  <2> QED
    BY <1>1, <1>7, <2>1 DEF ToldAs
<1>8. CASE Listens(note) /\ note.kind = "started"
  <2>1. a = [app EXCEPT !.sampling = TRUE]
    BY <1>8 DEF Told
  <2> QED
    BY <1>1, <1>8, <2>1 DEF AppType, ToldAs
<1>9. CASE Listens(note) /\ note.kind = "ended"
  <2>1. a = [app EXCEPT !.sampling = FALSE, !.sampled = {}]
    BY <1>9 DEF Told
  <2> QED
    BY <1>1, <1>9, <2>1 DEF AppType, ToldAs
<1> QED
  BY <1>2, <1>3, <1>4, <1>5, <1>6, <1>7, <1>8, <1>9

(* A notification is pending when it is the first or among the others.      *)
LEMMA PendingIs ==
    ASSUME NEW T, NEW ns, ns \in Seq(T), ns # <<>>, NEW kind, NEW h, PendIn(ns, kind, h)
    PROVE  \/ PendIn(Tail(ns), kind, h)
           \/ /\ ~Head(ns).stale /\ Head(ns).kind = kind
              /\ IF kind = "lost" THEN h \in DOMAIN Head(ns).lost ELSE Head(ns).source = h
<1>1. PICK note \in Range(ns) : ~note.stale /\ note.kind = kind
         /\ IF kind = "lost" THEN h \in DOMAIN note.lost ELSE note.source = h
  BY DEF PendIn
<1>2. note = Head(ns) \/ note \in Range(Tail(ns))
  BY RangeOfTail
<1> QED
  BY <1>1, <1>2 DEF PendIn

(* Deliver: what the application is given it has for as long as it is kept. *)
LEMMA DeliverKeeps ==
    ASSUME IInv, Deliver
    PROVE  IInv'
<1> DEFINE note == Head(notes)
           a == Told(note)
<1>1. /\ notes # <<>> /\ app' = a /\ notes' = Tail(notes)
      /\ network' = network /\ created' = created /\ receiver' = receiver /\ due' = due
  BY DEF Deliver
<1>2. notes \in Seq(NoteType(Handles)) /\ Typed
  BY DEF IInv, Typed
<1>3. /\ note \in NoteType(Handles) /\ notes' \in Seq(NoteType(Handles))
      /\ Range(notes) = {note} \cup Range(notes')
  BY <1>1, <1>2, RangeOfTail
<1>4. \A kind, h : PendIn(notes, kind, h) =>
         \/ PendIn(notes', kind, h)
         \/ /\ ~note.stale /\ note.kind = kind
            /\ IF kind = "lost" THEN h \in DOMAIN note.lost ELSE note.source = h
  BY <1>1, <1>2, PendingIs
<1> DEFINE sources == receiver.sources
<1>5. LevelsKept(app, notes, sources) /\ PapKept(app, notes, sources) /\ DataKept(notes, sources)
  BY DEF IInv, Kept, AppKept
<1> HIDE DEF note, a
<1>6. a = Told(note)
  BY DEF a
<1>6a. Typed /\ note \in NoteType(Handles)
  BY <1>2, <1>3
<1>6b. ToldAs(note, a)
  BY <1>6, <1>6a, ToldIs
<1>7. a \in AppType(Handles) /\ a.failed = app.failed
  BY <1>6b DEF ToldAs
<1>8. DataKept(notes', sources)
  BY <1>3, <1>5 DEF DataKept
<1>9. note.kind \in {"dmx", "pap", "other", "pap lost", "lost", "limit", "started", "ended"}
  BY <1>3, NoteParts
<1>10. LevelsKept(a, notes', sources) /\ PapKept(a, notes', sources) /\ (a.failed => a = AfterFailure)
  <2>1. CASE app.failed
    <3>0. ~Listens(note)
      BY <2>1 DEF Listens
    <3>1. a = app
      BY <1>6b, <3>0 DEF ToldAs
    <3>2. a.known = {} /\ a.pap = {} /\ a = AfterFailure
      BY <2>1, <3>1, NothingToldIs DEF IInv, Over
    <3> QED
      BY <3>2 DEF LevelsKept, PapKept
  <2>2. CASE ~app.failed /\ note.stale
    <3>0. ~Listens(note)
      BY <2>2 DEF Listens
    <3>1. a = app
      BY <1>6b, <3>0 DEF ToldAs
    <3> QED
      BY <1>4, <1>5, <1>7, <2>2, <3>1 DEF LevelsKept, PapKept
  <2>3. CASE ~app.failed /\ ~note.stale
    <3>1. Listens(note)
      BY <2>3 DEF Listens
    <3>2. CASE note.kind \in {"dmx", "pap"}
      <4>1. a.known = app.known \cup {note.source}
            /\ a.pap = IF note.kind = "pap" THEN app.pap \cup {note.source} ELSE app.pap
        BY <1>6b, <3>1, <3>2 DEF ToldAs
      <4>2. /\ HasLevels(sources, note.source)
            /\ note.kind = "pap" => HasPap(sources, note.source)
        BY <1>3, <1>5, <2>3, <3>2 DEF DataKept, DataIsOf
      <4>3. LevelsKept(a, notes', sources)
        BY <1>4, <1>5, <3>2, <4>1, <4>2 DEF LevelsKept
      <4>4. PapKept(a, notes', sources)
        BY <1>4, <1>5, <3>2, <4>1, <4>2 DEF PapKept
      <4> QED
        BY <1>7, <2>3, <4>3, <4>4
    <3>3. CASE note.kind = "pap lost"
      <4>1. a.known = app.known /\ a.pap = app.pap \ {note.source}
        BY <1>6b, <3>1, <3>3 DEF ToldAs
      <4> QED
        BY <1>4, <1>5, <1>7, <2>3, <3>3, <4>1 DEF LevelsKept, PapKept
    <3>4. CASE note.kind = "lost"
      <4>1. a.known = app.known \ DOMAIN note.lost /\ a.pap = app.pap \ DOMAIN note.lost
        BY <1>6b, <3>1, <3>4 DEF ToldAs
      <4> QED
        BY <1>4, <1>5, <1>7, <2>3, <3>4, <4>1 DEF LevelsKept, PapKept
    <3>5. CASE note.kind \in {"limit", "other", "started", "ended"}
      <4>1. a.known = app.known /\ a.pap = app.pap
        <5>1. CASE note.kind \in {"limit", "other"}
          BY <1>6b, <3>1, <5>1 DEF ToldAs
        <5>2. CASE note.kind = "started"
          BY <1>6b, <3>1, <5>2 DEF ToldAs
        <5>3. CASE note.kind = "ended"
          BY <1>6b, <3>1, <5>3 DEF ToldAs
        <5> QED
          BY <3>5, <5>1, <5>2, <5>3
      <4> QED
        BY <1>4, <1>5, <1>7, <2>3, <3>5, <4>1 DEF LevelsKept, PapKept
    <3> QED
      BY <1>9, <3>2, <3>3, <3>4, <3>5
  <2> QED
    BY <2>1, <2>2, <2>3
<1>11. Typed'
  BY <1>1, <1>2, <1>3, <1>7 DEF Typed, Handles
<1>12. Over'
  BY <1>1, <1>10 DEF IInv, Over
<1>13. AppKept(a, notes', sources)
  BY <1>8, <1>10 DEF AppKept
<1> QED
  BY <1>1, <1>11, <1>12, <1>13 DEF IInv, Sound, Kept

-----------------------------------------------------------------------------
(* Packets.                                                                 *)

(* A tracked source is replaced by what it is after a packet: it does not   *)
(* begin to wait for priorities, and if it was silent or heard of lately,   *)
(* it is still.                                                             *)
MayFollow(s, t) ==
    /\ IsWaiting(t) => IsWaiting(s)
    /\ IsExpired(s.packet_timer) \/ s.dmx_received_since_last_tick =>
         IsExpired(t.packet_timer) \/ t.dmx_received_since_last_tick

Replaced(r, h, t) == [r EXCEPT !.sources[h] = t]

(* The receiver with the source replaced.                                   *)
LEMMA SourceReplaced ==
    ASSUME NEW net, NEW r, r \in ReceiverType(net), TermsSound(r.term_sets, r.sources),
           NEW h, h \in DOMAIN r.sources, NEW t, t \in SourceType(net.netints),
           MayFollow(r.sources[h], t), NEW next, next = Replaced(r, h, t)
    PROVE  /\ next \in ReceiverType(net) /\ TermsSound(next.term_sets, next.sources)
           /\ DOMAIN next.sources = DOMAIN r.sources /\ next.sources[h] = t
           /\ \A x \in DOMAIN r.sources : x # h => next.sources[x] = r.sources[x]
           /\ next.netints = r.netints /\ next.sp = r.sp /\ next.sampling = r.sampling
<1> DEFINE D == DOMAIN r.sources
           sources == [r.sources EXCEPT ![h] = t]
<1>1. /\ D \subseteq DOMAIN net.sends /\ r.sources \in [D -> SourceType(net.netints)]
  BY SourcesOf
<1>2. sources \in [D -> SourceType(net.netints)] /\ D \in SUBSET DOMAIN net.sends
  BY <1>1
<1>3. sources[h] = t /\ \A x \in D : x # h => sources[x] = r.sources[x]
  BY <1>1
<1>4. next = [r EXCEPT !.sources = sources]
  BY DEF Replaced
<1> HIDE DEF sources, D
<1>5. sources \in Partial(DOMAIN net.sends, SourceType(net.netints)) /\ DOMAIN sources = D
  BY <1>2, PartialOf
<1>6. /\ next \in ReceiverType(net) /\ next.sources = sources /\ next.term_sets = r.term_sets
      /\ next.netints = r.netints /\ next.sp = r.sp /\ next.sampling = r.sampling
  <2> HIDE DEF Partial, SourceType, TermSet, SampleTimes
  <2> QED
    BY <1>4, <1>5 DEF ReceiverType
<1>7. TermsSound(r.term_sets, sources)
  <2>1. ASSUME NEW set \in r.term_sets, NEW x \in DOMAIN set.sources
        PROVE  /\ x \in D /\ ~IsWaiting(sources[x])
               /\ OfflineIn(set, x) =>
                    IsExpired(sources[x].packet_timer) \/ sources[x].dmx_received_since_last_tick
    <3>1. /\ x \in D /\ ~IsWaiting(r.sources[x])
          /\ OfflineIn(set, x) =>
               IsExpired(r.sources[x].packet_timer) \/ r.sources[x].dmx_received_since_last_tick
      BY DEF TermsSound, D
    <3> QED
      BY <1>3, <3>1 DEF MayFollow
  <2> QED
    BY <1>5, <2>1 DEF TermsSound
<1> QED
  BY <1>3, <1>5, <1>6, <1>7 DEF D

(* A notification of data.                                                  *)
LEMMA DataNoteIs ==
    ASSUME NEW handles, NEW h, h \in handles, NEW kind, kind \in DataKinds,
           NEW s, s \in Truths, NEW y, y \in Truths,
           NEW note, note = DataNote(h, kind, s, y)
    PROVE  /\ note \in NoteType(handles) /\ note.kind = kind /\ note.source = h
           /\ ~note.stale /\ note.is_sampling = s /\ note.stray = y
<1> HIDE DEF DataKinds, Truths
<1>1. /\ note \in DataNotes(handles) /\ note.kind = kind /\ note.source = h
      /\ ~note.stale /\ note.is_sampling = s /\ note.stray = y
  BY DEF DataNote, DataNotes
<1> QED
  BY <1>1 DEF NoteType

(* Whether it is sampled, or from an interface that went.                   *)
LEMMA Truth ==
    ASSUME NEW n
    PROVE  IsSampled(n) \in Truths /\ IsStray(n) \in Truths
<1>1. (n \in DOMAIN receiver.sp) \in BOOLEAN
  OBVIOUS
<1>2. (n \notin receiver.netints) \in BOOLEAN
  OBVIOUS
<1> QED
  BY <1>1, <1>2, Zenon DEF IsSampled, IsStray, Truths

(* A packet of a source that is tracked, and of one that is not.            *)
KnownStep(h) ==
    \E in_order, hidden : \E n \in network.reaches[h], kind \in Kinds :
        /\ ~IsIgnored(n) /\ (hidden => h \in network.previews)
        /\ KnownSource(h, n, in_order, kind, hidden)
NewStep(h) ==
    \E hidden : \E n \in network.reaches[h], kind \in Kinds :
        /\ ~IsIgnored(n) /\ (hidden => h \in network.previews)
        /\ NewSourceData(h, n, kind, hidden)

(* A packet is one of these two.                                            *)
LEMMA PacketIs ==
    ASSUME Typed, NEW h \in Handles, Packet(h)
    PROVE  /\ Idle /\ UNCHANGED <<network, created, due, app>>
           /\ network.reaches[h] \subseteq network.netints
           /\ KnownStep(h) \/ NewStep(h)
<1>1. Idle /\ UNCHANGED <<network, created, due, app>>
  BY DEF Packet
<1>2. PICK n \in network.reaches[h], kind \in network.sends[h],
           in_order \in Orders, preview \in MayPreview(h) :
         LET hidden == preview /\ FilterPreview IN
         /\ ~IsIgnored(n)
         /\ \/ KnownSource(h, n, in_order, kind, hidden)
            \/ NewSourceData(h, n, kind, hidden)
  BY DEF Packet
<1>3. kind \in Kinds /\ network.reaches[h] \subseteq network.netints
  <2>1. network \in Networks
    BY DEF Typed
  <2>2. /\ network.sends \in [Handles -> SUBSET Kinds]
        /\ network.reaches \in [Handles -> SUBSET network.netints]
    BY <2>1, NetworksAssumption DEF Handles
  <2> QED
    BY <2>2
<1> DEFINE hidden == preview /\ FilterPreview
<1>4. /\ ~IsIgnored(n)
      /\ KnownSource(h, n, in_order, kind, hidden) \/ NewSourceData(h, n, kind, hidden)
  BY <1>2
<1>5. hidden => h \in network.previews
  BY DEF MayPreview
<1> HIDE DEF hidden
<1> QED
  BY <1>1, <1>3, <1>4, <1>5 DEF KnownStep, NewStep

(* What a packet of a tracked source h, on interface n, makes of it, and    *)
(* the notifications of that: when it loses its priorities the application  *)
(* is told, and when it gets priorities, or waits for them no more, it is   *)
(* given the data, unless that is a preview.                                *)
HasPapState(s) == s.recv_state \in PapStates

Follows(h, n, s, t, lost, data) ==
    /\ t.netint = n /\ MayFollow(s, t) /\ (s.terminated => t.terminated)
    /\ \/ lost = <<>> /\ (HasPapState(s) => HasPapState(t))
       \/ /\ lost = <<DataNote(h, "pap lost", FALSE, FALSE)>>
          /\ HasPapState(s) /\ ~HasPapState(t)
    /\ \/ /\ data = <<>>
          /\ h \notin network.previews =>
               (IsWaiting(s) => IsWaiting(t)) /\ (HasPapState(t) => HasPapState(s))
       \/ \E kind \in {"dmx", "pap", "other"} :
            /\ data = <<DataNote(h, kind, IsSampled(n), IsStray(n))>>
            /\ ~t.terminated
            /\ kind # "other" => ~IsWaiting(t)
            /\ kind = "other" => (IsWaiting(s) => IsWaiting(t))
            /\ kind = "pap" => HasPapState(t)
            /\ kind # "pap" => (HasPapState(t) => HasPapState(s))

KnownOutcome(h) ==
    \E n, t, lost, data :
        /\ n \in network.reaches[h] /\ t \in SourceType(network.netints)
        /\ ~IsIgnored(n) /\ h \in DOMAIN receiver.sources
        /\ Follows(h, n, receiver.sources[h], t, lost, data)
        /\ receiver' = [receiver EXCEPT !.sources[h] = t] /\ notes' = lost \o data

(* It moves to the interface.                                               *)
LEMMA Moved ==
    ASSUME NEW netints, NEW s, s \in SourceType(netints), NEW n, n \in netints,
           NEW t, t = [s EXCEPT !.netint = n]
    PROVE  /\ t \in SourceType(netints) /\ t.netint = n /\ t.recv_state = s.recv_state
           /\ t.packet_timer = s.packet_timer /\ t.terminated = s.terminated
           /\ t.dmx_received_since_last_tick = s.dmx_received_since_last_tick
           /\ t.pap_timer = s.pap_timer
<1> HIDE DEF Timers, Intervals, States
<1> QED
  BY DEF SourceType

(* What handle_sacn_data_packet does with a tracked source.                 *)
LEMMA KnownIs ==
    ASSUME Typed, Idle, NEW h, network.reaches[h] \subseteq network.netints, KnownStep(h)
    PROVE  KnownOutcome(h)
<1> DEFINE s == receiver.sources[h]
<1>1. PICK in_order, hidden :
         \E n \in network.reaches[h], kind \in Kinds :
            /\ ~IsIgnored(n) /\ (hidden => h \in network.previews)
            /\ KnownSource(h, n, in_order, kind, hidden)
  BY DEF KnownStep
<1>2. PICK n \in network.reaches[h], kind \in Kinds :
         /\ ~IsIgnored(n) /\ (hidden => h \in network.previews)
         /\ KnownSource(h, n, in_order, kind, hidden)
  BY <1>1
<1> DEFINE source == [s EXCEPT !.netint = n]
           ended == IF kind = "end" THEN mark_source_terminated(source) ELSE source
           next == CASE kind = "dmx" -> process_null_start_code(source)
                     [] kind = "pap" -> process_pap(source)
                     [] OTHER -> source
           lost == When(PapLost(source, kind), DataNote(h, "pap lost", FALSE, FALSE))
           data == When(Notifies(source, kind) /\ ~hidden,
                        DataNote(h, kind, IsSampled(n), IsStray(n)))
<1>3. /\ h \in DOMAIN receiver.sources
      /\ IF ended.terminated \/ ~in_order
         THEN receiver' = [receiver EXCEPT !.sources[h] = ended] /\ notes' = notes
         ELSE receiver' = [receiver EXCEPT !.sources[h] = next] /\ notes' = lost \o data
  BY <1>2 DEF KnownSource
<1>4. s \in SourceType(network.netints) /\ n \in network.netints
  BY <1>3, SourcesOf DEF Typed
<1> HIDE DEF s
<1>5. /\ source \in SourceType(network.netints) /\ source.netint = n
      /\ source.recv_state = s.recv_state /\ source.packet_timer = s.packet_timer
      /\ source.terminated = s.terminated /\ source.pap_timer = s.pap_timer
      /\ source.dmx_received_since_last_tick = s.dmx_received_since_last_tick
  BY <1>4, Moved
<1>6. source.recv_state \in States
  BY <1>5 DEF SourceType
<1> HIDE DEF source, next, lost, data
<1>7. CASE ended.terminated \/ ~in_order
  <2>1. /\ ended \in SourceType(network.netints) /\ ended.netint = n
        /\ ended.recv_state = s.recv_state
        /\ ended = source \/ (ended.terminated /\ ended.packet_timer = 0)
    <3>1. CASE kind = "end"
      <4>1. ended = mark_source_terminated(source)
        BY <3>1
      <4> HIDE DEF ended
      <4> QED
        BY <1>5, <4>1, MarkTerminated
    <3>2. CASE kind # "end"
      BY <1>5, <3>2
    <3> QED
      BY <3>1, <3>2
  <2> HIDE DEF ended
  <2>2. notes = <<>> /\ <<>> = <<>> \o <<>>
    BY DEF Idle
  <2>3. receiver' = [receiver EXCEPT !.sources[h] = ended] /\ notes' = <<>> \o <<>>
    BY <1>3, <1>7, <2>2
  <2>4. MayFollow(s, ended) /\ (s.terminated => ended.terminated)
    BY <1>5, <2>1 DEF MayFollow, IsWaiting, IsExpired
  <2>5. Follows(h, n, s, ended, <<>>, <<>>)
    BY <2>1, <2>4 DEF Follows, IsWaiting, HasPapState
  <2> QED
    BY <1>2, <1>3, <2>1, <2>3, <2>5 DEF KnownOutcome, s
<1>8. CASE ~(ended.terminated \/ ~in_order)
  <2>1. kind \in {"dmx", "pap", "other"}
    <3>1. CASE kind = "end"
      <4>1. ended = mark_source_terminated(source)
        BY <3>1
      <4> HIDE DEF ended
      <4>2. ended.terminated
        BY <1>5, <4>1, MarkTerminated
      <4> QED
        BY <1>8, <4>2
    <3>2. CASE kind # "end"
      BY <3>2 DEF Kinds
    <3> QED
      BY <3>1, <3>2
  <2>2. kind # "end" => ~source.terminated
    BY <1>8
  <2> HIDE DEF ended
  <2>3. receiver' = [receiver EXCEPT !.sources[h] = next] /\ notes' = lost \o data
    BY <1>3, <1>8
  <2>4. /\ PapLost(source, kind) => lost = <<DataNote(h, "pap lost", FALSE, FALSE)>>
        /\ ~PapLost(source, kind) => lost = <<>>
    BY DEF lost, When
  <2>5. /\ Notifies(source, kind) /\ ~hidden =>
             data = <<DataNote(h, kind, IsSampled(n), IsStray(n))>>
        /\ ~(Notifies(source, kind) /\ ~hidden) => data = <<>>
    BY DEF data, When
  <2>6. ~source.terminated
    <3>1. CASE kind = "end"
      BY <2>1, <3>1
    <3>2. CASE kind # "end"
      BY <2>2, <3>2
    <3> QED
      BY <3>1, <3>2
  <2>7. next \in SourceType(network.netints) /\ Follows(h, n, s, next, lost, data)
    <3>1. CASE kind = "dmx"
      <4>1. next = process_null_start_code(source)
        BY <3>1 DEF next
      <4>2. /\ next \in SourceType(network.netints) /\ next.netint = n
            /\ next.terminated = s.terminated /\ next.dmx_received_since_last_tick
            /\ IsWaiting(next) => IsWaiting(source) /\ ~IsExpired(source.pap_timer)
            /\ HasPapState(next) => HasPapState(source) /\ ~PapLost(source, "dmx")
            /\ PapLost(source, "dmx") => HasPapState(source)
            /\ HasPapState(source) /\ ~PapLost(source, "dmx") => HasPapState(next)
        BY <1>5, <4>1, NullStartCode DEF HasPapState
      <4>3. (IsWaiting(source) <=> IsWaiting(s)) /\ (HasPapState(source) <=> HasPapState(s))
        BY <1>5 DEF IsWaiting, HasPapState
      <4>4. MayFollow(s, next)
        BY <4>2, <4>3 DEF MayFollow
      <4>5. \/ lost = <<>> /\ (HasPapState(s) => HasPapState(next))
            \/ /\ lost = <<DataNote(h, "pap lost", FALSE, FALSE)>>
               /\ HasPapState(s) /\ ~HasPapState(next)
        BY <2>4, <3>1, <4>2, <4>3
      <4>6. Notifies(source, kind) <=> ~(IsWaiting(source) /\ ~IsExpired(source.pap_timer))
        BY <3>1 DEF Notifies, IsWaiting
      <4>7. CASE Notifies(source, kind) /\ ~hidden
        <5>1. data = <<DataNote(h, kind, IsSampled(n), IsStray(n))>> /\ ~IsWaiting(next)
          BY <2>5, <4>2, <4>6, <4>7
        <5> QED
          BY <1>5, <2>1, <2>6, <3>1, <4>2, <4>3, <4>4, <4>5, <5>1 DEF Follows
      <4>8. CASE ~(Notifies(source, kind) /\ ~hidden)
        <5>1. data = <<>>
          BY <2>5, <4>8
        <5>2. h \notin network.previews => (IsWaiting(s) => IsWaiting(next))
          <6>1. SUFFICES ASSUME h \notin network.previews, IsWaiting(s)
                         PROVE  IsWaiting(next)
            OBVIOUS
          <6>2. IsWaiting(source) /\ ~IsExpired(source.pap_timer)
            BY <1>2, <4>3, <4>6, <4>8, <6>1
          <6>3. next = [source EXCEPT !.dmx_received_since_last_tick = TRUE,
                                      !.packet_timer = SourceLossTimeout]
            BY <4>1, <6>2 DEF process_null_start_code, IsWaiting
          <6> QED
            BY <1>5, <6>2, <6>3 DEF IsWaiting, SourceType
        <5> QED
          BY <4>2, <4>3, <4>4, <4>5, <5>1, <5>2 DEF Follows
      <4> QED
        BY <4>7, <4>8
    <3>2. CASE kind = "pap"
      <4>1. next = process_pap(source)
        BY <3>2 DEF next
      <4>2. /\ next \in SourceType(network.netints) /\ next.netint = n
            /\ next.terminated = s.terminated /\ next.packet_timer = s.packet_timer
            /\ next.dmx_received_since_last_tick = s.dmx_received_since_last_tick
            /\ HasPapState(next)
        BY <1>5, <4>1, Pap DEF HasPapState
      <4>3. ~IsWaiting(next)
        BY <4>2 DEF HasPapState, PapStates, IsWaiting
      <4>4. MayFollow(s, next)
        BY <4>2, <4>3 DEF MayFollow
      <4>5. lost = <<>>
        BY <2>4, <3>2 DEF PapLost
      <4>6. Notifies(source, kind)
        BY <3>2 DEF Notifies
      <4>7. CASE ~hidden
        <5>1. data = <<DataNote(h, kind, IsSampled(n), IsStray(n))>>
          BY <2>5, <4>6, <4>7
        <5> QED
          BY <1>5, <2>1, <2>6, <3>2, <4>2, <4>3, <4>4, <4>5, <5>1 DEF Follows
      <4>8. CASE hidden
        <5>1. data = <<>> /\ h \in network.previews
          BY <1>2, <2>5, <4>8
        <5> QED
          BY <4>2, <4>4, <4>5, <5>1 DEF Follows
      <4> QED
        BY <4>7, <4>8
    <3>3. CASE kind = "other"
      <4>1. next = source
        BY <3>3 DEF next
      <4>2. MayFollow(s, next)
        BY <1>5, <4>1 DEF MayFollow, IsWaiting
      <4>3. lost = <<>>
        BY <2>4, <3>3 DEF PapLost
      <4>4. /\ next \in SourceType(network.netints) /\ next.netint = n
            /\ next.terminated = s.terminated
            /\ (IsWaiting(next) <=> IsWaiting(s)) /\ (HasPapState(next) <=> HasPapState(s))
        BY <1>5, <4>1 DEF IsWaiting, HasPapState
      <4>5. CASE Notifies(source, kind) /\ ~hidden
        <5>1. data = <<DataNote(h, kind, IsSampled(n), IsStray(n))>>
          BY <2>5, <4>5
        <5> QED
          BY <1>5, <2>1, <2>6, <3>3, <4>1, <4>2, <4>3, <4>4, <5>1 DEF Follows
      <4>6. CASE ~(Notifies(source, kind) /\ ~hidden)
        <5>1. data = <<>>
          BY <2>5, <4>6
        <5> QED
          BY <4>2, <4>3, <4>4, <5>1 DEF Follows
      <4> QED
        BY <4>5, <4>6
    <3> QED
      BY <2>1, <3>1, <3>2, <3>3
  <2> QED
    BY <1>2, <1>3, <2>3, <2>7 DEF KnownOutcome, s
<1> QED
  BY <1>7, <1>8

(* A source is added: no termination set has it.                            *)
Added(sources, h, t) == [x \in DOMAIN sources \cup {h} |-> IF x = h THEN t ELSE sources[x]]

Grown(r, h, t) == [r EXCEPT !.sources = Added(r.sources, h, t)]

(* The receiver with the source added.                                      *)
LEMMA SourceAdded ==
    ASSUME NEW net, NEW r, r \in ReceiverType(net), TermsSound(r.term_sets, r.sources),
           NEW h, h \in DOMAIN net.sends, h \notin DOMAIN r.sources,
           NEW t, t \in SourceType(net.netints),
           NEW next, next = Grown(r, h, t)
    PROVE  /\ next \in ReceiverType(net) /\ TermsSound(next.term_sets, next.sources)
           /\ DOMAIN next.sources = DOMAIN r.sources \cup {h} /\ next.sources[h] = t
           /\ \A x \in DOMAIN r.sources : next.sources[x] = r.sources[x]
           /\ next.netints = r.netints /\ next.sp = r.sp
<1> DEFINE D == DOMAIN r.sources
           E == D \cup {h}
           sources == Added(r.sources, h, t)
<1>1. /\ D \subseteq DOMAIN net.sends /\ r.sources \in [D -> SourceType(net.netints)]
  BY SourcesOf
<1>2. sources = [x \in E |-> IF x = h THEN t ELSE r.sources[x]]
  BY DEF Added
<1>3. sources \in [E -> SourceType(net.netints)] /\ E \in SUBSET DOMAIN net.sends
  BY <1>1, <1>2
<1>4. DOMAIN sources = E /\ sources[h] = t /\ \A x \in D : sources[x] = r.sources[x]
  BY <1>2
<1> HIDE DEF sources, D, E
<1>5. sources \in Partial(DOMAIN net.sends, SourceType(net.netints))
  BY <1>3, PartialOf
<1>6. /\ next \in ReceiverType(net) /\ next.sources = sources /\ next.term_sets = r.term_sets
      /\ next.netints = r.netints /\ next.sp = r.sp
  <2>1. next = [r EXCEPT !.sources = sources]
    BY DEF sources, Grown
  <2> HIDE DEF Partial, SourceType, TermSet, SampleTimes
  <2> QED
    BY <1>5, <2>1 DEF ReceiverType
<1>7. TermsSound(r.term_sets, sources)
  BY <1>4 DEF TermsSound, D, E
<1> QED
  BY <1>4, <1>6, <1>7 DEF D, E

(* What a packet of a source that is not tracked does: when there is room   *)
(* it is tracked, and the application gets the data unless the source waits *)
(* for its priorities, or the data is a preview.                            *)
Begins(h, n, t, data) ==
    /\ t.netint = n
    /\ \/ data = <<>> /\ (h \notin network.previews => IsWaiting(t))
       \/ \E kind \in {"dmx", "pap"} :
            /\ data = <<DataNote(h, kind, IsSampled(n), IsStray(n))>>
            /\ ~IsWaiting(t) /\ (HasPapState(t) <=> kind = "pap")

NewOutcome(h) ==
    /\ h \notin DOMAIN receiver.sources
    /\ \/ /\ receiver' = [receiver EXCEPT !.suppress_limit_exceeded = TRUE]
          /\ notes' = <<>> \/ notes' = <<Note("limit")>>
       \/ \E n \in network.reaches[h], t \in SourceType(network.netints) :
            /\ ~IsIgnored(n) /\ Begins(h, n, t, notes')
            /\ ~(Cardinality(DOMAIN receiver.sources) >= network.source_count_max)
            /\ receiver' = [receiver EXCEPT !.sources = Added(receiver.sources, h, t)]

(* What process_new_source_data does.                                       *)
LEMMA NewIs ==
    ASSUME Typed, NEW h, network.reaches[h] \subseteq network.netints, NewStep(h)
    PROVE  NewOutcome(h)
<1>1. PICK hidden :
         \E n \in network.reaches[h], kind \in Kinds :
            /\ ~IsIgnored(n) /\ (hidden => h \in network.previews)
            /\ NewSourceData(h, n, kind, hidden)
  BY DEF NewStep
<1>2. PICK n \in network.reaches[h], kind \in Kinds :
         /\ ~IsIgnored(n) /\ (hidden => h \in network.previews)
         /\ NewSourceData(h, n, kind, hidden)
  BY <1>1
<1> DEFINE full == Cardinality(DOMAIN receiver.sources) >= network.source_count_max
           limit == When(~receiver.suppress_limit_exceeded, Note("limit"))
           t == NewSource(n, kind, receiver.sampling)
           data == When((kind = "pap" \/ receiver.sampling) /\ ~hidden,
                        DataNote(h, kind, IsSampled(n), IsStray(n)))
<1>3. /\ h \notin DOMAIN receiver.sources /\ kind \in {"dmx", "pap"}
      /\ IF full
         THEN notes' = limit /\ receiver' = [receiver EXCEPT !.suppress_limit_exceeded = TRUE]
         ELSE /\ receiver' = [receiver EXCEPT !.sources = Added(receiver.sources, h, t)]
              /\ notes' = data
  BY <1>2 DEF NewSourceData, Added
<1>4. limit = <<>> \/ limit = <<Note("limit")>>
  BY DEF When
<1>5. /\ (kind = "pap" \/ receiver.sampling) /\ ~hidden =>
           data = <<DataNote(h, kind, IsSampled(n), IsStray(n))>>
      /\ ~((kind = "pap" \/ receiver.sampling) /\ ~hidden) => data = <<>>
  BY DEF When
<1>6. receiver.sampling \in BOOLEAN /\ n \in network.netints
  BY SourcesOf DEF Typed
<1>7. /\ t \in SourceType(network.netints) /\ t.netint = n
      /\ IsWaiting(t) <=> kind = "dmx" /\ ~receiver.sampling
      /\ HasPapState(t) <=> kind = "pap"
  BY <1>3, <1>6, NewOne, SMTT(30) DEF HasPapState
<1> HIDE DEF t, data, limit
<1>8. CASE full
  BY <1>3, <1>4, <1>8 DEF NewOutcome
<1>9. CASE ~full
  <2>1. Begins(h, n, t, data)
    <3>1. CASE (kind = "pap" \/ receiver.sampling) /\ ~hidden
      BY <1>3, <1>5, <1>7, <3>1 DEF Begins
    <3>2. CASE ~((kind = "pap" \/ receiver.sampling) /\ ~hidden)
      <4>1. data = <<>>
        BY <1>5, <3>2
      <4>2. h \notin network.previews => IsWaiting(t)
        BY <1>2, <1>3, <1>7, <3>2
      <4> QED
        BY <1>7, <4>1, <4>2 DEF Begins
    <3> QED
      BY <3>1, <3>2
  <2>2. notes' = data /\ receiver' = [receiver EXCEPT !.sources = Added(receiver.sources, h, t)]
    BY <1>3, <1>9
  <2> QED
    BY <1>2, <1>3, <1>7, <1>9, <2>1, <2>2 DEF NewOutcome
<1> QED
  BY <1>8, <1>9

(* With nothing to deliver the application has what it uses.                *)
LEMMA NonePending ==
    ASSUME NEW a, NEW sources, AppKept(a, <<>>, sources)
    PROVE  /\ \A h \in a.known : HasLevels(sources, h)
           /\ \A h \in a.pap : HasPap(sources, h)
<1>1. Range(<<>>) = {}
  BY DEF Range
<1>2. \A kind, h : ~PendIn(<<>>, kind, h)
  BY <1>1 DEF PendIn
<1> QED
  BY <1>2 DEF AppKept, LevelsKept, PapKept

(* The notification that a source lost its priorities.                      *)
LEMMA PapLostNoteIs ==
    ASSUME NEW handles, NEW h, h \in handles, NEW note,
           note = DataNote(h, "pap lost", FALSE, FALSE)
    PROVE  /\ note \in NoteType(handles) /\ note.kind = "pap lost" /\ note.source = h
           /\ ~note.stale /\ note.stray = FALSE
<1>1. /\ note \in DataNotes(handles) /\ note.kind = "pap lost" /\ note.source = h
      /\ ~note.stale /\ note.stray = FALSE
  BY DEF DataNote, DataNotes, DataKinds, Truths
<1> QED
  BY <1>1 DEF NoteType

(* A packet of a tracked source.                                            *)
LEMMA KnownKeeps ==
    ASSUME IInv, Idle, UNCHANGED <<network, created, due, app>>,
           NEW h, h \in Handles, network.reaches[h] \subseteq network.netints, KnownOutcome(h)
    PROVE  IInv'
<1>1. PICK n, t, lost, data :
         /\ n \in network.reaches[h] /\ t \in SourceType(network.netints)
         /\ ~IsIgnored(n) /\ h \in DOMAIN receiver.sources
         /\ Follows(h, n, receiver.sources[h], t, lost, data)
         /\ receiver' = [receiver EXCEPT !.sources[h] = t] /\ notes' = lost \o data
  BY DEF KnownOutcome
<1> DEFINE s == receiver.sources[h]
           T == NoteType(Handles)
<1>2. receiver \in ReceiverType(network) /\ Sound /\ Typed /\ notes = <<>>
  BY DEF IInv, Typed, Idle
<1>3. /\ t.netint = n /\ MayFollow(s, t) /\ (s.terminated => t.terminated)
      /\ \/ lost = <<>> /\ (HasPapState(s) => HasPapState(t))
         \/ /\ lost = <<DataNote(h, "pap lost", FALSE, FALSE)>>
            /\ HasPapState(s) /\ ~HasPapState(t)
      /\ \/ data = <<>>
         \/ \E kind \in {"dmx", "pap", "other"} :
              /\ data = <<DataNote(h, kind, IsSampled(n), IsStray(n))>>
              /\ kind # "other" => ~IsWaiting(t)
              /\ kind = "pap" => HasPapState(t)
  BY <1>1 DEF Follows
<1>4. h \in DOMAIN receiver.sources /\ MayFollow(receiver.sources[h], t)
  BY <1>1, <1>3
<1>15. TermsSound(receiver.term_sets, receiver.sources)
  BY <1>2 DEF Sound
<1>16. receiver' = Replaced(receiver, h, t) /\ t \in SourceType(network.netints)
  BY <1>1 DEF Replaced
<1>5. /\ receiver' \in ReceiverType(network) /\ TermsSound(receiver'.term_sets, receiver'.sources)
      /\ DOMAIN receiver'.sources = DOMAIN receiver.sources /\ receiver'.sources[h] = t
      /\ \A x \in DOMAIN receiver.sources : x # h => receiver'.sources[x] = receiver.sources[x]
  BY <1>2, <1>4, <1>15, <1>16, SourceReplaced
<1>6. /\ lost \in Seq(T) /\ \A note \in Range(lost) : note.kind = "pap lost"
      /\ ~HasPapState(t) /\ HasPapState(s) =>
           \E note \in Range(lost) : ~note.stale /\ note.kind = "pap lost" /\ note.source = h
  <2>1. CASE lost = <<>> /\ (HasPapState(s) => HasPapState(t))
    <3>1. lost \in Seq(T) /\ Range(lost) = {}
      BY <2>1 DEF Range
    <3> QED
      BY <2>1, <3>1
  <2>2. CASE lost = <<DataNote(h, "pap lost", FALSE, FALSE)>>
    <3> DEFINE note == DataNote(h, "pap lost", FALSE, FALSE)
    <3>0. lost = <<note>>
      BY <2>2
    <3>2. note \in T /\ note.kind = "pap lost" /\ note.source = h /\ ~note.stale
      BY PapLostNoteIs
    <3> HIDE DEF note, T
    <3>4. lost \in Seq(T) /\ Range(lost) \subseteq {note} /\ note \in Range(lost)
      BY <3>0, <3>2, WhenIs
    <3> QED
      BY <3>2, <3>4
  <2> QED
    BY <1>3, <2>1, <2>2
<1>7. data \in Seq(T) /\ DataKept(data, receiver'.sources)
  <2>1. CASE data = <<>>
    <3>1. data \in Seq(T) /\ Range(data) = {}
      BY <2>1 DEF Range
    <3> QED
      BY <3>1 DEF DataKept
  <2>2. ASSUME NEW kind \in {"dmx", "pap", "other"},
               data = <<DataNote(h, kind, IsSampled(n), IsStray(n))>>,
               kind # "other" => ~IsWaiting(t), kind = "pap" => HasPapState(t)
        PROVE  data \in Seq(T) /\ DataKept(data, receiver'.sources)
    <3> DEFINE note == DataNote(h, kind, IsSampled(n), IsStray(n))
    <3>1. kind \in DataKinds /\ IsSampled(n) \in Truths /\ IsStray(n) \in Truths
      BY Truth DEF DataKinds
    <3>2. note \in T /\ note.kind = kind /\ note.source = h /\ ~note.stale
      BY <3>1, DataNoteIs
    <3>3. data = <<note>>
      BY <2>2
    <3> HIDE DEF note, T
    <3>4. data \in Seq(T) /\ Range(data) \subseteq {note}
      BY <3>2, <3>3, WhenIs
    <3>5. DataIsOf(note, receiver'.sources)
      BY <1>4, <1>5, <2>2, <3>2 DEF DataIsOf, HasLevels, HasPap, HasPapState
    <3> QED
      BY <3>4, <3>5 DEF DataKept
  <2> QED
    BY <1>3, <2>1, <2>2
<1> HIDE DEF T
<1>8. notes' \in Seq(T) /\ Range(notes') = Range(lost) \cup Range(data)
  <2>1. lost \in Seq(T) /\ data \in Seq(T) /\ notes' = lost \o data
    BY <1>1, <1>6, <1>7
  <2> QED
    BY <2>1, RangeOfConcat
<1>9. /\ \A x \in app.known : HasLevels(receiver.sources, x)
      /\ \A x \in app.pap : HasPap(receiver.sources, x)
  BY <1>2, NonePending DEF IInv, Kept
<1>10. LevelsKept(app, notes', receiver'.sources)
  BY <1>3, <1>5, <1>9 DEF LevelsKept, HasLevels, MayFollow
<1>11. PapKept(app, notes', receiver'.sources)
  <2> SUFFICES ASSUME NEW x \in app.pap
               PROVE  HasPap(receiver'.sources, x) \/ PendIn(notes', "pap lost", x)
    BY DEF PapKept
  <2>1. CASE x # h
    BY <1>5, <1>9, <2>1 DEF HasPap
  <2>2. CASE x = h /\ HasPapState(t)
    BY <1>4, <1>5, <2>2 DEF HasPap, HasPapState
  <2>3. CASE x = h /\ ~HasPapState(t)
    <3>1. HasPapState(s)
      BY <1>9, <2>3 DEF HasPap, HasPapState
    <3>2. \E note \in Range(lost) : ~note.stale /\ note.kind = "pap lost" /\ note.source = h
      BY <1>6, <2>3, <3>1
    <3> QED
      BY <1>8, <2>3, <3>2 DEF PendIn
  <2> QED
    BY <2>1, <2>2, <2>3
<1>12. DataKept(notes', receiver'.sources)
  <2> SUFFICES ASSUME NEW note \in Range(notes') PROVE DataIsOf(note, receiver'.sources)
    BY DEF DataKept
  <2>1. CASE note \in Range(lost)
    <3>1. note.kind = "pap lost"
      BY <1>6, <2>1
    <3> QED
      BY <3>1 DEF DataIsOf
  <2>2. CASE note \in Range(data)
    BY <1>7, <2>2 DEF DataKept
  <2> QED
    BY <1>8, <2>1, <2>2
<1>13. Typed'
  BY <1>2, <1>5, <1>8 DEF Typed, Handles, T
<1>14. Over'
  BY <1>2 DEF IInv, Over, Idle
<1> QED
  BY <1>5, <1>10, <1>11, <1>12, <1>13, <1>14 DEF IInv, Sound, Kept, AppKept

(* Sources that are tracked, and keep what they have, keep what the         *)
(* application was given: nothing is to be delivered but what has it.       *)
LEMMA KeptByGrowing ==
    ASSUME NEW a, NEW ns, NEW next, NEW sources, NEW others,
           AppKept(a, <<>>, sources), SameForApp(sources, others), DataKept(next, others)
    PROVE  AppKept(a, next, others)
<1>1. /\ \A h \in a.known : HasLevels(sources, h)
      /\ \A h \in a.pap : HasPap(sources, h)
  BY NonePending
<1> HIDE DEF PendIn, HasLevels, HasPap, DataKept
<1> QED
  BY <1>1 DEF AppKept, LevelsKept, PapKept, SameForApp

(* The notification that there are too many sources.                        *)
LEMMA PlainNoteIs ==
    ASSUME NEW handles, NEW kind \in {"limit", "started", "ended"}, NEW note, note = Note(kind)
    PROVE  note \in NoteType(handles) /\ note.kind = kind /\ ~note.stale
<1>1. note \in PlainNotes /\ note.kind = kind /\ ~note.stale
  BY DEF Note, PlainNotes
<1> QED
  BY <1>1 DEF NoteType

(* A packet of a source that was not tracked.                               *)
LEMMA NewKeeps ==
    ASSUME IInv, Idle, UNCHANGED <<network, created, due, app>>,
           NEW h, h \in Handles, network.reaches[h] \subseteq network.netints, NewOutcome(h)
    PROVE  IInv'
<1> DEFINE T == NoteType(Handles)
<1>1. receiver \in ReceiverType(network) /\ Sound /\ Typed /\ notes = <<>>
  BY DEF IInv, Typed, Idle
<1>2. TermsSound(receiver.term_sets, receiver.sources) /\ h \in DOMAIN network.sends
  BY <1>1 DEF Sound, Handles
<1>3. AppKept(app, <<>>, receiver.sources)
  BY <1>1 DEF IInv, Kept
<1>4. Over'
  BY <1>1 DEF IInv, Over, Idle
<1>5. CASE /\ receiver' = [receiver EXCEPT !.suppress_limit_exceeded = TRUE]
           /\ notes' = <<>> \/ notes' = <<Note("limit")>>
  <2>1. receiver' \in ReceiverType(network) /\ receiver'.sources = receiver.sources
        /\ receiver'.term_sets = receiver.term_sets
    <3> HIDE DEF Partial, SourceType, TermSet, SampleTimes
    <3> QED
      BY <1>1, <1>5 DEF ReceiverType
  <2> DEFINE note == Note("limit")
  <2>2. note \in T /\ note.kind = "limit" /\ ~note.stale
    BY PlainNoteIs
  <2>3. notes' = <<>> \/ notes' = <<note>>
    BY <1>5
  <2> HIDE DEF note, T
  <2>4. notes' \in Seq(T) /\ Range(notes') \subseteq {note}
    BY <2>2, <2>3, WhenIs
  <2>5. DataKept(notes', receiver'.sources)
    BY <2>2, <2>4 DEF DataKept, DataIsOf
  <2>6. AppKept(app, notes', receiver'.sources)
    <3>1. SameForApp(receiver.sources, receiver'.sources)
      BY <2>1, AlikeIsSame
    <3> QED
      BY <1>3, <2>5, <3>1, KeptByGrowing
  <2>7. Typed'
    BY <1>1, <2>1, <2>4 DEF Typed, Handles, T
  <2> QED
    BY <1>2, <1>4, <2>1, <2>6, <2>7 DEF IInv, Sound, Kept
<1>6. CASE \E n \in network.reaches[h], t \in SourceType(network.netints) :
            /\ ~IsIgnored(n) /\ Begins(h, n, t, notes')
            /\ ~(Cardinality(DOMAIN receiver.sources) >= network.source_count_max)
            /\ receiver' = [receiver EXCEPT !.sources = Added(receiver.sources, h, t)]
  <2>1. PICK n \in network.reaches[h], t \in SourceType(network.netints) :
          /\ Begins(h, n, t, notes')
          /\ receiver' = Grown(receiver, h, t)
    BY <1>6 DEF Grown
  <2>2. h \notin DOMAIN receiver.sources
    BY DEF NewOutcome
  <2>3. /\ receiver' \in ReceiverType(network)
        /\ TermsSound(receiver'.term_sets, receiver'.sources)
        /\ DOMAIN receiver'.sources = DOMAIN receiver.sources \cup {h}
        /\ receiver'.sources[h] = t
        /\ \A x \in DOMAIN receiver.sources : receiver'.sources[x] = receiver.sources[x]
    <3>1. receiver' = Grown(receiver, h, t) /\ t \in SourceType(network.netints)
      BY <2>1
    <3> QED
      BY <1>1, <1>2, <2>2, <3>1, SourceAdded
  <2>4. notes' \in Seq(T) /\ DataKept(notes', receiver'.sources)
    <3>1. CASE notes' = <<>>
      <4>1. notes' \in Seq(T) /\ Range(notes') = {}
        BY <3>1 DEF Range
      <4> QED
        BY <4>1 DEF DataKept
    <3>2. ASSUME NEW kind \in {"dmx", "pap"},
                 notes' = <<DataNote(h, kind, IsSampled(n), IsStray(n))>>,
                 ~IsWaiting(t), HasPapState(t) <=> kind = "pap"
          PROVE  notes' \in Seq(T) /\ DataKept(notes', receiver'.sources)
      <4> DEFINE note == DataNote(h, kind, IsSampled(n), IsStray(n))
      <4>1. kind \in DataKinds /\ IsSampled(n) \in Truths /\ IsStray(n) \in Truths
        BY Truth DEF DataKinds
      <4>2. note \in T /\ note.kind = kind /\ note.source = h /\ ~note.stale
        BY <4>1, DataNoteIs
      <4>3. notes' = <<note>>
        BY <3>2
      <4> HIDE DEF note, T
      <4>4. notes' \in Seq(T) /\ Range(notes') \subseteq {note}
        BY <4>2, <4>3, WhenIs
      <4>5. DataIsOf(note, receiver'.sources)
        BY <2>3, <3>2, <4>2 DEF DataIsOf, HasLevels, HasPap, HasPapState
      <4> QED
        BY <4>4, <4>5 DEF DataKept
    <3> QED
      BY <2>1, <3>1, <3>2 DEF Begins
  <2> HIDE DEF T
  <2>5. SameForApp(receiver.sources, receiver'.sources)
    BY <2>3 DEF SameForApp, HasLevels, HasPap, IsWaiting
  <2>6. AppKept(app, notes', receiver'.sources)
    BY <1>3, <2>4, <2>5, KeptByGrowing
  <2>7. Typed'
    BY <1>1, <2>3, <2>4 DEF Typed, Handles, T
  <2> QED
    BY <1>4, <2>3, <2>6, <2>7 DEF IInv, Sound, Kept
<1> QED
  BY <1>5, <1>6 DEF NewOutcome

-----------------------------------------------------------------------------
(* The periodic processing.                                                 *)

(* The notification that sources are lost.                                  *)
LEMMA LostNoteIs ==
    ASSUME NEW handles, NEW lost, lost \in Partial(handles, BOOLEAN),
           NEW note, note = ListNote("lost", lost)
    PROVE  /\ note \in NoteType(handles) /\ note.kind = "lost" /\ note.lost = lost
           /\ ~note.stale
<1> HIDE DEF Partial
<1>1. note \in LostNotes(handles) /\ note.kind = "lost" /\ note.lost = lost /\ ~note.stale
  BY DEF ListNote, LostNotes
<1> QED
  BY <1>1 DEF NoteType

(* What the thread collects when it processes the receiver.                 *)
Collected(ends, starts, lost) ==
    When(ends, Note("ended")) \o When(starts, Note("started"))
      \o When(DOMAIN lost # {}, ListNote("lost", lost))

(* Of the lost sources the application is told.                             *)
LEMMA CollectedIs ==
    ASSUME NEW handles, NEW lost, lost \in Partial(handles, BOOLEAN), NEW ends, NEW starts,
           NEW next, next = Collected(ends, starts, lost)
    PROVE  /\ next \in Seq(NoteType(handles))
           /\ \A note \in Range(next) :
                 /\ note.kind \in {"ended", "started", "lost"} /\ ~note.stale
                 /\ note.kind = "lost" => note.lost = lost
           /\ \A h \in DOMAIN lost : PendIn(next, "lost", h)
<1> DEFINE T == NoteType(handles)
           e == When(ends, Note("ended"))
           b == When(starts, Note("started"))
           l == When(DOMAIN lost # {}, ListNote("lost", lost))
           ended == Note("ended")
           started == Note("started")
           gone == ListNote("lost", lost)
<1>1. ended \in T /\ ended.kind = "ended" /\ ~ended.stale
  BY PlainNoteIs
<1>2. started \in T /\ started.kind = "started" /\ ~started.stale
  BY PlainNoteIs
<1>3. gone \in T /\ gone.kind = "lost" /\ gone.lost = lost /\ ~gone.stale
  BY LostNoteIs
<1>4. /\ e = <<>> \/ e = <<ended>>
      /\ b = <<>> \/ b = <<started>>
      /\ l = <<>> \/ l = <<gone>>
      /\ DOMAIN lost # {} => l = <<gone>>
  BY DEF When
<1>5. next = e \o b \o l
  BY DEF Collected
<1> HIDE DEF T, e, b, l, ended, started, gone
<1>6. e \in Seq(T) /\ Range(e) \subseteq {ended}
  BY <1>1, <1>4, WhenIs
<1>7. b \in Seq(T) /\ Range(b) \subseteq {started}
  BY <1>2, <1>4, WhenIs
<1>8. /\ l \in Seq(T) /\ Range(l) \subseteq {gone}
      /\ DOMAIN lost # {} => gone \in Range(l)
  BY <1>3, <1>4, WhenIs
<1>9. e \o b \in Seq(T) /\ Range(e \o b) = Range(e) \cup Range(b)
  BY <1>6, <1>7, RangeOfConcat
<1> DEFINE eb == e \o b
<1> HIDE DEF eb
<1>10. eb \in Seq(T) /\ Range(eb) = Range(e) \cup Range(b) /\ next = eb \o l
  BY <1>5, <1>9 DEF eb
<1>11. next \in Seq(T) /\ Range(next) = Range(eb) \cup Range(l)
  BY <1>8, <1>10, RangeOfConcat
<1>12. ASSUME NEW h \in DOMAIN lost PROVE PendIn(next, "lost", h)
  <2>1. gone \in Range(next)
    BY <1>8, <1>11
  <2> QED
    BY <1>3, <2>1 DEF PendIn
<1>13. ASSUME NEW note \in Range(next)
       PROVE  /\ note.kind \in {"ended", "started", "lost"} /\ ~note.stale
              /\ note.kind = "lost" => note.lost = lost
  <2>1. note = ended \/ note = started \/ note = gone
    BY <1>6, <1>7, <1>8, <1>10, <1>11
  <2> QED
    BY <1>1, <1>2, <1>3, <2>1
<1> QED
  BY <1>11, <1>12, <1>13 DEF T

(* What the processing of a receiver does to it, and what the application   *)
(* is to be told.                                                           *)
ProcessOutcome ==
    \E ends, starts, r, result :
        /\ r \in ReceiverType(network) /\ r.sources = receiver.sources
        /\ r.netints = receiver.netints
        /\ r.sp = IF ends THEN [n \in NextToSample(receiver.sp) |-> FALSE] ELSE receiver.sp
        /\ ProcessedWell(network, r, result) /\ receiver' = result.receiver
        /\ notes' = Collected(ends, starts, result.lost)

(* What process_receivers does.                                             *)
LEMMA ProcessIs ==
    ASSUME IInv, Process
    PROVE  Idle /\ UNCHANGED <<network, created, app>> /\ due' = FALSE /\ ProcessOutcome
<1> DEFINE ends == receiver.sampling /\ IsExpired(receiver.sample_timer)
           sampled == IF ends THEN end_current_sampling_period(receiver) ELSE receiver
           starts == ~sampled.notified_sampling_started
           r == [sampled EXCEPT !.notified_sampling_started = TRUE]
           result == process_receiver_sources(r)
<1>1. Idle /\ UNCHANGED <<network, created, app>> /\ due' = FALSE
  BY DEF Process
<1>2. receiver' = result.receiver
  BY DEF Process
<1>3. notes' = Collected(ends, starts, result.lost)
  BY DEF Process, Collected
<1>4. receiver \in ReceiverType(network) /\ Typed
  BY DEF IInv, Typed
<1>5. TermsSound(receiver.term_sets, receiver.sources) /\ AreNumbers(DOMAIN network.sends)
  <2>1. network \in Networks
    BY <1>4 DEF Typed
  <2> QED
    BY <2>1, NetworkIs DEF IInv, Sound, Handles
<1>6. /\ sampled \in ReceiverType(network) /\ sampled.sources = receiver.sources
      /\ sampled.term_sets = receiver.term_sets /\ sampled.netints = receiver.netints
      /\ sampled.sp = IF ends THEN [n \in NextToSample(receiver.sp) |-> FALSE] ELSE receiver.sp
  <2> HIDE DEF ends
  <2>1. CASE ends
    <3>1. sampled = end_current_sampling_period(receiver)
      BY <2>1
    <3> HIDE DEF sampled
    <3>2. /\ sampled \in ReceiverType(network) /\ sampled.sources = receiver.sources
          /\ sampled.term_sets = receiver.term_sets
          /\ sampled.sp = [n \in NextToSample(receiver.sp) |-> FALSE]
          /\ sampled.netints = receiver.netints
      BY <1>4, <3>1, EndSampling
    <3> QED
      BY <2>1, <3>2
  <2>2. CASE ~ends
    BY <1>4, <2>2
  <2> QED
    BY <2>1, <2>2
<1> HIDE DEF sampled, ends
<1>7. /\ r \in ReceiverType(network) /\ r.sources = sampled.sources
      /\ r.term_sets = sampled.term_sets /\ r.netints = sampled.netints /\ r.sp = sampled.sp
  <2> HIDE DEF Partial, SourceType, TermSet, SampleTimes
  <2> QED
    BY <1>6 DEF ReceiverType
<1> HIDE DEF r
<1>8. ProcessedWell(network, r, result)
  <2>1. TermsSound(r.term_sets, r.sources)
    BY <1>5, <1>6, <1>7
  <2> QED
    BY <1>5, <1>7, <2>1, ProcessSources
<1> HIDE DEF result, starts
<1> QED
  BY <1>1, <1>2, <1>3, <1>6, <1>7, <1>8 DEF ProcessOutcome

(* The periodic processing keeps the invariant.                             *)
LEMMA ProcessKeeps ==
    ASSUME IInv, Process
    PROVE  IInv'
<1>1. Idle /\ UNCHANGED <<network, created, app>> /\ due' = FALSE
  BY ProcessIs
<1>2. PICK ends, starts, r, result :
        /\ r.sources = receiver.sources
        /\ ProcessedWell(network, r, result) /\ receiver' = result.receiver
        /\ notes' = Collected(ends, starts, result.lost)
  BY ProcessIs DEF ProcessOutcome
<1> DEFINE lost == result.lost
<1>3. /\ receiver' \in ReceiverType(network)
      /\ TermsSound(receiver'.term_sets, receiver'.sources)
      /\ lost \in Partial(DOMAIN network.sends, BOOLEAN)
      /\ \A h \in DOMAIN receiver.sources : h \notin DOMAIN receiver'.sources =>
            IsWaiting(receiver.sources[h]) \/ h \in DOMAIN lost
      /\ DOMAIN receiver'.sources \subseteq DOMAIN receiver.sources
      /\ \A h \in DOMAIN receiver'.sources :
            receiver'.sources[h].recv_state = receiver.sources[h].recv_state
  BY <1>2 DEF ProcessedWell, Alike
<1> HIDE DEF lost
<1>4. notes' = Collected(ends, starts, lost)
  BY <1>2 DEF lost
<1>5. /\ notes' \in Seq(NoteType(DOMAIN network.sends))
      /\ \A note \in Range(notes') :
            /\ note.kind \in {"ended", "started", "lost"} /\ ~note.stale
            /\ note.kind = "lost" => note.lost = lost
      /\ \A h \in DOMAIN lost : PendIn(notes', "lost", h)
  BY <1>3, <1>4, CollectedIs
<1>6. notes = <<>> /\ Typed /\ Over /\ AppKept(app, <<>>, receiver.sources)
  BY <1>1 DEF IInv, Kept, Idle
<1>7. /\ \A h \in app.known : HasLevels(receiver.sources, h)
      /\ \A h \in app.pap : HasPap(receiver.sources, h)
  BY <1>6, NonePending
<1>8. LevelsKept(app, notes', receiver'.sources)
  <2> HIDE DEF PendIn
  <2> QED
    BY <1>3, <1>5, <1>7 DEF LevelsKept, HasLevels, IsWaiting
<1>9. PapKept(app, notes', receiver'.sources)
  <2> HIDE DEF PendIn
  <2> QED
    BY <1>3, <1>5, <1>7 DEF PapKept, HasPap, IsWaiting, PapStates
<1>10. DataKept(notes', receiver'.sources)
  BY <1>5 DEF DataKept, DataIsOf
<1>11. Typed'
  BY <1>1, <1>3, <1>5, <1>6 DEF Typed, Handles
<1>12. Over'
  BY <1>1, <1>6 DEF Over, Idle
<1> QED
  <2>1. app' = app
    BY <1>1
  <2>2. Kept'
    BY <1>8, <1>9, <1>10, <2>1 DEF Kept, AppKept
  <2> QED
    BY <1>3, <1>11, <1>12, <2>2 DEF IInv, Sound

-----------------------------------------------------------------------------
(* Every step keeps the invariant.                                          *)
LEMMA NextKeeps ==
    ASSUME IInv, [Next]_vars
    PROVE  IInv'
<1>1. CASE Create
  BY <1>1, CreateKeeps
<1>2. CASE Destroy
  BY <1>2, DestroyKeeps
<1>3. CASE ChangeUniverse
  BY <1>3, ChangeUniverseKeeps
<1>4. CASE ResetNetworking
  BY <1>4, ResetNetworkingKeeps
<1>5. ASSUME NEW h \in Handles, Packet(h) PROVE IInv'
  <2>1. Typed
    BY DEF IInv
  <2>2. /\ Idle /\ UNCHANGED <<network, created, due, app>>
        /\ network.reaches[h] \subseteq network.netints
        /\ KnownStep(h) \/ NewStep(h)
    BY <1>5, <2>1, PacketIs
  <2>3. CASE KnownStep(h)
    <3>1. KnownOutcome(h)
      BY <2>1, <2>2, <2>3, KnownIs
    <3> QED
      BY <1>5, <2>2, <3>1, KnownKeeps
  <2>4. CASE NewStep(h)
    <3>1. NewOutcome(h)
      BY <2>1, <2>2, <2>4, NewIs
    <3> QED
      BY <1>5, <2>2, <3>1, NewKeeps
  <2> QED
    BY <2>2, <2>3, <2>4
<1>6. CASE Process
  BY <1>6, ProcessKeeps
<1>7. CASE Deliver
  BY <1>7, DeliverKeeps
<1>8. CASE Tick
  BY <1>8, TickKeeps
<1>9. CASE UNCHANGED vars
  BY <1>9 DEF vars, IInv, Typed, Sound, Over, Kept, Handles, AppKept, LevelsKept, PapKept,
              DataKept, DataIsOf, PendIn, HasLevels, HasPap
<1> QED
  BY <1>1, <1>2, <1>3, <1>4, <1>5, <1>6, <1>7, <1>8, <1>9 DEF Next

(* The invariant holds in every state.                                      *)
LEMMA Invariant == Spec => []IInv
<1>1. Init => IInv
  BY InitIsSound
<1>2. IInv /\ [Next]_vars => IInv'
  BY NextKeeps
<1> QED
  BY <1>1, <1>2, PTL DEF Spec

(* What the invariant says of the types.                                    *)
LEMMA TypeIs ==
    ASSUME IInv
    PROVE  TypeOK
<1>1. receiver \in ReceiverType(network) /\ network \in Networks
  BY DEF IInv, Typed
<1>2. /\ Tracked \subseteq Handles /\ receiver.sources \in [Tracked -> SourceType(Netints)]
      /\ receiver.term_sets \in SUBSET TermSet(Handles)
  BY <1>1, SourcesOf DEF Tracked, Handles, Netints
<1>3. SourceType(Netints) = Source
  BY DEF SourceType, Source, Timers, Intervals, States
<1>4. DOMAIN receiver.sp \subseteq Netints /\ receiver.sp \in [DOMAIN receiver.sp -> BOOLEAN]
  <2>1. receiver.sp \in Partial(Netints, BOOLEAN)
    BY <1>1 DEF ReceiverType, Netints
  <2> QED
    BY <2>1, PartialIs
<1>5. \A set \in receiver.term_sets :
        /\ set.wait_period \in 0 .. ExpiredWait
        /\ set.sources \in TermSetSources(DOMAIN set.sources)
  <2> SUFFICES ASSUME NEW set \in receiver.term_sets
               PROVE  /\ set.wait_period \in 0 .. ExpiredWait
                      /\ set.sources \in TermSetSources(DOMAIN set.sources)
    OBVIOUS
  <2>1. set \in TermSet(Handles)
    BY <1>2
  <2>2. set.wait_period \in 0 .. ExpiredWait /\ set.sources \in [DOMAIN set.sources -> Flags]
    BY <2>1, TermSetParts
  <2> QED
    BY <2>2 DEF TermSetSources, Flags
<1>6. \A note \in Range(notes) : note.stale \in BOOLEAN
  <2> SUFFICES ASSUME NEW note \in Range(notes) PROVE note.stale \in BOOLEAN
    OBVIOUS
  <2>1. notes \in Seq(NoteType(Handles))
    BY DEF IInv, Typed
  <2> DEFINE T == NoteType(Handles)
  <2> HIDE DEF T
  <2>2. PICK i \in DOMAIN notes : note = notes[i]
    BY DEF Range
  <2>3. note \in T
    BY <2>1, <2>2 DEF T
  <2> QED
    BY <2>3, NoteParts DEF T
<1>7. /\ receiver.netints \subseteq Netints /\ receiver.sampling \in BOOLEAN
      /\ receiver.notified_sampling_started \in BOOLEAN
      /\ receiver.sample_timer \in 0 .. SampleTime
      /\ receiver.suppress_limit_exceeded \in BOOLEAN
  <2> HIDE DEF Partial, SourceType, TermSet
  <2> QED
    BY <1>1 DEF ReceiverType, Netints, SampleTimes
<1>8. /\ created \in BOOLEAN /\ due \in BOOLEAN
      /\ app \in [known : SUBSET Handles, pap : SUBSET Handles, sampled : SUBSET Handles,
                  stray : SUBSET Handles, sampling : BOOLEAN, failed : BOOLEAN]
  BY DEF IInv, Typed, AppType
<1> QED
  BY <1>1, <1>2, <1>3, <1>4, <1>5, <1>6, <1>7, <1>8 DEF TypeOK

(* The types, and what ties the termination sets to the sources             *)
(* (source_loss.c): a set never outlives its sources, and no source is in   *)
(* two of them, whatever the application does between two steps of the      *)
(* thread.                                                                  *)
THEOREM AlwaysConsistent == Spec => []Consistent
<1>1. IInv => Consistent
  <2> SUFFICES ASSUME IInv PROVE Consistent
    OBVIOUS
  <2>1. TypeOK
    BY TypeIs
  <2>2. TermSetsTrackSources
    BY DEF IInv, Sound, TermsSound, TermSetsTrackSources, Tracked
  <2> QED
    BY <2>1, <2>2 DEF Consistent
<1> QED
  BY <1>1, Invariant, PTL

(* Every source whose levels or priorities the application uses is tracked  *)
(* and has them, or it is about to be told that they are lost.              *)
THEOREM LossesAreTold == Spec => []LossesTold
<1>1. IInv => LossesTold
  <2> SUFFICES ASSUME IInv PROVE LossesTold
    OBVIOUS
  <2>1. AppKept(app, notes, receiver.sources)
    BY DEF IInv, Kept
  <2>2. \A kind, h : PendIn(notes, kind, h) <=> Pend(kind, h)
    BY DEF PendIn, Pend
  <2>3. KnownAreTracked
    <3> HIDE DEF PendIn, Pend
    <3> QED
      BY <2>1, <2>2 DEF AppKept, LevelsKept, KnownAreTracked, TrackedOrLost, Tracked, HasLevels
  <2>4. PapTold
    <3> HIDE DEF PendIn, Pend
    <3> QED
      BY <2>1, <2>2 DEF AppKept, PapKept, PapTold, Tracked, HasPap, PapStates
  <2> QED
    BY <2>3, <2>4 DEF LossesTold
<1> QED
  BY <1>1, Invariant, PTL

-----------------------------------------------------------------------------
(* Who is reported lost.                                                    *)

(* A packet has the application told of data, or that there is too much.    *)
PacketKinds == {"dmx", "pap", "other", "pap lost", "limit"}

OfPacket(ns) == \A note \in Range(ns) : note.kind \in PacketKinds

(* Notifications of packets put together.                                   *)
LEMMA OfPacketParts ==
    ASSUME NEW T, NEW s \in Seq(T), NEW t \in Seq(T), OfPacket(s), OfPacket(t)
    PROVE  s \o t \in Seq(T) /\ OfPacket(s \o t)
BY RangeOfConcat DEF OfPacket

(* One such notification or none.                                           *)
LEMMA OneOfPacket ==
    ASSUME NEW note, note.kind \in PacketKinds, NEW s, s = <<>> \/ s = <<note>>
    PROVE  s \in Seq({note}) /\ OfPacket(s)
<1>1. s \in Seq({note}) /\ Range(s) \subseteq {note}
  BY WhenIs
<1> QED
  BY <1>1 DEF OfPacket

(* What a packet of a tracked source has the application told.              *)
LEMMA KnownTells ==
    ASSUME NEW h, KnownOutcome(h)
    PROVE  OfPacket(notes')
<1>1. PICK n, t, lost, data :
         Follows(h, n, receiver.sources[h], t, lost, data) /\ notes' = lost \o data
  BY DEF KnownOutcome
<1> DEFINE first == DataNote(h, "pap lost", FALSE, FALSE)
<1>2. first.kind \in PacketKinds
  BY DEF DataNote, PacketKinds
<1>3. lost = <<>> \/ lost = <<first>>
  BY <1>1 DEF Follows
<1>4. PICK kind \in {"dmx", "pap", "other"} :
        data = <<>> \/ data = <<DataNote(h, kind, IsSampled(n), IsStray(n))>>
  BY <1>1 DEF Follows
<1> DEFINE second == DataNote(h, kind, IsSampled(n), IsStray(n))
<1>5. second.kind \in PacketKinds
  BY DEF DataNote, PacketKinds
<1>6. data = <<>> \/ data = <<second>>
  BY <1>4
<1> HIDE DEF first, second
<1>7. lost \in Seq({first}) /\ OfPacket(lost)
  BY <1>2, <1>3, OneOfPacket
<1>8. data \in Seq({second}) /\ OfPacket(data)
  BY <1>5, <1>6, OneOfPacket
<1> DEFINE T == {first, second}
<1>9. lost \in Seq(T) /\ data \in Seq(T)
  BY <1>7, <1>8
<1> HIDE DEF T
<1>10. OfPacket(lost \o data)
  BY <1>7, <1>8, <1>9, OfPacketParts
<1> QED
  BY <1>1, <1>10

(* What a packet of another source has it told.                             *)
LEMMA NewTells ==
    ASSUME NEW h, NewOutcome(h)
    PROVE  OfPacket(notes')
<1>1. CASE notes' = <<>> \/ notes' = <<Note("limit")>>
  <2> DEFINE note == Note("limit")
  <2>1. note.kind \in PacketKinds
    BY DEF Note, PacketKinds
  <2>2. notes' = <<>> \/ notes' = <<note>>
    BY <1>1
  <2> HIDE DEF note
  <2> QED
    BY <2>1, <2>2, OneOfPacket
<1>2. ASSUME NEW n, NEW kind \in {"dmx", "pap"},
             notes' = <<>> \/ notes' = <<DataNote(h, kind, IsSampled(n), IsStray(n))>>
      PROVE  OfPacket(notes')
  <2> DEFINE note == DataNote(h, kind, IsSampled(n), IsStray(n))
  <2>1. note.kind \in PacketKinds
    BY DEF DataNote, PacketKinds
  <2>2. notes' = <<>> \/ notes' = <<note>>
    BY <1>2
  <2> HIDE DEF note
  <2> QED
    BY <2>1, <2>2, OneOfPacket
<1> QED
  BY <1>1, <1>2 DEF NewOutcome, Begins

(* A step that gives the thread nothing new to deliver reports nobody lost. *)
LostIn(i) == i \in DOMAIN notes' /\ notes'[i].kind = "lost" /\ notes = <<>>

(* Only the periodic processing reports a source lost.                      *)
LEMMA OnlyProcessLoses ==
    ASSUME IInv, [Next]_vars, NEW i, LostIn(i)
    PROVE  Process
<1>1. i \in DOMAIN notes' /\ notes'[i].kind = "lost" /\ notes = <<>>
  BY DEF LostIn
<1>2. DOMAIN notes = {}
  BY <1>1
<1>3. notes' # notes
  BY <1>1, <1>2
<1>4. ~OfPacket(notes')
  <2>1. notes'[i] \in Range(notes')
    BY <1>1 DEF Range
  <2> QED
    BY <1>1, <2>1 DEF OfPacket, PacketKinds
<1>5. ~Create /\ ~Destroy /\ ~ResetNetworking /\ ~Tick /\ vars' # vars
  BY <1>3 DEF Create, Destroy, ResetNetworking, Tick, vars
<1>6. ~ChangeUniverse
  BY <1>1, <1>2 DEF ChangeUniverse
<1>7. ~Deliver
  BY <1>1 DEF Deliver
<1>8. ASSUME NEW h \in Handles, Packet(h) PROVE FALSE
  <2>1. Typed
    BY DEF IInv
  <2>2. /\ Idle /\ network.reaches[h] \subseteq network.netints
        /\ KnownStep(h) \/ NewStep(h)
    BY <1>8, <2>1, PacketIs
  <2>3. CASE KnownStep(h)
    <3>1. KnownOutcome(h)
      BY <2>1, <2>2, <2>3, KnownIs
    <3> QED
      BY <1>4, <3>1, KnownTells
  <2>4. CASE NewStep(h)
    <3>1. NewOutcome(h)
      BY <2>1, <2>2, <2>4, NewIs
    <3> QED
      BY <1>4, <3>1, NewTells
  <2> QED
    BY <2>2, <2>3, <2>4
<1> QED
  BY <1>5, <1>6, <1>7, <1>8 DEF Next

(* It reports those that are silent.                                        *)
LEMMA LostAreSilent ==
    ASSUME IInv, Process, NEW i, LostIn(i), NEW h, h \in DOMAIN notes'[i].lost
    PROVE  IsExpired(receiver.sources[h].packet_timer)
<1>1. PICK ends, starts, r, result :
        /\ r.sources = receiver.sources
        /\ ProcessedWell(network, r, result)
        /\ notes' = Collected(ends, starts, result.lost)
  BY ProcessIs DEF ProcessOutcome
<1> DEFINE lost == result.lost
<1>2. /\ lost \in Partial(DOMAIN network.sends, BOOLEAN)
      /\ \A x \in DOMAIN lost : IsExpired(r.sources[x].packet_timer)
  BY <1>1 DEF ProcessedWell
<1>3. notes' = Collected(ends, starts, lost)
  BY <1>1
<1> HIDE DEF lost
<1>4. \A note \in Range(notes') : note.kind = "lost" => note.lost = lost
  BY <1>2, <1>3, CollectedIs
<1>5. notes'[i] \in Range(notes') /\ notes'[i].kind = "lost"
  BY DEF LostIn, Range
<1> QED
  BY <1>1, <1>2, <1>4, <1>5

(* A source is reported lost only when it was silent for the timeout or     *)
(* ended, although its termination set may have been made when another      *)
(* source went offline, and it may have been back since.                    *)
THEOREM LossesAreReal == Spec => LossIsReal
<1>1. IInv /\ [Next]_vars =>
        [\A i \in DOMAIN notes' : notes'[i].kind = "lost" /\ notes = <<>> =>
            \A h \in DOMAIN notes'[i].lost : IsExpired(receiver.sources[h].packet_timer)]_vars
  <2> SUFFICES ASSUME IInv, [Next]_vars, NEW i \in DOMAIN notes',
                      notes'[i].kind = "lost", notes = <<>>,
                      NEW h \in DOMAIN notes'[i].lost
               PROVE  IsExpired(receiver.sources[h].packet_timer)
    OBVIOUS
  <2>1. LostIn(i)
    BY DEF LostIn
  <2>2. Process
    BY <2>1, OnlyProcessLoses
  <2> QED
    BY <2>1, <2>2, LostAreSilent
<1> QED
  BY <1>1, Invariant, PTL DEF Spec, LossIsReal

-----------------------------------------------------------------------------
(* The promises of ReceiverApi: what is collected is true of the sources    *)
(* and of what the application was told until it is delivered.              *)

OfProcess(ns) == \A note \in Range(ns) : note.kind \in {"ended", "started", "lost"}

IsData(note) == note.kind \in {"dmx", "pap"}

Sort(note) == IF IsData(note) THEN "data" ELSE note.kind

(* What is to be delivered is of one packet or of one processing, and there *)
(* is one of each sort.                                                     *)
Once(ns) == \A i, j \in DOMAIN ns : Sort(ns[i]) = Sort(ns[j]) => i = j

Apart(ns) == (OfPacket(ns) \/ OfProcess(ns)) /\ Once(ns)

(* There are not more sources than the application wants, each is heard on  *)
(* an interface it reaches.                                                 *)
Counted(net, sources) ==
    IsFiniteSet(DOMAIN sources) /\ Cardinality(DOMAIN sources) <= net.source_count_max

Placed(net, sources) == \A h \in DOMAIN sources : sources[h].netint \in net.reaches[h]

(* The application has, or is about to be given, what is tracked, but for   *)
(* previews.                                                                *)
HeldFrom(a, ns, sources, h) ==
    /\ ~IsWaiting(sources[h]) => h \in a.known \/ PendIn(ns, "dmx", h) \/ PendIn(ns, "pap", h)
    /\ HasPapState(sources[h]) => h \in a.pap \/ PendIn(ns, "pap", h)

Given(net, a, ns, sources) ==
    \A h \in DOMAIN sources \ net.previews : HeldFrom(a, ns, sources, h)

(* What is about to be reported lost it has, and the receiver has not.      *)
IsLost(net, a, sources, note) ==
    /\ note.kind = "pap lost" =>
         /\ note.source \in a.pap \cup net.previews
         /\ note.source \in DOMAIN sources => ~HasPapState(sources[note.source])
    /\ note.kind = "lost" =>
         /\ DOMAIN note.lost # {} /\ DOMAIN note.lost \subseteq a.known \cup net.previews
         /\ DOMAIN note.lost \cap DOMAIN sources = {}

LossesTrue(net, a, ns, sources) ==
    \A note \in Range(ns) : ~note.stale => IsLost(net, a, sources, note)

(* A source heard in one place only is sampled while its interface is: so   *)
(* the application was told, unless it is about to be told of the end,      *)
OneWay(net, h) == \A m, n \in net.reaches[h] : m = n

Ends(note) == ~note.stale /\ note.kind = "ended"
EndPending(ns) == \E note \in Range(ns) : Ends(note)

Samples(r, n) == n \in DOMAIN r.sp
InUse(r, n) == n \in r.netints /\ (Samples(r, n) => ~r.sp[n])

Agreed(net, a, ns, r, h) ==
    LET n == r.sources[h].netint IN
    OneWay(net, h) /\ ~r.sources[h].terminated /\ h \in a.known \ a.stray =>
       /\ InUse(r, n) /\ (EndPending(ns) => ~Samples(r, n))
       /\ EndPending(ns) \/ (h \in a.sampled <=> Samples(r, n))

Agrees(net, a, ns, r) == \A h \in DOMAIN r.sources : Agreed(net, a, ns, r, h)

(* and so the data that is about to be delivered says.                      *)
NoteAgrees(net, a, r, note) ==
    LET h == note.source
        n == r.sources[h].netint IN
    OneWay(net, h) =>
       /\ h \in a.known \ a.stray => (note.is_sampling <=> h \in a.sampled)
       /\ ~r.sources[h].terminated /\ ~note.stray =>
            InUse(r, n) /\ (note.is_sampling <=> Samples(r, n))

NotesAgree(net, a, ns, r) ==
    \A note \in Range(ns) : ~note.stale /\ IsData(note) => NoteAgrees(net, a, r, note)

Held(net, a, ns, r) ==
    /\ Given(net, a, ns, r.sources) /\ LossesTrue(net, a, ns, r.sources)
    /\ Agrees(net, a, ns, r) /\ NotesAgree(net, a, ns, r)

(* All this holds as long as the application listens.                       *)
IApi ==
    /\ Counted(network, receiver.sources) /\ Placed(network, receiver.sources)
    /\ Apart(notes)
    /\ app.failed \/ Held(network, app, notes, receiver)

(* Without sources and with nothing new to deliver there is nothing to hold.*)
LEMMA NothingHeld ==
    ASSUME NEW net, net.source_count_max \in Nat, NEW a, NEW ns, NEW r,
           DOMAIN r.sources = {}, \A note \in Range(ns) : note.stale
    PROVE  /\ Held(net, a, ns, r) /\ Counted(net, r.sources) /\ Placed(net, r.sources)
<1>1. Counted(net, r.sources) /\ Placed(net, r.sources)
  BY FS_EmptySet DEF Counted, Placed
<1>2. Given(net, a, ns, r.sources) /\ Agrees(net, a, ns, r)
  BY DEF Given, Agrees
<1>3. LossesTrue(net, a, ns, r.sources) /\ NotesAgree(net, a, ns, r)
  BY DEF LossesTrue, NotesAgree
<1> QED
  BY <1>1, <1>2, <1>3 DEF Held

(* Nothing to deliver.                                                      *)
LEMMA NoneApart ==
    Apart(<<>>) /\ Range(<<>>) = {}
BY DEF Apart, OfPacket, Once, Range

(* Notifications of the same kinds.                                         *)
LEMMA ApartByKind ==
    ASSUME NEW ns, NEW next, Apart(ns), DOMAIN next = DOMAIN ns,
           \A i \in DOMAIN ns : next[i].kind = ns[i].kind
    PROVE  Apart(next)
<1>1. Once(next)
  BY DEF Apart, Once, Sort, IsData
<1>2. OfPacket(ns) => OfPacket(next)
  BY DEF OfPacket, Range
<1>3. OfProcess(ns) => OfProcess(next)
  BY DEF OfProcess, Range
<1> QED
  BY <1>1, <1>2, <1>3 DEF Apart

(* It holds at the start,                                                   *)
LEMMA InitIsApi ==
    ASSUME Init
    PROVE  IApi
<1>1. /\ network \in Networks /\ notes = <<>> /\ receiver = NewReceiver(network.netints)
  BY DEF Init
<1>2. network.netints \in SUBSET network.netints /\ network.source_count_max \in Nat
  BY <1>1, NetworksAssumption
<1>3. DOMAIN receiver.sources = {}
  BY <1>1, <1>2, NewReceiverIs
<1> QED
  BY <1>1, <1>2, <1>3, NoneApart, NothingHeld DEF IApi

(* when the application begins anew,                                        *)
LEMMA CreateIsApi ==
    ASSUME IInv, Create
    PROVE  IApi'
<1>1. /\ network' = network /\ notes' = notes /\ notes = <<>>
  BY DEF Create, IInv, Over
<1>2. PICK netints \in SUBSET network.netints : receiver' = NewReceiver(netints)
  BY DEF Create
<1>3. DOMAIN receiver'.sources = {} /\ network.source_count_max \in Nat
  BY <1>2, NewReceiverIs, NetworkIs DEF IInv
<1> QED
  BY <1>1, <1>3, NoneApart, NothingHeld DEF IApi

(* when it is done with the receiver,                                       *)
LEMMA DestroyIsApi ==
    ASSUME IInv, Destroy
    PROVE  IApi'
<1>1. /\ network' = network /\ notes' = <<>> /\ receiver' = NewReceiver({})
  BY DEF Destroy
<1>2. {} \in SUBSET network.netints
  OBVIOUS
<1>3. DOMAIN receiver'.sources = {} /\ network.source_count_max \in Nat
  BY <1>1, <1>2, NewReceiverIs, NetworkIs DEF IInv
<1> QED
  BY <1>1, <1>3, NoneApart, NothingHeld DEF IApi

(* and on another universe.                                                 *)
LEMMA ChangeUniverseIsApi ==
    ASSUME IInv, IApi, ChangeUniverse
    PROVE  IApi'
<1>1. /\ network' = network /\ DOMAIN receiver'.sources = {} /\ DOMAIN notes' = DOMAIN notes
      /\ \A i \in DOMAIN notes : notes'[i].stale /\ notes'[i].kind = notes[i].kind
  BY ChangeUniverseIs
<1>2. network.source_count_max \in Nat
  BY NetworkIs DEF IInv
<1>3. Apart(notes')
  BY <1>1, ApartByKind DEF IApi
<1>4. \A note \in Range(notes') : note.stale
  BY <1>1 DEF Range
<1> QED
  BY <1>1, <1>2, <1>3, <1>4, NothingHeld DEF IApi

-----------------------------------------------------------------------------
(* Sources that are alike, on the same interfaces, or that ended.           *)
StillIn(r, t) ==
    /\ DOMAIN t.sources = DOMAIN r.sources
    /\ \A h \in DOMAIN r.sources :
          /\ t.sources[h].recv_state = r.sources[h].recv_state
          /\ t.sources[h].netint = r.sources[h].netint

(* An interface is used as it was.                                          *)
SameUse(r, t, n) ==
    InUse(r, n) => InUse(t, n) /\ (Samples(t, n) <=> Samples(r, n))

Persists(r, t) ==
    StillIn(r, t) /\ \A h \in DOMAIN r.sources :
        ~t.sources[h].terminated =>
            ~r.sources[h].terminated /\ SameUse(r, t, r.sources[h].netint)

(* What was held still is.                                                  *)
LEMMA HeldByPersisting ==
    ASSUME NEW net, NEW a, NEW ns, NEW r, NEW t, Persists(r, t),
           DataKept(ns, r.sources), Held(net, a, ns, r)
    PROVE  Held(net, a, ns, t)
<1>1. /\ DOMAIN t.sources = DOMAIN r.sources
      /\ \A h \in DOMAIN r.sources :
            /\ t.sources[h].recv_state = r.sources[h].recv_state
            /\ t.sources[h].netint = r.sources[h].netint
            /\ ~t.sources[h].terminated =>
                 ~r.sources[h].terminated /\ SameUse(r, t, r.sources[h].netint)
  BY DEF Persists, StillIn
<1>2. Given(net, a, ns, t.sources)
  <2> HIDE DEF PendIn
  <2> QED
    BY <1>1 DEF Held, Given, HeldFrom, IsWaiting, HasPapState
<1>3. LossesTrue(net, a, ns, t.sources)
  BY <1>1 DEF Held, LossesTrue, IsLost, HasPapState
<1>4. Agrees(net, a, ns, t)
  <2> SUFFICES ASSUME NEW h \in DOMAIN r.sources PROVE Agreed(net, a, ns, t, h)
    BY <1>1 DEF Agrees
  <2>1. Agreed(net, a, ns, r, h)
    BY DEF Held, Agrees
  <2> HIDE DEF EndPending, OneWay
  <2> QED
    BY <1>1, <2>1 DEF Agreed, SameUse
<1>5. NotesAgree(net, a, ns, t)
  <2> SUFFICES ASSUME NEW note \in Range(ns), ~note.stale, IsData(note)
               PROVE  NoteAgrees(net, a, t, note)
    BY DEF NotesAgree
  <2>1. NoteAgrees(net, a, r, note)
    BY DEF Held, NotesAgree
  <2>2. note.source \in DOMAIN r.sources
    BY DEF DataKept, DataIsOf, IsData, HasLevels
  <2> HIDE DEF OneWay
  <2> QED
    BY <1>1, <2>1, <2>2 DEF NoteAgrees, SameUse
<1> QED
  BY <1>2, <1>3, <1>4, <1>5 DEF Held

(* So are the numbers and places of sources.                                *)
LEMMA SamePlaces ==
    ASSUME NEW net, NEW r, NEW t, StillIn(r, t),
           Counted(net, r.sources), Placed(net, r.sources)
    PROVE  Counted(net, t.sources) /\ Placed(net, t.sources)
BY DEF StillIn, Counted, Placed

(* Tick.                                                                    *)
LEMMA TickIsApi ==
    ASSUME IInv, IApi, Tick
    PROVE  IApi'
<1> DEFINE D == DOMAIN receiver.sources
           sources == [h \in D |-> Aged(receiver.sources[h])]
           sets == {AgedSet(set) : set \in receiver.term_sets}
           timer == Elapse(receiver.sample_timer)
<1>1. /\ network' = network /\ notes' = notes /\ app' = app
      /\ receiver' = [receiver EXCEPT !.sample_timer = timer, !.sources = sources,
                                      !.term_sets = sets]
  BY DEF Tick
<1>2. receiver \in ReceiverType(network)
  BY DEF IInv, Typed
<1>3. DOMAIN sources = D /\ \A h \in D : sources[h] = Aged(receiver.sources[h])
  OBVIOUS
<1>4. \A h \in D : receiver.sources[h] \in SourceType(network.netints)
  BY <1>2, SourcesOf
<1> HIDE DEF sources, sets, timer
<1>5. \A h \in D : Alike(sources[h], receiver.sources[h])
  BY <1>3, <1>4, AgedIs
<1>6. /\ receiver'.sources = sources /\ receiver'.sp = receiver.sp
      /\ receiver'.netints = receiver.netints
  <2> HIDE DEF Partial, SourceType, TermSet, SampleTimes
  <2> QED
    BY <1>1, <1>2 DEF ReceiverType
<1>7. StillIn(receiver, receiver')
  BY <1>3, <1>5, <1>6 DEF StillIn, Alike
<1>8. Persists(receiver, receiver')
  BY <1>5, <1>6, <1>7 DEF Persists, Alike, SameUse, InUse, Samples
<1>9. DataKept(notes, receiver.sources)
  BY DEF IInv, Kept, AppKept
<1> QED
  BY <1>1, <1>7, <1>8, <1>9, SamePlaces, HeldByPersisting DEF IApi

(* An interface that stays is sampled as it was.                            *)
LEMMA SameAfterReset ==
    ASSUME NEW r, NEW netints, NEW t, t.netints = netints,
           t.sp = update_sampling_period_netints(r, netints), NEW n, n \in netints
    PROVE  SameUse(r, t, n)
<1> DEFINE kept == IF r.sampling THEN DOMAIN r.sp \ (r.netints \ netints) ELSE DOMAIN r.sp
           new == netints \ r.netints
<1>1. t.sp = [m \in kept \cup new |-> IF m \in DOMAIN r.sp THEN r.sp[m] ELSE r.sampling]
  BY DEF update_sampling_period_netints
<1> SUFFICES ASSUME InUse(r, n)
             PROVE  InUse(t, n) /\ (Samples(t, n) <=> Samples(r, n))
  BY DEF SameUse
<1>2. n \in kept \cup new <=> n \in DOMAIN r.sp
  BY DEF InUse
<1>3. n \in DOMAIN r.sp => t.sp[n] = r.sp[n]
  BY <1>1, <1>2
<1>4. n \in DOMAIN t.sp <=> n \in DOMAIN r.sp
  BY <1>1, <1>2
<1> QED
  BY <1>3, <1>4 DEF InUse, Samples

(* ResetNetworking.                                                         *)
LEMMA ResetNetworkingIsApi ==
    ASSUME IInv, IApi, ResetNetworking
    PROVE  IApi'
<1>1. network' = network /\ notes' = notes
  BY DEF ResetNetworking
<1>2. PICK netints \in SUBSET network.netints :
         LET updated == [receiver EXCEPT
                            !.sp = update_sampling_period_netints(receiver, netints),
                            !.netints = netints] IN
         \/ receiver' = begin_sampling_period(TerminateRemoved(updated)) /\ app' = app
         \/ receiver' = updated /\ app' = AfterFailure
  BY DEF ResetNetworking
<1> DEFINE updated == Updated(receiver, netints)
           removed == TerminateRemoved(updated)
<1>3. \/ receiver' = begin_sampling_period(removed) /\ app' = app
      \/ receiver' = updated /\ app' = AfterFailure
  BY <1>2 DEF Updated
<1>4. receiver \in ReceiverType(network) /\ netints \in SUBSET network.netints
  BY DEF IInv, Typed
<1>5. /\ updated \in ReceiverType(network) /\ updated.sources = receiver.sources
      /\ updated.term_sets = receiver.term_sets /\ updated.netints = netints
      /\ updated.sp = update_sampling_period_netints(receiver, netints)
  BY <1>4, UpdatedIs
<1> HIDE DEF updated
<1>6. CASE receiver' = updated /\ app' = AfterFailure
  <2>1. StillIn(receiver, receiver')
    BY <1>5, <1>6 DEF StillIn
  <2>2. app'.failed
    BY <1>6, NothingToldIs
  <2> QED
    BY <1>1, <2>1, <2>2, SamePlaces DEF IApi
<1>7. CASE receiver' = begin_sampling_period(removed) /\ app' = app
  <2>1. TermsSound(updated.term_sets, updated.sources)
    BY <1>5 DEF IInv, Sound
  <2>2. /\ removed \in ReceiverType(network) /\ DOMAIN removed.sources = DOMAIN updated.sources
        /\ removed.netints = updated.netints /\ removed.sp = updated.sp
        /\ \A h \in DOMAIN updated.sources :
              /\ removed.sources[h].recv_state = updated.sources[h].recv_state
              /\ removed.sources[h].netint = updated.sources[h].netint
              /\ removed.sources[h].terminated \/ removed.sources[h].netint \in updated.netints
              /\ updated.sources[h].terminated => removed.sources[h].terminated
    BY <1>5, <2>1, TerminateRemovedIs
  <2> HIDE DEF removed
  <2>3. /\ receiver'.sources = removed.sources /\ receiver'.sp = removed.sp
        /\ receiver'.netints = removed.netints
    BY <1>7, <2>2, BeginSampling
  <2>4. StillIn(receiver, receiver')
    BY <1>5, <2>2, <2>3 DEF StillIn
  <2>5. \A n \in netints : SameUse(receiver, receiver', n)
    BY <1>5, <2>2, <2>3, SameAfterReset
  <2>6. Persists(receiver, receiver')
    BY <1>5, <2>2, <2>3, <2>4, <2>5 DEF Persists
  <2>7. DataKept(notes, receiver.sources)
    BY DEF IInv, Kept, AppKept
  <2> QED
    BY <1>1, <1>7, <2>4, <2>6, <2>7, SamePlaces, HeldByPersisting DEF IApi
<1> QED
  BY <1>3, <1>6, <1>7

-----------------------------------------------------------------------------
(* One notification or none.                                                *)
LEMMA OnceOne ==
    ASSUME NEW note, NEW s, s = <<>> \/ s = <<note>>
    PROVE  Once(s) /\ s \in Seq({note})
<1>1. CASE s = <<>>
  BY <1>1 DEF Once
<1>2. CASE s = <<note>>
  <2>1. DOMAIN s = {1} /\ s \in Seq({note})
    BY <1>2
  <2> QED
    BY <2>1 DEF Once
<1> QED
  BY <1>1, <1>2

(* Notifications of different sorts put together.                           *)
LEMMA OnceConcat ==
    ASSUME NEW T, NEW s \in Seq(T), NEW t \in Seq(T), Once(s), Once(t),
           \A x \in Range(s), y \in Range(t) : Sort(x) # Sort(y)
    PROVE  Once(s \o t)
<1> SUFFICES ASSUME NEW i \in DOMAIN (s \o t), NEW j \in DOMAIN (s \o t),
                    Sort((s \o t)[i]) = Sort((s \o t)[j])
             PROVE  i = j
  BY DEF Once
<1>1. \A x \in DOMAIN s, y \in DOMAIN t : Sort(s[x]) # Sort(t[y])
  BY DEF Range
<1>2. \A k \in DOMAIN (s \o t) :
         \/ k \in DOMAIN s /\ (s \o t)[k] = s[k]
         \/ k - Len(s) \in DOMAIN t /\ (s \o t)[k] = t[k - Len(s)] /\ k \in Int
  OBVIOUS
<1> DEFINE F(x) == Sort(x)
<1>3. F((s \o t)[i]) = F((s \o t)[j])
  OBVIOUS
<1>4. /\ \A x, y \in DOMAIN s : F(s[x]) = F(s[y]) => x = y
      /\ \A x, y \in DOMAIN t : F(t[x]) = F(t[y]) => x = y
      /\ \A x \in DOMAIN s, y \in DOMAIN t : F(s[x]) # F(t[y])
  BY <1>1 DEF Once
<1> HIDE DEF F
<1>5. CASE i \in DOMAIN s /\ (s \o t)[i] = s[i]
  <2>1. CASE j \in DOMAIN s /\ (s \o t)[j] = s[j]
    BY <1>3, <1>4, <1>5, <2>1
  <2>2. CASE j - Len(s) \in DOMAIN t /\ (s \o t)[j] = t[j - Len(s)]
    BY <1>3, <1>4, <1>5, <2>2
  <2> QED
    BY <1>2, <2>1, <2>2
<1>6. CASE i - Len(s) \in DOMAIN t /\ (s \o t)[i] = t[i - Len(s)] /\ i \in Int
  <2>1. CASE j \in DOMAIN s /\ (s \o t)[j] = s[j]
    BY <1>3, <1>4, <1>6, <2>1
  <2>2. CASE j - Len(s) \in DOMAIN t /\ (s \o t)[j] = t[j - Len(s)] /\ j \in Int
    <3>1. i - Len(s) = j - Len(s)
      BY <1>3, <1>4, <1>6, <2>2
    <3>2. Len(s) \in Int
      OBVIOUS
    <3> QED
      BY <1>6, <2>2, <3>1, <3>2
  <2> QED
    BY <1>2, <2>1, <2>2
<1> QED
  BY <1>2, <1>5, <1>6

(* The notifications of a packet, in which a source became t.               *)
PacketNote(h, n, s, t, note) ==
    /\ note.source = h
    /\ \/ note.kind = "pap lost" /\ HasPapState(s) /\ ~HasPapState(t)
       \/ /\ note.kind \in {"dmx", "pap", "other"} /\ ~t.terminated
          /\ note.is_sampling = IsSampled(n) /\ note.stray = IsStray(n)

(* What a packet of a tracked source has the application told, and that it  *)
(* is told all there is.                                                    *)
LEMMA FollowsTells ==
    ASSUME NEW h, NEW n, NEW s, NEW t, NEW lost, NEW data, Follows(h, n, s, t, lost, data),
           NEW ns, ns = lost \o data
    PROVE  /\ Apart(ns) /\ \A note \in Range(ns) : PacketNote(h, n, s, t, note)
           /\ h \notin network.previews =>
                /\ ~IsWaiting(t) => ~IsWaiting(s) \/ PendIn(ns, "dmx", h) \/ PendIn(ns, "pap", h)
                /\ HasPapState(t) => HasPapState(s) \/ PendIn(ns, "pap", h)
<1> DEFINE first == DataNote(h, "pap lost", FALSE, FALSE)
<1>1. first.kind = "pap lost" /\ first.source = h
  BY DEF DataNote
<1>2. \/ lost = <<>>
      \/ lost = <<first>> /\ HasPapState(s) /\ ~HasPapState(t)
  BY DEF Follows
<1>3. PICK kind \in {"dmx", "pap", "other"} :
        \/ /\ data = <<>>
           /\ h \notin network.previews =>
                (IsWaiting(s) => IsWaiting(t)) /\ (HasPapState(t) => HasPapState(s))
        \/ /\ data = <<DataNote(h, kind, IsSampled(n), IsStray(n))>> /\ ~t.terminated
           /\ kind = "other" => (IsWaiting(s) => IsWaiting(t))
           /\ kind # "pap" => (HasPapState(t) => HasPapState(s))
  BY DEF Follows
<1> DEFINE second == DataNote(h, kind, IsSampled(n), IsStray(n))
<1>4. /\ second.kind = kind /\ second.source = h /\ second.stale = FALSE
      /\ second.is_sampling = IsSampled(n) /\ second.stray = IsStray(n)
  BY DEF DataNote
<1>5. data = <<>> \/ data = <<second>>
  BY <1>3
<1>6. data = <<>> => (h \notin network.previews =>
                        (IsWaiting(s) => IsWaiting(t)) /\ (HasPapState(t) => HasPapState(s)))
  BY <1>3
<1>7. data = <<second>> => ~t.terminated
  BY <1>3
<1> HIDE DEF first, second
<1> DEFINE T == {first, second}
<1>8. /\ lost \in Seq(T) /\ Range(lost) \subseteq {first} /\ Once(lost)
      /\ (first \in Range(lost) => HasPapState(s) /\ ~HasPapState(t))
  <2>1. lost = <<>> \/ lost = <<first>>
    BY <1>2
  <2>2. lost \in Seq({first}) /\ Range(lost) \subseteq {first} /\ Once(lost)
    BY <2>1, WhenIs, OnceOne
  <2>3. lost = <<>> => Range(lost) = {}
    BY NoneApart
  <2> QED
    BY <1>2, <2>2, <2>3
<1>9. /\ data \in Seq(T) /\ Range(data) \subseteq {second} /\ Once(data)
      /\ data = <<second>> => second \in Range(data)
      /\ second \in Range(data) => data = <<second>>
  <2>1. /\ data \in Seq({second}) /\ Range(data) \subseteq {second} /\ Once(data)
        /\ data = <<second>> => second \in Range(data)
    BY <1>5, WhenIs, OnceOne
  <2>2. data = <<>> => Range(data) = {}
    BY NoneApart
  <2> QED
    BY <1>5, <2>1, <2>2
<1> HIDE DEF T
<1>10. Range(ns) = Range(lost) \cup Range(data)
  BY <1>8, <1>9, RangeOfConcat
<1>11. Sort(first) # Sort(second)
  BY <1>1, <1>4 DEF Sort, IsData
<1>12. \A x \in Range(lost), y \in Range(data) : Sort(x) # Sort(y)
  BY <1>8, <1>9, <1>11
<1>13. Once(ns)
  BY <1>8, <1>9, <1>12, OnceConcat
<1>14. \A note \in Range(ns) :
          \/ note = first /\ HasPapState(s) /\ ~HasPapState(t)
          \/ note = second /\ ~t.terminated
  BY <1>7, <1>8, <1>9, <1>10
<1>15. \A note \in Range(ns) : PacketNote(h, n, s, t, note)
  BY <1>1, <1>3, <1>4, <1>14 DEF PacketNote
<1>16. OfPacket(ns)
  BY <1>15 DEF OfPacket, PacketNote, PacketKinds
<1>17. data = <<second>> => PendIn(ns, kind, h)
  BY <1>3, <1>4, <1>9, <1>10 DEF PendIn
<1>18. ASSUME h \notin network.previews
       PROVE  /\ ~IsWaiting(t) => ~IsWaiting(s) \/ PendIn(ns, "dmx", h) \/ PendIn(ns, "pap", h)
              /\ HasPapState(t) => HasPapState(s) \/ PendIn(ns, "pap", h)
  <2> HIDE DEF PendIn, IsWaiting, HasPapState
  <2>1. CASE data = <<>>
    BY <1>6, <1>18, <2>1
  <2>2. CASE data = <<second>>
    <3>1. PendIn(ns, kind, h)
      BY <1>17, <2>2
    <3>2. /\ kind = "other" => (IsWaiting(s) => IsWaiting(t))
          /\ kind # "pap" => (HasPapState(t) => HasPapState(s))
      BY <1>3, <1>5, <2>2
    <3> QED
      BY <1>3, <3>1, <3>2
  <2> QED
    BY <1>5, <2>1, <2>2
<1> QED
  BY <1>13, <1>15, <1>16, <1>18 DEF Apart

(* With nothing to deliver the application has what is tracked, and knows   *)
(* what is sampled.                                                         *)
LEMMA HeldWithNone ==
    ASSUME NEW net, NEW a, NEW r, Held(net, a, <<>>, r)
    PROVE  /\ \A h \in DOMAIN r.sources \ net.previews :
                 /\ ~IsWaiting(r.sources[h]) => h \in a.known
                 /\ HasPapState(r.sources[h]) => h \in a.pap
           /\ \A h \in DOMAIN r.sources :
                 OneWay(net, h) /\ ~r.sources[h].terminated /\ h \in a.known \ a.stray =>
                    /\ InUse(r, r.sources[h].netint)
                    /\ h \in a.sampled <=> Samples(r, r.sources[h].netint)
<1>1. /\ \A kind, h : ~PendIn(<<>>, kind, h)
      /\ ~EndPending(<<>>)
  BY NoneApart DEF PendIn, EndPending
<1> HIDE DEF PendIn, EndPending, IsWaiting, HasPapState, InUse, Samples, OneWay
<1> QED
  BY <1>1 DEF Held, Given, HeldFrom, Agrees, Agreed

(* A packet does not end the sampling period or lose a source.              *)
LEMMA PacketEndsNothing ==
    ASSUME NEW ns, OfPacket(ns)
    PROVE  ~EndPending(ns) /\ \A note \in Range(ns) : note.kind # "lost"
BY DEF OfPacket, PacketKinds, EndPending, Ends

(* The data of a tracked source is as sampled as the application was told.  *)
LEMMA PacketAgrees ==
    ASSUME NEW n, NEW h, ~IsIgnored(n), NEW note, note.is_sampling = IsSampled(n),
           note.stray = IsStray(n)
    PROVE  ~note.stray => InUse(receiver, n) /\ (note.is_sampling <=> Samples(receiver, n))
BY DEF IsIgnored, IsSampled, IsStray, InUse, Samples

(* A packet of a tracked source.                                            *)
LEMMA KnownIsApi ==
    ASSUME IInv, IApi, Idle, UNCHANGED <<network, created, due, app>>,
           NEW h, h \in Handles, KnownOutcome(h)
    PROVE  IApi'
<1>1. PICK n, t, lost, data :
         /\ n \in network.reaches[h] /\ t \in SourceType(network.netints)
         /\ ~IsIgnored(n) /\ h \in DOMAIN receiver.sources
         /\ Follows(h, n, receiver.sources[h], t, lost, data)
         /\ receiver' = [receiver EXCEPT !.sources[h] = t] /\ notes' = lost \o data
  BY DEF KnownOutcome
<1> DEFINE s == receiver.sources[h]
           D == DOMAIN receiver.sources
<1>2. t.netint = n /\ MayFollow(s, t) /\ (s.terminated => t.terminated)
  BY <1>1 DEF Follows
<1>3. /\ DOMAIN receiver'.sources = D /\ receiver'.sources[h] = t
      /\ \A x \in D : x # h => receiver'.sources[x] = receiver.sources[x]
      /\ receiver'.netints = receiver.netints /\ receiver'.sp = receiver.sp
  <2>1. receiver \in ReceiverType(network) /\ TermsSound(receiver.term_sets, receiver.sources)
    BY DEF IInv, Typed, Sound
  <2>2. receiver' = Replaced(receiver, h, t) /\ h \in DOMAIN receiver.sources
    BY <1>1 DEF Replaced
  <2>3. t \in SourceType(network.netints) /\ MayFollow(receiver.sources[h], t)
    BY <1>1, <1>2
  <2> QED
    BY <2>1, <2>2, <2>3, SourceReplaced
<1>4. /\ Apart(notes') /\ \A note \in Range(notes') : PacketNote(h, n, s, t, note)
      /\ h \notin network.previews =>
           /\ ~IsWaiting(t) => \/ ~IsWaiting(s)
                               \/ PendIn(notes', "dmx", h) \/ PendIn(notes', "pap", h)
           /\ HasPapState(t) => HasPapState(s) \/ PendIn(notes', "pap", h)
  BY <1>1, FollowsTells
<1>5. h \in D /\ s = receiver.sources[h] /\ D = DOMAIN receiver.sources
  BY <1>1
<1> HIDE DEF s, D
<1>6. Counted(network, receiver'.sources) /\ Placed(network, receiver'.sources)
  BY <1>1, <1>2, <1>3, <1>5 DEF IApi, Counted, Placed
<1>7. ASSUME ~app.failed PROVE Held(network, app, notes', receiver')
  <2>1. Held(network, app, <<>>, receiver)
    BY <1>7 DEF IApi, Idle
  <2>2. /\ \A x \in D \ network.previews :
              /\ ~IsWaiting(receiver.sources[x]) => x \in app.known
              /\ HasPapState(receiver.sources[x]) => x \in app.pap
        /\ \A x \in D :
              OneWay(network, x) /\ ~receiver.sources[x].terminated
                /\ x \in app.known \ app.stray =>
                 /\ InUse(receiver, receiver.sources[x].netint)
                 /\ x \in app.sampled <=> Samples(receiver, receiver.sources[x].netint)
    BY <1>5, <2>1, HeldWithNone
  <2>3. Given(network, app, notes', receiver'.sources)
    <3> SUFFICES ASSUME NEW x \in D \ network.previews
                 PROVE  HeldFrom(app, notes', receiver'.sources, x)
      BY <1>3 DEF Given
    <3> HIDE DEF PendIn, IsWaiting, HasPapState
    <3>1. CASE x = h
      BY <1>3, <1>4, <1>5, <2>2, <3>1 DEF HeldFrom
    <3>2. CASE x # h
      BY <1>3, <2>2, <3>2 DEF HeldFrom
    <3> QED
      BY <3>1, <3>2
  <2>4. OfPacket(notes')
    BY <1>4 DEF OfPacket, PacketNote, PacketKinds
  <2>5. ~EndPending(notes') /\ \A note \in Range(notes') : note.kind # "lost"
    BY <2>4, PacketEndsNothing
  <2>6. LossesTrue(network, app, notes', receiver'.sources)
    <3> SUFFICES ASSUME NEW note \in Range(notes')
                 PROVE  IsLost(network, app, receiver'.sources, note)
      BY DEF LossesTrue
    <3>1. PacketNote(h, n, s, t, note) /\ note.kind # "lost"
      BY <1>4, <2>5
    <3> HIDE DEF HasPapState
    <3> QED
      BY <1>3, <1>5, <2>2, <3>1 DEF IsLost, PacketNote
  <2>7. OneWay(network, h) => s.netint = n
    BY <1>1, <1>5 DEF IApi, Placed, OneWay
  <2>8. \A x : /\ InUse(receiver', x) <=> InUse(receiver, x)
               /\ Samples(receiver', x) <=> Samples(receiver, x)
    BY <1>3 DEF InUse, Samples
  <2>9. Agrees(network, app, notes', receiver')
    <3> SUFFICES ASSUME NEW x \in D PROVE Agreed(network, app, notes', receiver', x)
      BY <1>3 DEF Agrees
    <3> HIDE DEF EndPending, OneWay, InUse, Samples
    <3>1. CASE x = h
      BY <1>2, <1>3, <1>5, <2>2, <2>5, <2>7, <2>8, <3>1 DEF Agreed
    <3>2. CASE x # h
      BY <1>3, <2>2, <2>5, <2>8, <3>2 DEF Agreed
    <3> QED
      BY <3>1, <3>2
  <2>10. NotesAgree(network, app, notes', receiver')
    <3> SUFFICES ASSUME NEW note \in Range(notes'), IsData(note), OneWay(network, h)
                 PROVE  NoteAgrees(network, app, receiver', note)
      BY <1>4 DEF NotesAgree, NoteAgrees, PacketNote
    <3>1. /\ note.source = h /\ ~t.terminated
          /\ note.is_sampling = IsSampled(n) /\ note.stray = IsStray(n)
      BY <1>4 DEF IsData, PacketNote
    <3>2. ~note.stray => InUse(receiver, n) /\ (note.is_sampling <=> Samples(receiver, n))
      BY <1>1, <3>1, PacketAgrees
    <3>3. h \in app.known \ app.stray => (note.is_sampling <=> h \in app.sampled)
      <4> SUFFICES ASSUME h \in app.known \ app.stray
                   PROVE  note.is_sampling <=> h \in app.sampled
        OBVIOUS
      <4>1. InUse(receiver, n) /\ (h \in app.sampled <=> Samples(receiver, n))
        BY <1>2, <1>5, <2>2, <2>7, <3>1
      <4>2. ~note.stray
        BY <3>1, <4>1 DEF InUse, IsStray
      <4> QED
        BY <3>2, <4>1, <4>2
    <3> HIDE DEF InUse, Samples, OneWay
    <3> QED
      BY <1>2, <1>3, <2>8, <3>1, <3>2, <3>3 DEF NoteAgrees
  <2> QED
    BY <2>3, <2>6, <2>9, <2>10 DEF Held
<1> QED
  BY <1>4, <1>6, <1>7 DEF IApi

(* With nothing to deliver, what a packet adds is held when it is true.     *)
LEMMA HeldByAdding ==
    ASSUME NEW net, NEW a, NEW r, NEW t, NEW ns, Held(net, a, <<>>, r), OfPacket(ns),
           \A note \in Range(ns) : note.kind # "pap lost",
           DOMAIN r.sources \subseteq DOMAIN t.sources,
           \A h \in DOMAIN r.sources : t.sources[h] = r.sources[h],
           t.sp = r.sp, t.netints = r.netints,
           \A h \in DOMAIN t.sources \ DOMAIN r.sources :
              /\ h \notin a.known
              /\ h \notin net.previews => HeldFrom(a, ns, t.sources, h),
           \A note \in Range(ns) : IsData(note) => NoteAgrees(net, a, t, note)
    PROVE  Held(net, a, ns, t)
<1>1. /\ \A h \in DOMAIN r.sources \ net.previews :
            /\ ~IsWaiting(r.sources[h]) => h \in a.known
            /\ HasPapState(r.sources[h]) => h \in a.pap
      /\ \A h \in DOMAIN r.sources :
            OneWay(net, h) /\ ~r.sources[h].terminated /\ h \in a.known \ a.stray =>
               /\ InUse(r, r.sources[h].netint)
               /\ h \in a.sampled <=> Samples(r, r.sources[h].netint)
  BY HeldWithNone
<1>2. ~EndPending(ns) /\ \A note \in Range(ns) : note.kind # "lost"
  BY PacketEndsNothing
<1>3. \A x : (InUse(t, x) <=> InUse(r, x)) /\ (Samples(t, x) <=> Samples(r, x))
  BY DEF InUse, Samples
<1> HIDE DEF EndPending, OneWay, InUse, Samples, PendIn, IsWaiting, HasPapState, NoteAgrees
<1>4. Given(net, a, ns, t.sources)
  <2> SUFFICES ASSUME NEW h \in DOMAIN t.sources \ net.previews
               PROVE  HeldFrom(a, ns, t.sources, h)
    BY DEF Given
  <2>1. CASE h \in DOMAIN r.sources
    BY <1>1, <2>1 DEF HeldFrom
  <2>2. CASE h \notin DOMAIN r.sources
    BY <2>2
  <2> QED
    BY <2>1, <2>2
<1>5. LossesTrue(net, a, ns, t.sources)
  BY <1>2 DEF LossesTrue, IsLost
<1>6. Agrees(net, a, ns, t)
  <2> SUFFICES ASSUME NEW h \in DOMAIN t.sources PROVE Agreed(net, a, ns, t, h)
    BY DEF Agrees
  <2>1. CASE h \in DOMAIN r.sources
    BY <1>1, <1>2, <1>3, <2>1 DEF Agreed
  <2>2. CASE h \notin DOMAIN r.sources
    BY <2>2 DEF Agreed
  <2> QED
    BY <2>1, <2>2
<1>7. NotesAgree(net, a, ns, t)
  BY DEF NotesAgree
<1> QED
  BY <1>4, <1>5, <1>6, <1>7 DEF Held

(* One more source.                                                         *)
LEMMA CountedMore ==
    ASSUME NEW net, net.source_count_max \in Nat, NEW sources, NEW others,
           NEW h, h \notin DOMAIN sources, DOMAIN others = DOMAIN sources \cup {h},
           Counted(net, sources), ~(Cardinality(DOMAIN sources) >= net.source_count_max)
    PROVE  Counted(net, others)
<1>1. /\ IsFiniteSet(DOMAIN others)
      /\ Cardinality(DOMAIN others) = Cardinality(DOMAIN sources) + 1
  BY FS_AddElement DEF Counted
<1>2. Cardinality(DOMAIN sources) \in Nat
  BY FS_CardinalityType DEF Counted
<1> QED
  BY <1>1, <1>2 DEF Counted

(* A packet of a source that was not tracked: when there is no room for it, *)
LEMMA LimitIsApi ==
    ASSUME IInv, IApi, Idle, UNCHANGED <<network, created, due, app>>,
           receiver' = [receiver EXCEPT !.suppress_limit_exceeded = TRUE],
           notes' = <<>> \/ notes' = <<Note("limit")>>
    PROVE  IApi'
<1> DEFINE note == Note("limit")
<1>1. /\ receiver'.sources = receiver.sources /\ receiver'.sp = receiver.sp
      /\ receiver'.netints = receiver.netints
  <2>1. receiver \in ReceiverType(network)
    BY DEF IInv, Typed
  <2> HIDE DEF Partial, SourceType, TermSet, SampleTimes
  <2> QED
    BY <2>1 DEF ReceiverType
<1>2. note.kind = "limit" /\ (notes' = <<>> \/ notes' = <<note>>)
  BY DEF Note
<1> HIDE DEF note
<1>3. Once(notes') /\ Range(notes') \subseteq {note}
  BY <1>2, OnceOne, WhenIs
<1>4. OfPacket(notes')
  BY <1>2, <1>3 DEF OfPacket, PacketKinds
<1>5. Apart(notes')
  BY <1>3, <1>4 DEF Apart
<1>6. ASSUME ~app.failed PROVE Held(network, app, notes', receiver')
  <2>1. Held(network, app, <<>>, receiver)
    BY <1>6 DEF IApi, Idle
  <2>2. \A x \in Range(notes') : x.kind # "pap lost" /\ ~IsData(x)
    BY <1>2, <1>3 DEF IsData
  <2> QED
    BY <1>1, <1>4, <2>1, <2>2, HeldByAdding
<1> QED
  BY <1>1, <1>5, <1>6 DEF IApi, Counted, Placed

(* and when there is.                                                       *)
LEMMA AddedIsApi ==
    ASSUME IInv, IApi, Idle, UNCHANGED <<network, created, due, app>>,
           NEW h, h \in Handles, h \notin DOMAIN receiver.sources,
           NEW n, n \in network.reaches[h], ~IsIgnored(n),
           NEW t, t \in SourceType(network.netints), Begins(h, n, t, notes'),
           ~(Cardinality(DOMAIN receiver.sources) >= network.source_count_max),
           receiver' = Grown(receiver, h, t)
    PROVE  IApi'
<1>1. receiver \in ReceiverType(network) /\ TermsSound(receiver.term_sets, receiver.sources)
  BY DEF IInv, Typed, Sound
<1>2. /\ DOMAIN receiver'.sources = DOMAIN receiver.sources \cup {h}
      /\ receiver'.sources[h] = t
      /\ \A x \in DOMAIN receiver.sources : receiver'.sources[x] = receiver.sources[x]
      /\ receiver'.netints = receiver.netints /\ receiver'.sp = receiver.sp
  BY <1>1, SourceAdded DEF Handles
<1>3. PICK kind \in {"dmx", "pap"} :
        \/ notes' = <<>> /\ (h \notin network.previews => IsWaiting(t))
        \/ /\ notes' = <<DataNote(h, kind, IsSampled(n), IsStray(n))>>
           /\ ~IsWaiting(t) /\ (HasPapState(t) <=> kind = "pap")
  BY DEF Begins
<1> DEFINE note == DataNote(h, kind, IsSampled(n), IsStray(n))
<1>4. /\ note.kind = kind /\ note.source = h /\ note.stale = FALSE
      /\ note.is_sampling = IsSampled(n) /\ note.stray = IsStray(n)
  BY DEF DataNote
<1>5. \/ notes' = <<>> /\ (h \notin network.previews => IsWaiting(t))
      \/ notes' = <<note>> /\ ~IsWaiting(t) /\ (HasPapState(t) <=> kind = "pap")
  BY <1>3
<1> HIDE DEF note
<1>6. /\ Once(notes') /\ Range(notes') \subseteq {note}
      /\ notes' = <<note>> => note \in Range(notes')
  <2>1. notes' = <<>> \/ notes' = <<note>>
    BY <1>5
  <2>2. note \in {note}
    OBVIOUS
  <2> QED
    BY <2>1, <2>2, OnceOne, WhenIs
<1>7. OfPacket(notes')
  BY <1>4, <1>6 DEF OfPacket, PacketKinds
<1>8. Apart(notes')
  BY <1>6, <1>7 DEF Apart
<1>9. Counted(network, receiver'.sources)
  <2>1. network.source_count_max \in Nat /\ Counted(network, receiver.sources)
    BY NetworkIs DEF IInv, IApi
  <2> QED
    BY <1>2, <2>1, CountedMore
<1>10. Placed(network, receiver'.sources)
  BY <1>2 DEF IApi, Placed, Begins
<1>11. ASSUME ~app.failed PROVE Held(network, app, notes', receiver')
  <2>1. Held(network, app, <<>>, receiver) /\ AppKept(app, <<>>, receiver.sources)
    BY <1>11 DEF IApi, Idle, IInv, Kept
  <2>2. h \notin app.known
    BY <2>1, NonePending DEF HasLevels
  <2>3. ASSUME h \notin network.previews PROVE HeldFrom(app, notes', receiver'.sources, h)
    <3>1. CASE notes' = <<>> /\ IsWaiting(t)
      BY <1>2, <3>1 DEF HeldFrom, IsWaiting, HasPapState, PapStates
    <3>2. CASE notes' = <<note>> /\ ~IsWaiting(t) /\ (HasPapState(t) <=> kind = "pap")
      <4>1. PendIn(notes', kind, h)
        BY <1>4, <1>6, <3>2 DEF PendIn
      <4> HIDE DEF PendIn, IsWaiting, HasPapState
      <4> QED
        BY <1>2, <1>3, <3>2, <4>1 DEF HeldFrom
    <3> QED
      BY <1>5, <2>3, <3>1, <3>2
  <2>4. \A x \in Range(notes') : x.kind # "pap lost"
    BY <1>4, <1>6
  <2>5. NoteAgrees(network, app, receiver', note)
    <3>1. ~note.stray => InUse(receiver, n) /\ (note.is_sampling <=> Samples(receiver, n))
      BY <1>4, PacketAgrees
    <3>2. /\ InUse(receiver', n) <=> InUse(receiver, n)
          /\ Samples(receiver', n) <=> Samples(receiver, n)
      BY <1>2 DEF InUse, Samples
    <3>3. receiver'.sources[h].netint = n
      BY <1>2 DEF Begins
    <3> HIDE DEF InUse, Samples, OneWay
    <3> QED
      BY <1>4, <2>2, <3>1, <3>2, <3>3 DEF NoteAgrees
  <2>6. \A x \in Range(notes') : IsData(x) => NoteAgrees(network, app, receiver', x)
    BY <1>6, <2>5
  <2>7. \A x \in DOMAIN receiver'.sources \ DOMAIN receiver.sources :
           /\ x \notin app.known
           /\ x \notin network.previews => HeldFrom(app, notes', receiver'.sources, x)
    BY <1>2, <2>2, <2>3
  <2>8. DOMAIN receiver.sources \subseteq DOMAIN receiver'.sources
    BY <1>2
  <2> QED
    BY <1>2, <1>7, <2>1, <2>4, <2>6, <2>7, <2>8, HeldByAdding
<1> QED
  BY <1>8, <1>9, <1>10, <1>11 DEF IApi

(* A packet of a source that was not tracked.                               *)
LEMMA NewIsApi ==
    ASSUME IInv, IApi, Idle, UNCHANGED <<network, created, due, app>>,
           NEW h, h \in Handles, NewOutcome(h)
    PROVE  IApi'
<1>1. CASE /\ receiver' = [receiver EXCEPT !.suppress_limit_exceeded = TRUE]
           /\ notes' = <<>> \/ notes' = <<Note("limit")>>
  BY <1>1, LimitIsApi
<1>2. CASE \E n \in network.reaches[h], t \in SourceType(network.netints) :
            /\ ~IsIgnored(n) /\ Begins(h, n, t, notes')
            /\ ~(Cardinality(DOMAIN receiver.sources) >= network.source_count_max)
            /\ receiver' = [receiver EXCEPT !.sources = Added(receiver.sources, h, t)]
  <2>1. PICK n \in network.reaches[h], t \in SourceType(network.netints) :
          /\ ~IsIgnored(n) /\ Begins(h, n, t, notes')
          /\ ~(Cardinality(DOMAIN receiver.sources) >= network.source_count_max)
          /\ receiver' = Grown(receiver, h, t)
    BY <1>2 DEF Grown
  <2>2. h \notin DOMAIN receiver.sources
    BY DEF NewOutcome
  <2> QED
    BY <2>1, <2>2, AddedIsApi
<1> QED
  BY <1>1, <1>2 DEF NewOutcome

-----------------------------------------------------------------------------
(* What the processing of a receiver has the application told: of each sort *)
(* one, the end exactly when the period ends, and losses that are some.     *)
LEMMA CollectedTells ==
    ASSUME NEW handles, NEW lost, lost \in Partial(handles, BOOLEAN), NEW ends, NEW starts,
           NEW next, next = Collected(ends, starts, lost)
    PROVE  /\ Apart(next) /\ (EndPending(next) <=> ends)
           /\ \A note \in Range(next) : note.kind = "lost" => DOMAIN lost # {}
           /\ \A note \in Range(next) : note.kind \in {"ended", "started", "lost"}
<1> DEFINE e == When(ends, Note("ended"))
           b == When(starts, Note("started"))
           l == When(DOMAIN lost # {}, ListNote("lost", lost))
           ended == Note("ended")
           started == Note("started")
           gone == ListNote("lost", lost)
           T == {ended, started, gone}
<1>1. /\ ended.kind = "ended" /\ started.kind = "started" /\ gone.kind = "lost"
      /\ ~ended.stale
  BY DEF Note, ListNote
<1>2. /\ (ends => e = <<ended>>) /\ (~ends => e = <<>>)
      /\ b = <<>> \/ b = <<started>>
      /\ (DOMAIN lost # {} => l = <<gone>>) /\ (DOMAIN lost = {} => l = <<>>)
  BY DEF When
<1>3. next = e \o b \o l
  BY DEF Collected
<1> HIDE DEF e, b, l, ended, started, gone
<1>4. e \in Seq(T) /\ Range(e) \subseteq {ended} /\ Once(e) /\ (ended \in Range(e) <=> ends)
  <2>1. e = <<>> \/ e = <<ended>>
    BY <1>2
  <2>2. e = <<>> => Range(e) = {}
    BY NoneApart
  <2>3. /\ e \in Seq(T) /\ Range(e) \subseteq {ended} /\ Once(e)
        /\ e = <<ended>> => ended \in Range(e)
    BY <2>1, WhenIs, OnceOne
  <2> HIDE DEF T
  <2> QED
    BY <1>2, <2>1, <2>2, <2>3
<1>5. b \in Seq(T) /\ Range(b) \subseteq {started} /\ Once(b)
  BY <1>2, WhenIs, OnceOne
<1>6. l \in Seq(T) /\ Range(l) \subseteq {gone} /\ Once(l) /\ (gone \in Range(l) => DOMAIN lost # {})
  <2>1. l = <<>> \/ l = <<gone>>
    BY <1>2
  <2>2. l = <<>> => Range(l) = {}
    BY NoneApart
  <2>3. l \in Seq(T) /\ Range(l) \subseteq {gone} /\ Once(l)
    BY <2>1, WhenIs, OnceOne
  <2> HIDE DEF T
  <2> QED
    BY <1>2, <2>2, <2>3
<1> HIDE DEF T
<1>7. /\ Sort(ended) = "ended" /\ Sort(started) = "started" /\ Sort(gone) = "lost"
  BY <1>1 DEF Sort, IsData
<1> DEFINE eb == e \o b
<1>8. eb \in Seq(T) /\ Range(eb) = Range(e) \cup Range(b) /\ Once(eb)
  <2>1. \A x \in Range(e), y \in Range(b) : Sort(x) # Sort(y)
    BY <1>4, <1>5, <1>7
  <2> QED
    BY <1>4, <1>5, <2>1, RangeOfConcat, OnceConcat
<1> HIDE DEF eb
<1>9. next = eb \o l
  BY <1>3 DEF eb
<1>10. Range(next) = Range(eb) \cup Range(l) /\ Once(next)
  <2>1. \A x \in Range(eb), y \in Range(l) : Sort(x) # Sort(y)
    BY <1>4, <1>5, <1>6, <1>7, <1>8
  <2> QED
    BY <1>6, <1>8, <1>9, <2>1, RangeOfConcat, OnceConcat
<1>11. \A note \in Range(next) : note = ended \/ note = started \/ note = gone
  BY <1>4, <1>5, <1>6, <1>8, <1>10
<1>12. \A note \in Range(next) : note.kind \in {"ended", "started", "lost"}
  BY <1>1, <1>11
<1>13. Apart(next)
  BY <1>10, <1>12 DEF Apart, OfProcess
<1>14. EndPending(next) <=> ends
  <2>1. ASSUME ends PROVE EndPending(next)
    BY <1>1, <1>4, <1>8, <1>10, <2>1 DEF EndPending, Ends
  <2>2. ASSUME EndPending(next) PROVE ends
    <3>1. ended \in Range(next)
      BY <1>1, <1>11, <2>2 DEF EndPending, Ends
    <3>2. ended \notin Range(b) /\ ended \notin Range(l)
      BY <1>1, <1>5, <1>6
    <3> QED
      BY <1>4, <1>8, <1>10, <3>1, <3>2
  <2> QED
    BY <2>1, <2>2
<1>15. \A note \in Range(next) : note.kind = "lost" => DOMAIN lost # {}
  <2> SUFFICES ASSUME NEW note \in Range(next), note.kind = "lost" PROVE DOMAIN lost # {}
    OBVIOUS
  <2>1. note \in Range(l)
    BY <1>1, <1>4, <1>5, <1>8, <1>10
  <2> QED
    BY <1>6, <2>1
<1> QED
  BY <1>12, <1>13, <1>14, <1>15

(* When a period ends, those in it are sampled no more.                     *)
LEMMA SameAfterEnd ==
    ASSUME NEW r, NEW t, NEW ends, t.netints = r.netints,
           t.sp = IF ends THEN [m \in NextToSample(r.sp) |-> FALSE] ELSE r.sp,
           NEW n, InUse(r, n)
    PROVE  /\ InUse(t, n) /\ (ends => ~Samples(t, n))
           /\ ends \/ (Samples(t, n) <=> Samples(r, n))
<1>1. CASE ends
  <2>1. t.sp = [m \in NextToSample(r.sp) |-> FALSE]
    BY <1>1
  <2>2. DOMAIN t.sp = {m \in DOMAIN r.sp : r.sp[m]}
    BY <2>1 DEF NextToSample
  <2>3. n \notin DOMAIN t.sp
    BY <2>2 DEF InUse, Samples
  <2> QED
    BY <1>1, <2>3 DEF InUse, Samples
<1>2. CASE ~ends
  BY <1>2 DEF InUse, Samples
<1> QED
  BY <1>1, <1>2

(* The periodic processing.                                                 *)
LEMMA ProcessIsApi ==
    ASSUME IInv, IApi, Process
    PROVE  IApi'
<1>1. Idle /\ UNCHANGED <<network, created, app>>
  BY ProcessIs
<1>2. PICK ends, starts, r, result :
        /\ r.sources = receiver.sources /\ r.netints = receiver.netints
        /\ r.sp = IF ends THEN [n \in NextToSample(receiver.sp) |-> FALSE] ELSE receiver.sp
        /\ ProcessedWell(network, r, result) /\ receiver' = result.receiver
        /\ notes' = Collected(ends, starts, result.lost)
  BY ProcessIs DEF ProcessOutcome
<1> DEFINE lost == result.lost
           D == DOMAIN receiver.sources
           E == DOMAIN receiver'.sources
<1>3. /\ lost \in Partial(DOMAIN network.sends, BOOLEAN) /\ E \subseteq D
      /\ \A h \in E : Alike(receiver'.sources[h], receiver.sources[h])
      /\ \A h \in DOMAIN lost : h \in D /\ h \notin E /\ ~IsWaiting(receiver.sources[h])
      /\ receiver'.netints = receiver.netints
      /\ receiver'.sp =
           IF ends THEN [n \in NextToSample(receiver.sp) |-> FALSE] ELSE receiver.sp
  BY <1>2 DEF ProcessedWell
<1> HIDE DEF lost
<1>4. notes' = Collected(ends, starts, lost)
  BY <1>2 DEF lost
<1>5. /\ Apart(notes') /\ (EndPending(notes') <=> ends)
      /\ \A note \in Range(notes') : note.kind = "lost" => DOMAIN lost # {}
      /\ \A note \in Range(notes') : note.kind \in {"ended", "started", "lost"}
      /\ \A note \in Range(notes') : note.kind = "lost" => note.lost = lost
  <2>1. /\ Apart(notes') /\ (EndPending(notes') <=> ends)
        /\ \A note \in Range(notes') : note.kind = "lost" => DOMAIN lost # {}
        /\ \A note \in Range(notes') : note.kind \in {"ended", "started", "lost"}
    BY <1>3, <1>4, CollectedTells
  <2>2. \A note \in Range(notes') : note.kind = "lost" => note.lost = lost
    BY <1>3, <1>4, CollectedIs
  <2> QED
    BY <2>1, <2>2
<1> HIDE DEF D, E
<1>6. Counted(network, receiver'.sources)
  <2>1. /\ IsFiniteSet(D) /\ Cardinality(D) <= network.source_count_max
        /\ network.source_count_max \in Nat
    BY NetworkIs DEF IApi, Counted, D, IInv
  <2>2. IsFiniteSet(E) /\ Cardinality(E) <= Cardinality(D)
    BY <1>3, <2>1, FS_Subset
  <2>3. Cardinality(D) \in Nat /\ Cardinality(E) \in Nat
    BY <2>1, <2>2, FS_CardinalityType
  <2> QED
    BY <2>1, <2>2, <2>3 DEF Counted, E
<1>7. Placed(network, receiver'.sources)
  BY <1>1, <1>3 DEF IApi, Placed, Alike, D, E
<1>8. ASSUME ~app.failed PROVE Held(network, app, notes', receiver')
  <2>1. Held(network, app, <<>>, receiver)
    BY <1>1, <1>8 DEF IApi, Idle
  <2>2. /\ \A h \in D \ network.previews :
              /\ ~IsWaiting(receiver.sources[h]) => h \in app.known
              /\ HasPapState(receiver.sources[h]) => h \in app.pap
        /\ \A h \in D :
              OneWay(network, h) /\ ~receiver.sources[h].terminated
                /\ h \in app.known \ app.stray =>
                 /\ InUse(receiver, receiver.sources[h].netint)
                 /\ h \in app.sampled <=> Samples(receiver, receiver.sources[h].netint)
    BY <2>1, HeldWithNone DEF D
  <2>3. \A h \in E : h \in D
    BY <1>3
  <2>4. Given(network, app, notes', receiver'.sources)
    <3> SUFFICES ASSUME NEW h \in E \ network.previews
                 PROVE  HeldFrom(app, notes', receiver'.sources, h)
      BY DEF Given, E
    <3> HIDE DEF PendIn
    <3> QED
      BY <1>3, <2>2, <2>3 DEF HeldFrom, Alike, IsWaiting, HasPapState
  <2>5. DOMAIN lost \subseteq app.known \cup network.previews
    BY <1>3, <2>2
  <2>6. LossesTrue(network, app, notes', receiver'.sources)
    <3> SUFFICES ASSUME NEW note \in Range(notes')
                 PROVE  IsLost(network, app, receiver'.sources, note)
      BY DEF LossesTrue
    <3>1. CASE note.kind = "lost"
      <4>1. note.lost = lost /\ DOMAIN lost # {} /\ DOMAIN lost \cap E = {}
        BY <1>3, <1>5, <3>1
      <4> QED
        BY <2>5, <3>1, <4>1 DEF IsLost, E
    <3>2. CASE note.kind # "lost"
      BY <1>5, <3>2 DEF IsLost
    <3> QED
      BY <3>1, <3>2
  <2>7. Agrees(network, app, notes', receiver')
    <3> SUFFICES ASSUME NEW h \in E PROVE Agreed(network, app, notes', receiver', h)
      BY DEF Agrees, E
    <3>1. /\ receiver'.sources[h].netint = receiver.sources[h].netint
          /\ receiver'.sources[h].terminated = receiver.sources[h].terminated
      BY <1>3 DEF Alike
    <3> SUFFICES ASSUME OneWay(network, h), ~receiver.sources[h].terminated,
                        h \in app.known \ app.stray
                 PROVE  Agreed(network, app, notes', receiver', h)
      BY <3>1 DEF Agreed
    <3> DEFINE n == receiver.sources[h].netint
    <3>2. InUse(receiver, n) /\ (h \in app.sampled <=> Samples(receiver, n))
      BY <2>2, <2>3
    <3> HIDE DEF n
    <3>3. /\ InUse(receiver', n) /\ (ends => ~Samples(receiver', n))
          /\ ends \/ (Samples(receiver', n) <=> Samples(receiver, n))
      BY <1>3, <3>2, SameAfterEnd
    <3>4. n = receiver'.sources[h].netint
      BY <3>1 DEF n
    <3> HIDE DEF InUse, Samples, OneWay, EndPending
    <3> QED
      BY <1>5, <3>2, <3>3, <3>4 DEF Agreed
  <2>8. NotesAgree(network, app, notes', receiver')
    BY <1>5 DEF NotesAgree, IsData
  <2> QED
    BY <2>4, <2>6, <2>7, <2>8 DEF Held
<1> QED
  BY <1>1, <1>5, <1>6, <1>7, <1>8 DEF IApi

-----------------------------------------------------------------------------
(* The first notification and the others: they are of other sorts.          *)
First(note, rest, ns) ==
    /\ Apart(ns) /\ Apart(rest) /\ Range(ns) = {note} \cup Range(rest)
    /\ \A x \in Range(rest) : Sort(x) # Sort(note)

(* So are the head and the tail.                                            *)
LEMMA HeadIsFirst ==
    ASSUME NEW T, NEW ns, ns \in Seq(T), ns # <<>>, Apart(ns)
    PROVE  First(Head(ns), Tail(ns), ns)
<1>1. Range(ns) = {Head(ns)} \cup Range(Tail(ns))
  BY RangeOfTail
<1>2. \A i \in DOMAIN Tail(ns) : /\ i + 1 \in DOMAIN ns /\ Tail(ns)[i] = ns[i + 1]
                                 /\ i + 1 # 1 /\ i \in Int
  OBVIOUS
<1>3. 1 \in DOMAIN ns /\ Head(ns) = ns[1]
  OBVIOUS
<1> DEFINE F(x) == Sort(x)
<1>4. \A i, j \in DOMAIN ns : F(ns[i]) = F(ns[j]) => i = j
  BY DEF Apart, Once
<1> HIDE DEF F
<1>5. \A i \in DOMAIN Tail(ns) : F(Tail(ns)[i]) # F(Head(ns))
  BY <1>2, <1>3, <1>4
<1>6. \A x \in Range(Tail(ns)) : Sort(x) # Sort(Head(ns))
  BY <1>5 DEF F, Range
<1>7. \A i, j \in DOMAIN Tail(ns) : F(Tail(ns)[i]) = F(Tail(ns)[j]) => i = j
  <2> SUFFICES ASSUME NEW i \in DOMAIN Tail(ns), NEW j \in DOMAIN Tail(ns),
                      F(Tail(ns)[i]) = F(Tail(ns)[j])
               PROVE  i = j
    OBVIOUS
  <2>1. i + 1 = j + 1
    BY <1>2, <1>4
  <2> QED
    BY <1>2, <2>1
<1>8. Once(Tail(ns))
  BY <1>7 DEF Once, F
<1>9. OfPacket(Tail(ns)) \/ OfProcess(Tail(ns))
  BY <1>1 DEF Apart, OfPacket, OfProcess
<1> QED
  BY <1>1, <1>6, <1>8, <1>9 DEF First, Apart

(* What is pending is the first or pending among the others.                *)
LEMMA RestPends ==
    ASSUME NEW note, NEW rest, NEW ns, First(note, rest, ns)
    PROVE  /\ \A kind, h : PendIn(ns, kind, h) =>
                 \/ PendIn(rest, kind, h)
                 \/ /\ ~note.stale /\ note.kind = kind
                    /\ kind # "lost" => note.source = h
           /\ EndPending(ns) <=> Ends(note) \/ EndPending(rest)
<1>1. Range(ns) = {note} \cup Range(rest)
  BY DEF First
<1>2. EndPending(ns) <=> Ends(note) \/ EndPending(rest)
  BY <1>1 DEF EndPending
<1>3. ASSUME NEW kind, NEW h, PendIn(ns, kind, h)
      PROVE  \/ PendIn(rest, kind, h)
             \/ /\ ~note.stale /\ note.kind = kind
                /\ kind # "lost" => note.source = h
  BY <1>1, <1>3 DEF PendIn
<1> QED
  BY <1>2, <1>3

(* When the first is not data, all data is among the others.                *)
DataStays(rest, ns, h) ==
    \A kind \in {"dmx", "pap"} : PendIn(ns, kind, h) => PendIn(rest, kind, h)

(* It is.                                                                   *)
LEMMA DataInRest ==
    ASSUME NEW note, NEW rest, NEW ns, First(note, rest, ns), note.stale \/ ~IsData(note),
           NEW h
    PROVE  DataStays(rest, ns, h)
BY RestPends DEF IsData, DataStays

(* With the first of a packet come no others of a processing.               *)
LEMMA RestOfKind ==
    ASSUME NEW note, NEW rest, NEW ns, First(note, rest, ns)
    PROVE  /\ note.kind \in {"dmx", "pap", "pap lost"} => OfPacket(rest)
           /\ note.kind \in {"lost", "ended"} => OfProcess(rest)
           /\ IsData(note) => \A x \in Range(rest) : ~IsData(x)
           /\ ~IsData(note) => \A x \in Range(rest) : x.kind # note.kind
<1>1. /\ OfPacket(ns) \/ OfProcess(ns)
      /\ Range(ns) = {note} \cup Range(rest)
      /\ \A x \in Range(rest) : Sort(x) # Sort(note)
  BY DEF First, Apart
<1>2. /\ OfPacket(ns) => note.kind \in PacketKinds /\ OfPacket(rest)
      /\ OfProcess(ns) => note.kind \in {"ended", "started", "lost"} /\ OfProcess(rest)
  BY <1>1 DEF OfPacket, OfProcess
<1>3. /\ note.kind \in {"dmx", "pap", "pap lost"} => OfPacket(rest)
      /\ note.kind \in {"lost", "ended"} => OfProcess(rest)
  BY <1>1, <1>2 DEF PacketKinds
<1>4. IsData(note) => \A x \in Range(rest) : ~IsData(x)
  BY <1>1 DEF Sort
<1>5. ~IsData(note) => \A x \in Range(rest) : x.kind # note.kind
  BY <1>1 DEF Sort, IsData
<1> QED
  BY <1>3, <1>4, <1>5

(* What was held is held after the first is delivered: data,                *)
LEMMA DataHeld ==
    ASSUME NEW net, NEW a, NEW b, NEW r, NEW note, NEW rest, NEW ns, First(note, rest, ns),
           Held(net, a, ns, r), ~note.stale, IsData(note),
           b.known = a.known \cup {note.source},
           b.pap = IF note.kind = "pap" THEN a.pap \cup {note.source} ELSE a.pap,
           b.sampled = IF note.is_sampling THEN a.sampled \cup {note.source}
                       ELSE a.sampled \ {note.source},
           b.stray = IF note.stray THEN a.stray \cup {note.source} ELSE a.stray
    PROVE  Held(net, b, rest, r)
<1>1. OfPacket(rest) /\ \A x \in Range(rest) : ~IsData(x)
  BY RestOfKind DEF IsData
<1>2. ~EndPending(rest) /\ (\A x \in Range(rest) : x.kind # "lost") /\ ~EndPending(ns)
  <2>1. ~Ends(note)
    BY DEF Ends, IsData
  <2> QED
    BY <1>1, <2>1, PacketEndsNothing, RestPends
<1>3. note \in Range(ns) /\ Range(rest) \subseteq Range(ns)
  BY DEF First
<1>4. Given(net, b, rest, r.sources)
  <2> SUFFICES ASSUME NEW h \in DOMAIN r.sources \ net.previews
               PROVE  HeldFrom(b, rest, r.sources, h)
    BY DEF Given
  <2>1. HeldFrom(a, ns, r.sources, h)
    BY DEF Held, Given
  <2>2. \A kind \in {"dmx", "pap"} : PendIn(ns, kind, h) =>
          PendIn(rest, kind, h) \/ (note.kind = kind /\ note.source = h)
    BY RestPends
  <2> HIDE DEF PendIn, IsWaiting, HasPapState
  <2> QED
    BY <2>1, <2>2 DEF HeldFrom
<1>5. LossesTrue(net, b, rest, r.sources)
  <2> SUFFICES ASSUME NEW x \in Range(rest), ~x.stale PROVE IsLost(net, b, r.sources, x)
    BY DEF LossesTrue
  <2>1. IsLost(net, a, r.sources, x) /\ x.kind # "lost"
    BY <1>2, <1>3 DEF Held, LossesTrue
  <2> QED
    BY <2>1 DEF IsLost
<1>6. Agrees(net, b, rest, r)
  <2> SUFFICES ASSUME NEW h \in DOMAIN r.sources PROVE Agreed(net, b, rest, r, h)
    BY DEF Agrees
  <2>1. Agreed(net, a, ns, r, h) /\ NoteAgrees(net, a, r, note)
    BY <1>3 DEF Held, Agrees, NotesAgree
  <2> HIDE DEF EndPending, OneWay, InUse, Samples
  <2>2. CASE h = note.source
    BY <1>2, <2>1, <2>2 DEF Agreed, NoteAgrees
  <2>3. CASE h # note.source
    <3>1. /\ h \in b.known <=> h \in a.known
          /\ h \in b.stray <=> h \in a.stray
          /\ h \in b.sampled <=> h \in a.sampled
      BY <2>3
    <3> QED
      BY <1>2, <2>1, <3>1 DEF Agreed
  <2> QED
    BY <2>2, <2>3
<1>7. NotesAgree(net, b, rest, r)
  BY <1>1 DEF NotesAgree
<1> QED
  BY <1>4, <1>5, <1>6, <1>7 DEF Held

(* that priorities were lost,                                               *)
LEMMA PapLossHeld ==
    ASSUME NEW net, NEW a, NEW b, NEW r, NEW note, NEW rest, NEW ns, First(note, rest, ns),
           Held(net, a, ns, r), ~note.stale, note.kind = "pap lost",
           b.known = a.known, b.pap = a.pap \ {note.source}, b.sampled = a.sampled,
           b.stray = a.stray
    PROVE  Held(net, b, rest, r)
<1>1. OfPacket(rest) /\ \A x \in Range(rest) : x.kind # "pap lost" /\ x.kind # "lost"
  <2>1. ~IsData(note)
    BY DEF IsData
  <2> QED
    BY <2>1, RestOfKind, PacketEndsNothing
<1>2. ~EndPending(rest) /\ ~EndPending(ns)
  <2>1. ~Ends(note)
    BY DEF Ends
  <2> QED
    BY <1>1, <2>1, PacketEndsNothing, RestPends
<1>3. note \in Range(ns) /\ Range(rest) \subseteq Range(ns)
  BY DEF First
<1>4. Given(net, b, rest, r.sources)
  <2> SUFFICES ASSUME NEW h \in DOMAIN r.sources \ net.previews
               PROVE  HeldFrom(b, rest, r.sources, h)
    BY DEF Given
  <2>1. HeldFrom(a, ns, r.sources, h)
    BY DEF Held, Given
  <2>2. DataStays(rest, ns, h)
    <3>1. note.stale \/ ~IsData(note)
      BY DEF IsData
    <3> QED
      BY <3>1, DataInRest
  <2>3. IsLost(net, a, r.sources, note)
    BY <1>3 DEF Held, LossesTrue
  <2> HIDE DEF PendIn, IsWaiting, HasPapState
  <2> QED
    BY <2>1, <2>2, <2>3 DEF HeldFrom, DataStays, IsLost
<1>5. LossesTrue(net, b, rest, r.sources)
  BY <1>1 DEF LossesTrue, IsLost
<1>6. Agrees(net, b, rest, r)
  <2> SUFFICES ASSUME NEW h \in DOMAIN r.sources PROVE Agreed(net, b, rest, r, h)
    BY DEF Agrees
  <2>1. Agreed(net, a, ns, r, h)
    BY DEF Held, Agrees
  <2> HIDE DEF EndPending, OneWay, InUse, Samples
  <2> QED
    BY <1>2, <2>1 DEF Agreed
<1>7. NotesAgree(net, b, rest, r)
  BY <1>3 DEF Held, NotesAgree, NoteAgrees
<1> QED
  BY <1>4, <1>5, <1>6, <1>7 DEF Held

(* that sources were,                                                       *)
LEMMA LossHeld ==
    ASSUME NEW net, NEW a, NEW b, NEW r, NEW note, NEW rest, NEW ns, First(note, rest, ns),
           Held(net, a, ns, r), ~note.stale, note.kind = "lost",
           b.known = a.known \ DOMAIN note.lost, b.pap = a.pap \ DOMAIN note.lost,
           b.sampled = a.sampled \ DOMAIN note.lost, b.stray = a.stray \ DOMAIN note.lost
    PROVE  Held(net, b, rest, r)
<1>1. OfProcess(rest) /\ \A x \in Range(rest) : x.kind # "lost"
  <2>1. ~IsData(note)
    BY DEF IsData
  <2> QED
    BY <2>1, RestOfKind
<1>2. EndPending(rest) <=> EndPending(ns)
  <2>1. ~Ends(note)
    BY DEF Ends
  <2> QED
    BY <2>1, RestPends
<1>3. note \in Range(ns)
  BY DEF First
<1>4. DOMAIN note.lost \cap DOMAIN r.sources = {}
  BY <1>3 DEF Held, LossesTrue, IsLost
<1>5. \A h \in DOMAIN r.sources :
         /\ h \in b.known <=> h \in a.known
         /\ h \in b.pap <=> h \in a.pap
         /\ h \in b.sampled <=> h \in a.sampled
         /\ h \in b.stray <=> h \in a.stray
  BY <1>4
<1>6. Given(net, b, rest, r.sources)
  <2> SUFFICES ASSUME NEW h \in DOMAIN r.sources \ net.previews
               PROVE  HeldFrom(b, rest, r.sources, h)
    BY DEF Given
  <2>1. HeldFrom(a, ns, r.sources, h)
    BY DEF Held, Given
  <2>2. DataStays(rest, ns, h)
    <3>1. note.stale \/ ~IsData(note)
      BY DEF IsData
    <3> QED
      BY <3>1, DataInRest
  <2> HIDE DEF PendIn, IsWaiting, HasPapState
  <2> QED
    BY <1>5, <2>1, <2>2 DEF HeldFrom, DataStays
<1>7. LossesTrue(net, b, rest, r.sources)
  BY <1>1 DEF LossesTrue, IsLost, OfProcess
<1>8. Agrees(net, b, rest, r)
  <2> SUFFICES ASSUME NEW h \in DOMAIN r.sources PROVE Agreed(net, b, rest, r, h)
    BY DEF Agrees
  <2>1. Agreed(net, a, ns, r, h)
    BY DEF Held, Agrees
  <2> HIDE DEF EndPending, OneWay, InUse, Samples
  <2> QED
    BY <1>2, <1>5, <2>1 DEF Agreed
<1>9. NotesAgree(net, b, rest, r)
  BY <1>1 DEF NotesAgree, OfProcess, IsData
<1> QED
  BY <1>6, <1>7, <1>8, <1>9 DEF Held

(* that the sampling period ended,                                          *)
LEMMA EndHeld ==
    ASSUME NEW net, NEW a, NEW b, NEW r, NEW note, NEW rest, NEW ns, First(note, rest, ns),
           Held(net, a, ns, r), Ends(note),
           b.known = a.known, b.pap = a.pap, b.sampled = {}, b.stray = a.stray
    PROVE  Held(net, b, rest, r)
<1>1. OfProcess(rest) /\ \A x \in Range(rest) : x.kind # "ended"
  <2>1. ~IsData(note) /\ note.kind = "ended"
    BY DEF IsData, Ends
  <2> QED
    BY <2>1, RestOfKind
<1>2. ~EndPending(rest) /\ EndPending(ns)
  <2>1. ~EndPending(rest)
    BY <1>1 DEF EndPending, Ends
  <2> QED
    BY <2>1, RestPends
<1>3. Range(rest) \subseteq Range(ns)
  BY DEF First
<1>4. Given(net, b, rest, r.sources)
  <2> SUFFICES ASSUME NEW h \in DOMAIN r.sources \ net.previews
               PROVE  HeldFrom(b, rest, r.sources, h)
    BY DEF Given
  <2>1. HeldFrom(a, ns, r.sources, h)
    BY DEF Held, Given
  <2>2. DataStays(rest, ns, h)
    <3>1. note.stale \/ ~IsData(note)
      BY DEF IsData, Ends
    <3> QED
      BY <3>1, DataInRest
  <2> HIDE DEF PendIn, IsWaiting, HasPapState
  <2> QED
    BY <2>1, <2>2 DEF HeldFrom, DataStays
<1>5. LossesTrue(net, b, rest, r.sources)
  BY <1>3 DEF Held, LossesTrue, IsLost
<1>6. Agrees(net, b, rest, r)
  <2> SUFFICES ASSUME NEW h \in DOMAIN r.sources PROVE Agreed(net, b, rest, r, h)
    BY DEF Agrees
  <2>1. Agreed(net, a, ns, r, h)
    BY DEF Held, Agrees
  <2> HIDE DEF EndPending, OneWay, InUse, Samples
  <2> QED
    BY <1>2, <2>1 DEF Agreed
<1>7. NotesAgree(net, b, rest, r)
  BY <1>1 DEF NotesAgree, OfProcess, IsData
<1> QED
  BY <1>4, <1>5, <1>6, <1>7 DEF Held

(* and what tells the application nothing of the sources.                   *)
LEMMA OtherHeld ==
    ASSUME NEW net, NEW a, NEW b, NEW r, NEW note, NEW rest, NEW ns, First(note, rest, ns),
           Held(net, a, ns, r), ~Ends(note), ~note.stale => ~IsData(note),
           b.known = a.known, b.pap = a.pap, b.sampled = a.sampled, b.stray = a.stray
    PROVE  Held(net, b, rest, r)
<1>1. EndPending(rest) <=> EndPending(ns)
  BY RestPends
<1>2. Range(rest) \subseteq Range(ns)
  BY DEF First
<1>3. Given(net, b, rest, r.sources)
  <2> SUFFICES ASSUME NEW h \in DOMAIN r.sources \ net.previews
               PROVE  HeldFrom(b, rest, r.sources, h)
    BY DEF Given
  <2>1. HeldFrom(a, ns, r.sources, h)
    BY DEF Held, Given
  <2>2. DataStays(rest, ns, h)
    <3>1. note.stale \/ ~IsData(note)
      BY DEF IsData
    <3> QED
      BY <3>1, DataInRest
  <2> HIDE DEF PendIn, IsWaiting, HasPapState
  <2> QED
    BY <2>1, <2>2 DEF HeldFrom, DataStays
<1>4. LossesTrue(net, b, rest, r.sources)
  BY <1>2 DEF Held, LossesTrue, IsLost
<1>5. Agrees(net, b, rest, r)
  <2> SUFFICES ASSUME NEW h \in DOMAIN r.sources PROVE Agreed(net, b, rest, r, h)
    BY DEF Agrees
  <2>1. Agreed(net, a, ns, r, h)
    BY DEF Held, Agrees
  <2> HIDE DEF EndPending, OneWay, InUse, Samples
  <2> QED
    BY <1>1, <2>1 DEF Agreed
<1>6. NotesAgree(net, b, rest, r)
  BY <1>2 DEF Held, NotesAgree, NoteAgrees
<1> QED
  BY <1>3, <1>4, <1>5, <1>6 DEF Held

(* Deliver.                                                                 *)
LEMMA DeliverIsApi ==
    ASSUME IInv, IApi, Deliver
    PROVE  IApi'
<1> DEFINE note == Head(notes)
           T == NoteType(Handles)
<1>1. /\ notes # <<>> /\ app' = Told(note) /\ notes' = Tail(notes)
      /\ network' = network /\ receiver' = receiver
  BY DEF Deliver
<1>2. Typed /\ notes \in Seq(T)
  BY DEF IInv, Typed
<1> HIDE DEF T
<1>3. note \in T /\ First(note, notes', notes)
  BY <1>1, <1>2, RangeOfTail, HeadIsFirst DEF IApi
<1> HIDE DEF note
<1>4. ToldAs(note, app')
  <2>1. note \in NoteType(Handles) /\ app' = Told(note)
    BY <1>1, <1>3 DEF T
  <2> QED
    BY <1>2, <2>1, ToldIs
<1>5. note.kind \in {"dmx", "pap", "other", "pap lost", "lost", "limit", "started", "ended"}
  BY <1>3, NoteParts DEF T
<1>6. ASSUME ~app.failed PROVE Held(network, app', notes', receiver)
  <2>1. Held(network, app, notes, receiver)
    BY <1>6 DEF IApi
  <2>2. CASE note.stale
    <3>1. app' = app /\ ~Ends(note)
      BY <1>4, <2>2 DEF ToldAs, Listens, Ends
    <3> QED
      BY <1>3, <2>1, <2>2, <3>1, OtherHeld
  <2>3. CASE ~note.stale
    <3>1. Listens(note)
      BY <1>6, <2>3 DEF Listens
    <3>2. CASE note.kind \in {"dmx", "pap"}
      <4>1. /\ app'.known = app.known \cup {note.source}
            /\ app'.pap = IF note.kind = "pap" THEN app.pap \cup {note.source} ELSE app.pap
            /\ app'.sampled = IF note.is_sampling THEN app.sampled \cup {note.source}
                              ELSE app.sampled \ {note.source}
            /\ app'.stray = IF note.stray THEN app.stray \cup {note.source} ELSE app.stray
        BY <1>4, <3>1, <3>2 DEF ToldAs
      <4>2. IsData(note)
        BY <3>2 DEF IsData
      <4> QED
        BY <1>3, <2>1, <2>3, <4>1, <4>2, DataHeld
    <3>3. CASE note.kind = "pap lost"
      <4>1. /\ app'.known = app.known /\ app'.pap = app.pap \ {note.source}
            /\ app'.sampled = app.sampled /\ app'.stray = app.stray
        BY <1>4, <3>1, <3>3 DEF ToldAs
      <4> QED
        BY <1>3, <2>1, <2>3, <3>3, <4>1, PapLossHeld
    <3>4. CASE note.kind = "lost"
      <4>1. /\ app'.known = app.known \ DOMAIN note.lost /\ app'.pap = app.pap \ DOMAIN note.lost
            /\ app'.sampled = app.sampled \ DOMAIN note.lost
            /\ app'.stray = app.stray \ DOMAIN note.lost
        BY <1>4, <3>1, <3>4 DEF ToldAs
      <4> QED
        BY <1>3, <2>1, <2>3, <3>4, <4>1, LossHeld
    <3>5. CASE note.kind = "ended"
      <4>1. /\ app'.known = app.known /\ app'.pap = app.pap
            /\ app'.sampled = {} /\ app'.stray = app.stray
        BY <1>4, <3>1, <3>5 DEF ToldAs
      <4>2. Ends(note)
        BY <2>3, <3>5 DEF Ends
      <4> QED
        BY <1>3, <2>1, <4>1, <4>2, EndHeld
    <3>6. CASE note.kind \in {"other", "limit", "started"}
      <4>1. /\ app'.known = app.known /\ app'.pap = app.pap
            /\ app'.sampled = app.sampled /\ app'.stray = app.stray
        <5>1. CASE note.kind \in {"limit", "other"}
          BY <1>4, <5>1 DEF ToldAs
        <5>2. CASE note.kind = "started"
          BY <1>4, <3>1, <5>2 DEF ToldAs
        <5> QED
          BY <3>6, <5>1, <5>2
      <4>2. ~Ends(note) /\ ~IsData(note)
        BY <3>6 DEF Ends, IsData
      <4> QED
        BY <1>3, <2>1, <4>1, <4>2, OtherHeld
    <3> QED
      BY <1>5, <3>2, <3>3, <3>4, <3>5, <3>6
  <2> QED
    BY <2>2, <2>3
<1>7. app'.failed = app.failed
  BY <1>4 DEF ToldAs
<1>8. Apart(notes')
  BY <1>3 DEF First
<1> QED
  BY <1>1, <1>6, <1>7, <1>8 DEF IApi

(* Every step keeps it.                                                     *)
LEMMA NextIsApi ==
    ASSUME IInv, IApi, [Next]_vars
    PROVE  IApi'
<1>1. CASE Create
  BY <1>1, CreateIsApi
<1>2. CASE Destroy
  BY <1>2, DestroyIsApi
<1>3. CASE ChangeUniverse
  BY <1>3, ChangeUniverseIsApi
<1>4. CASE ResetNetworking
  BY <1>4, ResetNetworkingIsApi
<1>5. ASSUME NEW h \in Handles, Packet(h) PROVE IApi'
  <2>1. Typed
    BY DEF IInv
  <2>2. /\ Idle /\ UNCHANGED <<network, created, due, app>>
        /\ network.reaches[h] \subseteq network.netints
        /\ KnownStep(h) \/ NewStep(h)
    BY <1>5, <2>1, PacketIs
  <2>3. CASE KnownStep(h)
    <3>1. KnownOutcome(h)
      BY <2>1, <2>2, <2>3, KnownIs
    <3> QED
      BY <1>5, <2>2, <3>1, KnownIsApi
  <2>4. CASE NewStep(h)
    <3>1. NewOutcome(h)
      BY <2>1, <2>2, <2>4, NewIs
    <3> QED
      BY <1>5, <2>2, <3>1, NewIsApi
  <2> QED
    BY <2>2, <2>3, <2>4
<1>6. CASE Process
  BY <1>6, ProcessIsApi
<1>7. CASE Deliver
  BY <1>7, DeliverIsApi
<1>8. CASE Tick
  BY <1>8, TickIsApi
<1>9. CASE UNCHANGED vars
  <2>1. /\ network' = network /\ receiver' = receiver /\ notes' = notes /\ app' = app
    BY <1>9 DEF vars
  <2> QED
    BY <2>1 DEF IApi
<1> QED
  BY <1>1, <1>2, <1>3, <1>4, <1>5, <1>6, <1>7, <1>8, <1>9 DEF Next

(* Both invariants hold in every state.                                     *)
LEMMA ApiInvariant == Spec => [](IInv /\ IApi)
<1>1. Init => IInv /\ IApi
  BY InitIsSound, InitIsApi
<1>2. IInv /\ IApi /\ [Next]_vars => (IInv /\ IApi)'
  BY NextKeeps, NextIsApi
<1> QED
  BY <1>1, <1>2, PTL DEF Spec

-----------------------------------------------------------------------------
(* The notifications, one by one.                                           *)

(* A source that may not move is heard in one place only.                   *)
LEMMA StaysInPlace ==
    ASSUME Typed, NEW h, h \in Handles, ~MayMove(network, h)
    PROVE  OneWay(network, h) /\ h \notin app.stray
<1>1. ~(Cardinality(network.reaches[h]) > 1) /\ h \notin app.stray
  BY DEF MayMove
<1>2. network.reaches[h] \in SUBSET network.netints /\ IsFiniteSet(network.netints)
  BY NetworksAssumption DEF Typed, Handles
<1> DEFINE S == network.reaches[h]
<1>3. IsFiniteSet(S) /\ Cardinality(S) \in Nat
  BY <1>2, FS_Subset, FS_CardinalityType
<1> HIDE DEF S
<1>4. ASSUME NEW m \in S, NEW n \in S, m # n PROVE FALSE
  <2>1. IsFiniteSet({m}) /\ Cardinality({m}) = 1
    BY FS_Singleton
  <2>2. Cardinality({m} \cup {n}) = 2
    BY <1>4, <2>1, FS_AddElement
  <2>3. {m} \cup {n} \in SUBSET S
    OBVIOUS
  <2>4. Cardinality({m} \cup {n}) <= Cardinality(S)
    BY <1>3, <2>3, FS_Subset
  <2>5. Cardinality(S) > 1
    BY <1>3, <2>2, <2>4
  <2> QED
    BY <1>1, <2>5 DEF S
<1> QED
  BY <1>1, <1>4 DEF OneWay, S

(* There is room for a source the application is given and does not know.   *)
LEMMA RoomForNew ==
    ASSUME IInv, IApi, notes # <<>>, NEW note, note = Head(notes), IsData(note), Listens(note),
           note.source \notin app.known
    PROVE  Cardinality(app.known) < network.source_count_max
<1> DEFINE D == DOMAIN receiver.sources
<1>1. Typed /\ notes \in Seq(NoteType(Handles)) /\ Apart(notes)
  BY DEF IInv, Typed, IApi
<1>2. First(note, Tail(notes), notes)
  BY <1>1, HeadIsFirst
<1>3. \A x \in Range(Tail(notes)) : x.kind # "lost"
  <2>1. OfPacket(Tail(notes))
    BY <1>2, RestOfKind DEF IsData
  <2> QED
    BY <2>1, PacketEndsNothing
<1>4. \A x \in Range(notes) : x.kind # "lost"
  BY <1>2, <1>3 DEF First, IsData
<1>5. \A h : ~PendIn(notes, "lost", h)
  BY <1>4 DEF PendIn
<1>6. /\ LevelsKept(app, notes, receiver.sources) /\ DataKept(notes, receiver.sources)
      /\ note \in Range(notes)
  BY <1>2 DEF IInv, Kept, AppKept, First
<1>7. app.known \in SUBSET D
  BY <1>5, <1>6 DEF LevelsKept, HasLevels
<1>8. note.source \in D
  BY <1>6 DEF DataKept, DataIsOf, IsData, Listens, HasLevels
<1>9. /\ IsFiniteSet(D) /\ Cardinality(D) <= network.source_count_max
      /\ network.source_count_max \in Nat
  BY <1>1, NetworkIs DEF IApi, Counted
<1> HIDE DEF D
<1>10. /\ IsFiniteSet(app.known) /\ Cardinality(app.known) <= Cardinality(D)
       /\ Cardinality(D) # Cardinality(app.known)
  BY <1>7, <1>8, <1>9, FS_Subset
<1>11. Cardinality(app.known) \in Nat /\ Cardinality(D) \in Nat
  BY <1>9, <1>10, FS_CardinalityType
<1> QED
  BY <1>9, <1>10, <1>11

(* The promises, in terms of the application: that a source is new,         *)
LEMMA ApiIsNew ==
    ASSUME NEW net, NEW h, h \notin app.known, Cardinality(app.known) < net.source_count_max
    PROVE  Api(net)!IsNew(h)
<1>1. ASSUME NEW S PROVE Api(net)!Cardinality(S) = Cardinality(S)
  BY DEF Api!Cardinality, Cardinality
<1>2. ToldOfUniverse.known = app.known
  BY DEF ToldOfUniverse
<1>3. Api(net)!IsNew(h) <=> /\ h \notin ToldOfUniverse.known
                            /\ Cardinality(ToldOfUniverse.known) < net.source_count_max
  BY <1>1 DEF Api!IsNew
<1> QED
  BY <1>2, <1>3

(* what data adds to what it knows,                                         *)
LEMMA ApiWithData ==
    ASSUME NEW net, NEW h, NEW s
    PROVE  Api(net)!WithData(h, s) =
             [known |-> app.known \cup {h}, pap |-> app.pap,
              sampled |-> IF s THEN app.sampled \cup {h} ELSE app.sampled \ {h},
              sampling |-> app.sampling]
<1> DEFINE known == app.known \cup {h}
           sampled == IF s THEN app.sampled \cup {h} ELSE app.sampled \ {h}
           told == ToldOfUniverse
<1>1. told = [known |-> app.known, pap |-> app.pap, sampled |-> app.sampled,
              sampling |-> app.sampling]
  BY DEF ToldOfUniverse
<1>2. told.known = app.known /\ told.sampled = app.sampled
  BY <1>1
<1>3. Api(net)!WithData(h, s) =
        [told EXCEPT !.known = told.known \cup {h},
                     !.sampled = IF s THEN told.sampled \cup {h} ELSE told.sampled \ {h}]
  BY DEF Api!WithData
<1> HIDE DEF told
<1>4. Api(net)!WithData(h, s) = [told EXCEPT !.known = known, !.sampled = sampled]
  BY <1>2, <1>3
<1> HIDE DEF known, sampled
<1>5. Api(net)!WithData(h, s) = [known |-> known, pap |-> app.pap, sampled |-> sampled,
                                 sampling |-> app.sampling]
  BY <1>1, <1>4
<1> QED
  BY <1>5 DEF known, sampled

(* and with it that its priorities are current.                             *)
LEMMA ApiWithPap ==
    ASSUME NEW net, NEW h, NEW s
    PROVE  [Api(net)!WithData(h, s) EXCEPT !.pap = @ \cup {h}] =
             [known |-> app.known \cup {h}, pap |-> app.pap \cup {h},
              sampled |-> IF s THEN app.sampled \cup {h} ELSE app.sampled \ {h},
              sampling |-> app.sampling]
<1> DEFINE known == app.known \cup {h}
           sampled == IF s THEN app.sampled \cup {h} ELSE app.sampled \ {h}
           pap == app.pap \cup {h}
           told == Api(net)!WithData(h, s)
<1>1. told = [known |-> known, pap |-> app.pap, sampled |-> sampled, sampling |-> app.sampling]
  BY ApiWithData
<1> HIDE DEF told, known, sampled
<1>2. told.pap = app.pap
  BY <1>1
<1>3. [told EXCEPT !.pap = @ \cup {h}] = [told EXCEPT !.pap = pap]
  BY <1>2
<1> HIDE DEF pap
<1>4. [told EXCEPT !.pap = pap] = [known |-> known, pap |-> pap, sampled |-> sampled,
                                   sampling |-> app.sampling]
  BY <1>1
<1> QED
  BY <1>3, <1>4 DEF told, known, sampled, pap

(* The data of a source is as sampled as it was, unless the source may move.*)
LEMMA DataKeepsPromise ==
    ASSUME IInv, IApi, NEW net, network = net,
           notes # <<>>, NEW note, note = Head(notes), IsData(note), Listens(note),
           ToldAs(note, app')
    PROVE  KeepsPromise(net, note)
<1> DEFINE h == note.source
           s == note.is_sampling
<1>1. Typed /\ note \in NoteType(Handles) /\ note \in Range(notes)
  BY RangeOfTail DEF IInv, Typed
<1>2. h \in Handles
  BY <1>1, NoteParts DEF IsData, DataKinds
<1>3. /\ app'.known = app.known \cup {h}
      /\ app'.pap = IF note.kind = "pap" THEN app.pap \cup {h} ELSE app.pap
      /\ app'.sampled = IF s THEN app.sampled \cup {h} ELSE app.sampled \ {h}
      /\ app'.sampling = app.sampling
  BY DEF ToldAs, IsData
<1>4. ToldOfUniverse.known = app.known /\ ToldOfUniverse.sampled = app.sampled
  BY DEF ToldOfUniverse
<1>5. h \in app.known \/ Api(net)!IsNew(h)
  BY RoomForNew, ApiIsNew
<1>6. \/ Api(net)!Sampled(h, s)
      \/ MayMove(network, h) /\ h \in app.known
  <2> SUFFICES ASSUME h \in app.known, ~MayMove(network, h)
               PROVE  Api(net)!Sampled(h, s)
    BY <1>4 DEF Api!Sampled
  <2>1. OneWay(network, h) /\ h \notin app.stray
    BY <1>1, <1>2, StaysInPlace
  <2>2. NoteAgrees(network, app, receiver, note)
    BY <1>1 DEF IApi, Held, NotesAgree, Listens
  <2>3. s <=> h \in app.sampled
    BY <2>1, <2>2 DEF NoteAgrees
  <2> QED
    BY <1>4, <2>3 DEF Api!Sampled
<1>7. CASE note.kind = "dmx"
  <2>1. ToldOfUniverse' = Api(net)!WithData(h, s)
    BY <1>3, <1>7, ApiWithData DEF ToldOfUniverse
  <2>2. \/ Api(net)!ApiLevels(h, s)
        \/ MayMove(net, h) /\ Api(net)!ApiLevelsMove(h, s)
    BY <1>4, <1>5, <1>6, <2>1 DEF Api!ApiLevels, Api!ApiLevelsMove
  <2> QED
    BY <1>7, <2>2 DEF KeepsPromise
<1>8. CASE note.kind = "pap"
  <2>1. ToldOfUniverse' = [Api(net)!WithData(h, s) EXCEPT !.pap = @ \cup {h}]
    BY <1>3, <1>8, ApiWithPap DEF ToldOfUniverse
  <2>2. \/ Api(net)!ApiPriorities(h, s)
        \/ MayMove(net, h) /\ Api(net)!ApiPrioritiesMove(h, s)
    BY <1>4, <1>5, <1>6, <2>1 DEF Api!ApiPriorities, Api!ApiPrioritiesMove
  <2> QED
    BY <1>8, <2>2 DEF KeepsPromise
<1> QED
  BY <1>7, <1>8 DEF IsData

(* Losses are of what the application has, or would have of a preview.      *)
LEMMA PapLossKeepsPromise ==
    ASSUME IApi, NEW net, network = net,
           NEW note \in Range(notes), note.kind = "pap lost", Listens(note),
           ToldAs(note, app')
    PROVE  KeepsPromise(net, note)
<1> DEFINE h == note.source
           told == ToldOfUniverse
           pap == app.pap \ {h}
<1>1. h \in app.pap \cup network.previews
  BY DEF IApi, Held, LossesTrue, IsLost, Listens
<1>2. told = [known |-> app.known, pap |-> app.pap, sampled |-> app.sampled,
              sampling |-> app.sampling]
  BY DEF ToldOfUniverse
<1>3. /\ app'.known = app.known /\ app'.pap = pap /\ app'.sampled = app.sampled
      /\ app'.sampling = app.sampling
  BY DEF ToldAs
<1>4. told' = [known |-> app'.known, pap |-> app'.pap, sampled |-> app'.sampled,
               sampling |-> app'.sampling]
  BY DEF ToldOfUniverse
<1>5. told.pap = app.pap
  BY <1>2
<1>6. Api(net)!ApiPapLost(h) <=> /\ h \in told.pap \cup network.previews
                                     /\ told' = [told EXCEPT !.pap = told.pap \ {h}]
  BY DEF Api!ApiPapLost
<1> HIDE DEF told
<1>7. told' = [told EXCEPT !.pap = pap]
  <2> HIDE DEF pap
  <2> DEFINE next == [told EXCEPT !.pap = pap]
  <2>1. next = [told EXCEPT !.pap = pap]
    OBVIOUS
  <2> HIDE DEF next
  <2>2. next = [known |-> app.known, pap |-> pap, sampled |-> app.sampled,
               sampling |-> app.sampling]
    BY <1>2, <2>1
  <2>3. told' = [told EXCEPT !.pap = pap]
    BY <1>3, <1>4, <2>1, <2>2
  <2> QED
    BY <2>3
<1> QED
  BY <1>1, <1>5, <1>6, <1>7 DEF KeepsPromise

(* So are those of sources.                                                 *)
LEMMA LossKeepsPromise ==
    ASSUME IApi, NEW net, network = net,
           NEW note \in Range(notes), note.kind = "lost", Listens(note),
           ToldAs(note, app')
    PROVE  KeepsPromise(net, note)
<1> DEFINE lost == DOMAIN note.lost
           told == ToldOfUniverse
           known == app.known \ lost
           pap == app.pap \ lost
           sampled == app.sampled \ lost
<1>1. lost # {} /\ lost \subseteq app.known \cup network.previews
  BY DEF IApi, Held, LossesTrue, IsLost, Listens
<1>2. told = [known |-> app.known, pap |-> app.pap, sampled |-> app.sampled,
              sampling |-> app.sampling]
  BY DEF ToldOfUniverse
<1>3. /\ app'.known = known /\ app'.pap = pap /\ app'.sampled = sampled
      /\ app'.sampling = app.sampling
  BY DEF ToldAs
<1>4. told' = [known |-> app'.known, pap |-> app'.pap, sampled |-> app'.sampled,
               sampling |-> app'.sampling]
  BY DEF ToldOfUniverse
<1>5. told.known = app.known /\ told.pap = app.pap /\ told.sampled = app.sampled
  BY <1>2
<1>6. Api(net)!ApiSourcesLost(lost) <=>
        /\ lost # {} /\ lost \subseteq told.known \cup network.previews
        /\ told' = [told EXCEPT !.known = told.known \ lost, !.pap = told.pap \ lost,
                                !.sampled = told.sampled \ lost]
  BY DEF Api!ApiSourcesLost
<1> HIDE DEF told
<1>7. told' = [told EXCEPT !.known = known, !.pap = pap, !.sampled = sampled]
  <2> HIDE DEF known, pap, sampled
  <2> DEFINE next == [told EXCEPT !.known = known, !.pap = pap, !.sampled = sampled]
  <2>1. next = [told EXCEPT !.known = known, !.pap = pap, !.sampled = sampled]
    OBVIOUS
  <2> HIDE DEF next
  <2>2. next = [known |-> known, pap |-> pap, sampled |-> sampled, sampling |-> app.sampling]
    BY <1>2, <2>1
  <2>3. told' = [told EXCEPT !.known = known, !.pap = pap, !.sampled = sampled]
    BY <1>3, <1>4, <2>1, <2>2
  <2> QED
    BY <2>3
<1> QED
  BY <1>1, <1>5, <1>6, <1>7 DEF KeepsPromise

(* The sampling period, and what tells the application nothing of sources.  *)
LEMMA OthersKeepPromise ==
    ASSUME NEW net, NEW note, note.kind \in {"started", "ended", "limit", "other"},
           Listens(note), ToldAs(note, app')
    PROVE  KeepsPromise(net, note)
<1> DEFINE told == ToldOfUniverse
<1>1. told = [known |-> app.known, pap |-> app.pap, sampled |-> app.sampled,
              sampling |-> app.sampling]
  BY DEF ToldOfUniverse
<1>2. told' = [known |-> app'.known, pap |-> app'.pap, sampled |-> app'.sampled,
               sampling |-> app'.sampling]
  BY DEF ToldOfUniverse
<1>3. CASE note.kind = "started"
  <2>1. /\ app'.known = app.known /\ app'.pap = app.pap /\ app'.sampled = app.sampled
        /\ app'.sampling = TRUE
    BY <1>3 DEF ToldAs
  <2>2. Api(net)!ApiSamplingStarted <=> told' = [told EXCEPT !.sampling = TRUE]
    BY DEF Api!ApiSamplingStarted
  <2> HIDE DEF told
  <2> DEFINE next == [told EXCEPT !.sampling = TRUE]
  <2>3. next = [told EXCEPT !.sampling = TRUE]
    OBVIOUS
  <2> HIDE DEF next
  <2>4. next = [known |-> app.known, pap |-> app.pap, sampled |-> app.sampled,
               sampling |-> TRUE]
    BY <1>1, <2>3
  <2>5. told' = [told EXCEPT !.sampling = TRUE]
    BY <1>2, <2>1, <2>3, <2>4
  <2> QED
    BY <1>3, <2>2, <2>5 DEF KeepsPromise
<1>4. CASE note.kind = "ended"
  <2>1. /\ app'.known = app.known /\ app'.pap = app.pap /\ app'.sampled = {}
        /\ app'.sampling = FALSE
    BY <1>4 DEF ToldAs
  <2>2. Api(net)!ApiSamplingEnded <=>
          told' = [told EXCEPT !.sampling = FALSE, !.sampled = {}]
    BY DEF Api!ApiSamplingEnded
  <2> HIDE DEF told
  <2> DEFINE next == [told EXCEPT !.sampling = FALSE, !.sampled = {}]
  <2>3. next = [told EXCEPT !.sampling = FALSE, !.sampled = {}]
    OBVIOUS
  <2> HIDE DEF next
  <2>4. next = [known |-> app.known, pap |-> app.pap, sampled |-> {}, sampling |-> FALSE]
    BY <1>1, <2>3
  <2>5. told' = [told EXCEPT !.sampling = FALSE, !.sampled = {}]
    BY <1>2, <2>1, <2>3, <2>4
  <2> QED
    BY <1>4, <2>2, <2>5 DEF KeepsPromise
<1>5. CASE note.kind \in {"limit", "other"}
  <2>1. app' = app
    BY <1>5 DEF ToldAs
  <2>2. UNCHANGED ToldOfUniverse
    BY <2>1 DEF ToldOfUniverse
  <2> QED
    BY <1>5, <2>2 DEF KeepsPromise
<1> QED
  BY <1>3, <1>4, <1>5

(* What the application hears, or that it hears nothing.                    *)
LEMMA DeliverKeepsPromise ==
    ASSUME IInv, IApi, Deliver, NEW net, network = net
    PROVE  IF Listens(Head(notes)) THEN KeepsPromise(net, Head(notes))
           ELSE UNCHANGED ToldOfUniverse
<1> DEFINE note == Head(notes)
<1>1. notes # <<>> /\ app' = Told(note)
  BY DEF Deliver
<1>2. Typed /\ notes \in Seq(NoteType(Handles))
  BY DEF IInv, Typed
<1>3. note \in NoteType(Handles) /\ note \in Range(notes)
  BY <1>1, <1>2, RangeOfTail
<1>4. note = Head(notes)
  OBVIOUS
<1> HIDE DEF note
<1>5. ToldAs(note, app')
  BY <1>1, <1>2, <1>3, ToldIs
<1>6. CASE ~Listens(note)
  <2>1. app' = app
    BY <1>5, <1>6 DEF ToldAs
  <2> QED
    BY <1>4, <1>6, <2>1 DEF ToldOfUniverse
<1>7. CASE Listens(note)
  <2>1. CASE IsData(note)
    BY <1>1, <1>4, <1>5, <1>7, <2>1, DataKeepsPromise
  <2>2. CASE note.kind = "pap lost"
    BY <1>3, <1>4, <1>5, <1>7, <2>2, PapLossKeepsPromise
  <2>3. CASE note.kind = "lost"
    BY <1>3, <1>4, <1>5, <1>7, <2>3, LossKeepsPromise
  <2>4. CASE note.kind \in {"started", "ended", "limit", "other"}
    BY <1>4, <1>5, <1>7, <2>4, OthersKeepPromise
  <2>5. note.kind \in {"dmx", "pap", "other", "pap lost", "lost", "limit", "started", "ended"}
    BY <1>3, NoteParts
  <2> QED
    BY <2>1, <2>2, <2>3, <2>4, <2>5 DEF IsData
<1> QED
  BY <1>4, <1>6, <1>7

(* No other step delivers, and it leaves what the application was told, or  *)
(* the application begins anew.                                             *)
LEMMA OthersDeliverNothing ==
    ASSUME IInv, Next, ~Deliver
    PROVE  ~Delivering /\ (app' = app \/ app' = NothingTold \/ app' = AfterFailure)
<1>1. notes \in Seq(NoteType(Handles))
  BY DEF IInv, Typed
<1>2. ASSUME Delivering PROVE DOMAIN notes' # DOMAIN notes /\ notes # <<>>
  <2>1. notes # <<>> /\ notes' = Tail(notes)
    BY <1>2 DEF Delivering
  <2> DEFINE T == NoteType(Handles)
  <2> HIDE DEF T
  <2>2. notes \in Seq(T)
    BY <1>1 DEF T
  <2>3. Len(notes) \in Nat /\ Len(notes) > 0 /\ Len(notes') = Len(notes) - 1
    BY <2>1, <2>2
  <2>4. Len(notes) \in DOMAIN notes /\ Len(notes) \notin DOMAIN notes'
    BY <2>1, <2>2, <2>3
  <2> QED
    BY <2>1, <2>4
<1>3. CASE Create
  BY <1>2, <1>3 DEF Create
<1>4. CASE Destroy
  BY <1>2, <1>4 DEF Destroy
<1>5. CASE ChangeUniverse
  <2>1. DOMAIN notes' = DOMAIN notes
    BY <1>5, ChangeUniverseIs
  <2>2. app' = NothingTold \/ app' = AfterFailure
    BY <1>5 DEF ChangeUniverse
  <2> QED
    BY <1>2, <2>1, <2>2
<1>6. CASE ResetNetworking
  <2>1. app' = app \/ app' = AfterFailure
    BY <1>6 DEF ResetNetworking
  <2> QED
    BY <1>2, <1>6, <2>1 DEF ResetNetworking
<1>7. ASSUME NEW h \in Handles, Packet(h)
      PROVE  ~Delivering /\ app' = app
  <2>1. notes = <<>> /\ app' = app
    BY <1>7 DEF Packet, Idle
  <2> QED
    BY <1>2, <2>1
<1>8. CASE Process
  <2>1. notes = <<>> /\ app' = app
    BY <1>8 DEF Process, Idle
  <2> QED
    BY <1>2, <2>1
<1>9. CASE Tick
  <2>1. notes' = notes /\ app' = app
    BY <1>9 DEF Tick
  <2> QED
    BY <1>2, <2>1
<1> QED
  BY <1>3, <1>4, <1>5, <1>6, <1>7, <1>8, <1>9 DEF Next

(* An application that begins anew forgets.                                 *)
LEMMA Forgets ==
    ASSUME NEW net, app' = NothingTold \/ app' = AfterFailure
    PROVE  Api(net)!ApiForget
<1>1. ToldOfUniverse' = [known |-> app'.known, pap |-> app'.pap, sampled |-> app'.sampled,
                         sampling |-> app'.sampling]
  BY DEF ToldOfUniverse
<1>2. app'.known = {} /\ app'.pap = {} /\ app'.sampled = {} /\ app'.sampling = FALSE
  <2>1. /\ NothingTold.known = {} /\ NothingTold.pap = {}
        /\ NothingTold.sampled = {} /\ NothingTold.sampling = FALSE
    BY DEF NothingTold
  <2>2. /\ AfterFailure.known = {} /\ AfterFailure.pap = {}
        /\ AfterFailure.sampled = {} /\ AfterFailure.sampling = FALSE
    BY DEF NothingTold, AfterFailure
  <2> QED
    BY <2>1, <2>2
<1> QED
  BY <1>1, <1>2 DEF Api!ApiForget, Api!NothingToldYet

(* A receiver keeps the promises that its users, MergeReceiver among them,  *)
(* are built on: callback by callback it implements ReceiverApi.  Data is   *)
(* of a source the application knows, or of a new one when there is room    *)
(* for it (max of receiver.h); whether it is part of the sampling period    *)
(* does not change until the period ends or the source is lost, unless the  *)
(* source is heard in several places; losses are of what the application    *)
(* has, or of what was kept from it as a preview; and nothing else changes  *)
(* what it was told but its own calls.                                      *)
THEOREM PromisesAreKept == Spec => KeepsPromises
<1>1. IInv /\ IApi /\ [Next]_vars =>
        [\A net \in Networks : network = net =>
            IF Delivering /\ Listens(Head(notes))
            THEN KeepsPromise(net, Head(notes))
            ELSE Api(net)!ApiForget \/ UNCHANGED ToldOfUniverse]_vars
  <2> SUFFICES ASSUME IInv, IApi, Next, NEW net \in Networks, network = net
               PROVE  IF Delivering /\ Listens(Head(notes))
                      THEN KeepsPromise(net, Head(notes))
                      ELSE Api(net)!ApiForget \/ UNCHANGED ToldOfUniverse
    OBVIOUS
  <2>1. CASE Deliver
    <3>1. Delivering
      BY <2>1 DEF Deliver, Delivering
    <3> QED
      BY <2>1, <3>1, DeliverKeepsPromise
  <2>2. CASE ~Deliver
    <3>1. ~Delivering
      BY <2>2, OthersDeliverNothing
    <3>2. CASE app' = app
      BY <3>1, <3>2 DEF ToldOfUniverse
    <3>3. CASE app' = NothingTold \/ app' = AfterFailure
      BY <3>1, <3>3, Forgets
    <3> QED
      BY <2>2, <3>2, <3>3, OthersDeliverNothing
  <2> QED
    BY <2>1, <2>2
<1> QED
  BY <1>1, ApiInvariant, PTL DEF Spec, KeepsPromises
=============================================================================
