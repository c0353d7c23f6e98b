--------------------------- MODULE SourceDetector ---------------------------
(***************************************************************************)
(* The sACN source detector (src/sACN/src/sacn/source_detector.c,          *)
(* source_detector_state.c and mem/source_detector): it puts the universe  *)
(* lists of sources together from the pages of their universe discovery    *)
(* packets and tells the application of lists that are new and of sources  *)
(* that fell silent.  Sources are known by the handles of remote_source.c, *)
(* which the receivers hold as well.                                       *)
(*                                                                         *)
(* The receive thread handles a packet, with its callbacks, under the      *)
(* detector's callback lock, which destroy takes too: each is one action.  *)
(* Packets may be lost, repeated and late: any page of any list comes at   *)
(* any time.                                                               *)
(***************************************************************************)
EXTENDS Integers, Sequences, FiniteSets, Functions, SequencesExt

CONSTANTS
    Cids,          \* the components of the network
    HandleNumbers, \* the handles there are
    Lists,         \* the universe lists sources may send, as sequences of pages
    Limits,        \* what <<source_count_max, universes_per_source_max>> may be; 0: no limit
    Garbage,       \* what memory that was never written may hold
    Expiration     \* two kSacnUniverseDiscoveryIntervals

(* parse_sacn_universe_discovery_layer: an octet numbers the pages, and the *)
(* length of one has twelve bits.                                           *)
MaxPages == 256
MaxInPage == (4095 - 8) \div 2

ASSUME DetectorAssumption ==
    /\ Cardinality(HandleNumbers) >= Cardinality(Cids)
    /\ Lists \subseteq Seq(Seq(Nat)) \ {<<>>}
    /\ \A list \in Lists : /\ Len(list) <= MaxPages
                            /\ \A i \in DOMAIN list : Len(list[i]) <= MaxInPage
    /\ Limits \subseteq Nat \X Nat /\ Expiration \in Nat \ {0}
    /\ Garbage \subseteq Nat /\ Garbage # {}

VARIABLES
    detector,   \* SacnSourceDetector, with created
    sources,    \* universe_discovery_sources, by handle
    remote,     \* remote_source_handles and remote_source_cids
    tracked,    \* the components the receivers hold a handle of
    told,       \* what the application was told of each component
    heard,      \* the list whose pages came in order last, to state properties
    recreated   \* a detector was created before this one, to state properties

vars == <<detector, sources, remote, tracked, told, heard, recreated>>

Untold == <<-1>>

-----------------------------------------------------------------------------
(* remote_source.c: one handle for each component, counted.                 *)

HandleOf(c) == remote[c].handle
IsRemote(c) == c \in DOMAIN remote

Used == {HandleOf(c) : c \in DOMAIN remote}

WithRemote(c, handle) ==
    [x \in DOMAIN remote \cup {c} |->
        IF x # c THEN remote[x]
        ELSE IF IsRemote(c) THEN [remote[c] EXCEPT !.refcount = @ + 1]
        ELSE [handle |-> handle, refcount |-> 1]]

(* add_remote_source_handle: the handle c has, or a new one.                *)
HandlesFor(c) == IF IsRemote(c) THEN {HandleOf(c)} ELSE HandleNumbers \ Used

OneLess(entry) == [entry EXCEPT !.refcount = @ - 1]

(* mutant: the last reference to a handle stays.                            *)
KeepLast(table, cs) ==
    [c \in DOMAIN table |->
        IF c \in cs /\ table[c].refcount > 1 THEN OneLess(table[c]) ELSE table[c]]

(* remove_remote_source_handle, of each of these.                           *)
remove_remote_source_handles(table, cs) ==
    [c \in {c \in DOMAIN table : c \notin cs \/ table[c].refcount > 1} |->
        IF c \in cs THEN OneLess(table[c]) ELSE table[c]]

-----------------------------------------------------------------------------
(* Pages.                                                                   *)

PageOf(list, i) == [page |-> i - 1, last_page |-> Len(list) - 1, universes |-> list[i]]

(* size_t, in 30 bits.                                                      *)
SizeMinus(a, b) == (a - b) % 1073741824

NewSource(c) ==
    [cid |-> c, universes |-> <<>>, universes_dirty |-> TRUE,
     last_notified_universe_count |-> 0,
     suppress_universe_limit_exceeded_notification |-> FALSE,
     expiration_timer |-> Expiration, next_universe_index |-> 0, next_page |-> 0]

(* What memcmp may say of the page and the universes it would replace; they *)
(* may reach beyond the list, and then it says anything.                    *)
Differs(source, page) ==
    LET from == source.next_universe_index
        count == Len(page.universes) IN
    IF from + count <= Len(source.universes)
    THEN {SubSeq(source.universes, from + 1, from + count) # page.universes}
    ELSE BOOLEAN

(* mutant: a list that became shorter is not noticed.                       *)
OnlyLonger(source, page, differs) ==
    LET count == Len(page.universes)
        remaining == SizeMinus(Len(source.universes), source.next_universe_index) IN
    count > remaining \/ (count > 0 /\ differs)

page_modifies_universe_list(source, page, differs) ==
    LET count == Len(page.universes)
        remaining == SizeMinus(Len(source.universes), source.next_universe_index) IN
    \/ count > remaining
    \/ page.page = page.last_page /\ count < remaining
    \/ count > 0 /\ differs

(* What may stand in cells of the list that were never written: the page    *)
(* may be put in beyond its end when the detector that counted the pages    *)
(* before had a limit and this one has another.                             *)
Gaps(source) ==
    IF source.next_universe_index <= Len(source.universes)
    THEN {CHOOSE gap \in Garbage : TRUE} ELSE Garbage

(* replace_universe_discovery_universes: how many fit.                      *)
Fitting(source, page, limit) ==
    IF limit # 0 /\ source.next_universe_index + Len(page.universes) > limit
    THEN SizeMinus(limit, source.next_universe_index) ELSE Len(page.universes)

(* The list with the first count of the page in it.                         *)
Replaced(source, page, count, gap) ==
    LET from == source.next_universe_index IN
    [source EXCEPT !.universes =
        [i \in 1 .. from + count |-> IF i > from THEN page.universes[i - from]
                                    ELSE IF i <= Len(source.universes) THEN source.universes[i]
                                    ELSE gap]]

(* When fewer fit, those are put in, if any; when it is told that none more *)
(* can be, nothing.                                                         *)
Modified(source, page, limit, gap) ==
    LET fits == Fitting(source, page, limit)
        count == Len(page.universes)
        dirty == [source EXCEPT !.universes_dirty = TRUE]
        full == [dirty EXCEPT !.suppress_universe_limit_exceeded_notification = TRUE] IN
    CASE fits > count -> dirty
      [] fits = count -> Replaced(dirty, page, count, gap)
      [] fits < count /\ fits > 0 -> Replaced(full, page, fits, gap)
      [] fits < count /\ fits = 0 -> full

IsAscending(universes) == \A i \in 1 .. Len(universes) - 1 : universes[i] < universes[i + 1]

FromTheStart(source) == [source EXCEPT !.next_page = 0, !.next_universe_index = 0]

(* process_universe_discovery_page, after the source was found: the source, *)
(* and whether the application is told its list.                            *)
AfterPage(source, page, limit, differs, gap) ==
    LET at == IF page.page = 0 THEN FromTheStart(source) ELSE source
        changed == IF page_modifies_universe_list(at, page, differs)
                   THEN Modified(at, page, limit, gap) ELSE at
        complete == FromTheStart(changed)
        tells == changed.universes_dirty /\ IsAscending(changed.universes)
        fewer == Len(changed.universes) < changed.last_notified_universe_count IN
    IF page.page # 0 /\ page.page # source.next_page
    THEN [source |-> FromTheStart(source), tells |-> FALSE]
    ELSE IF page.page < page.last_page
    THEN [source |-> [changed EXCEPT !.next_universe_index = @ + Len(page.universes),
                                     !.next_page = @ + 1],
          tells |-> FALSE]
    ELSE [source |->
            [complete EXCEPT
               !.universes_dirty = FALSE,
               !.last_notified_universe_count = IF tells THEN Len(changed.universes) ELSE @,
               !.suppress_universe_limit_exceeded_notification =
                    @ /\ ~(tells /\ fewer)],
          tells |-> tells]

-----------------------------------------------------------------------------

NoDetector == [created |-> FALSE, source_count_max |-> 0, universes_per_source_max |-> 0,
               suppress_source_limit_exceeded_notification |-> FALSE]

NothingTold == [c \in Cids |-> Untold]
NothingHeard == [c \in Cids |-> [list |-> <<>>, pages |-> 0]]

Init ==
    /\ detector = NoDetector
    /\ sources = [h \in {} |-> NewSource(0)] /\ remote = [c \in {} |-> 0]
    /\ tracked = {}
    /\ told = NothingTold /\ heard = NothingHeard /\ recreated = FALSE

(* sacn_source_detector_create.                                             *)
Create ==
    /\ ~detector.created
    /\ \E limits \in Limits :
          detector' = [NoDetector EXCEPT !.created = TRUE, !.source_count_max = limits[1],
                                         !.universes_per_source_max = limits[2]]
    /\ UNCHANGED <<sources, remote, tracked, told, heard, recreated>>

(* sacn_source_detector_destroy: the sources stay where they are.           *)
Destroy ==
    /\ detector.created
    /\ detector' = NoDetector
    /\ told' = NothingTold /\ heard' = NothingHeard /\ recreated' = TRUE
    /\ UNCHANGED <<sources, remote, tracked>>

(* find_or_add_source.                                                      *)
IsFound(c) == IsRemote(c) /\ HandleOf(c) \in DOMAIN sources

IsFull ==
    detector.source_count_max # 0 /\ Cardinality(DOMAIN sources) >= detector.source_count_max

Heard(c, list, i) ==
    IF i = 1 \/ (heard[c].list = list /\ heard[c].pages = i - 1)
    THEN [heard EXCEPT ![c] = [list |-> list, pages |-> i]]
    ELSE [heard EXCEPT ![c] = NothingHeard[c]]

(* handle_sacn_universe_discovery_packet, of a source it has.               *)
PageOfSource(c, list, i) ==
    LET source == [sources[HandleOf(c)] EXCEPT !.expiration_timer = Expiration]
        page == PageOf(list, i)
        at == IF page.page = 0 THEN FromTheStart(source) ELSE source IN
    /\ detector.created /\ IsFound(c)
    /\ \E differs \in Differs(at, page), gap \in Gaps(at) :
          LET result == AfterPage(source, page, detector.universes_per_source_max, differs, gap) IN
          /\ sources' = [sources EXCEPT ![HandleOf(c)] = result.source]
          /\ told' = IF result.tells THEN [told EXCEPT ![c] = result.source.universes] ELSE told
    /\ heard' = Heard(c, list, i)
    /\ UNCHANGED <<detector, remote, tracked, recreated>>

(* The same, of a new one.                                                  *)
PageOfNew(c, list, i) ==
    /\ detector.created /\ ~IsFound(c) /\ ~IsFull
    /\ \E handle \in HandlesFor(c), differs \in Differs(NewSource(c), PageOf(list, i)),
          gap \in Gaps(NewSource(c)) :
          LET result == AfterPage(NewSource(c), PageOf(list, i),
                                  detector.universes_per_source_max, differs, gap) IN
          /\ remote' = WithRemote(c, handle)
          /\ sources' = [h \in DOMAIN sources \cup {handle} |->
                            IF h = handle THEN result.source ELSE sources[h]]
          /\ told' = IF result.tells THEN [told EXCEPT ![c] = result.source.universes] ELSE told
    /\ heard' = Heard(c, list, i)
    /\ UNCHANGED <<detector, tracked, recreated>>

(* The same, of one too many: the application is told, once.                *)
PageOfTooMany(c) ==
    /\ detector.created /\ ~IsFound(c) /\ IsFull
    /\ detector' = [detector EXCEPT !.suppress_source_limit_exceeded_notification = TRUE]
    /\ heard' = [heard EXCEPT ![c] = NothingHeard[c]]
    /\ UNCHANGED <<sources, remote, tracked, told, recreated>>

(* process_source_detector.                                                 *)
Process ==
    LET expired == {h \in DOMAIN sources : sources[h].expiration_timer = 0}
        gone == {sources[h].cid : h \in expired} IN
    /\ detector.created /\ expired # {}
    /\ sources' = Restrict(sources, DOMAIN sources \ expired)
    /\ remote' = remove_remote_source_handles(remote, gone)
    /\ detector' = [detector EXCEPT !.suppress_source_limit_exceeded_notification = FALSE]
    /\ told' = [c \in Cids |-> IF c \in gone THEN Untold ELSE told[c]]
    /\ heard' = [c \in Cids |-> IF c \in gone THEN NothingHeard[c] ELSE heard[c]]
    /\ UNCHANGED <<tracked, recreated>>

Elapse(left) == IF left > 0 THEN left - 1 ELSE 0

Tick ==
    /\ \E h \in DOMAIN sources : sources[h].expiration_timer > 0
    /\ sources' = [h \in DOMAIN sources |->
                     [sources[h] EXCEPT !.expiration_timer = Elapse(@)]]
    /\ UNCHANGED <<detector, remote, tracked, told, heard, recreated>>

(* A receiver starts to track a source, or removes it.                      *)
Tracks(c) ==
    /\ c \notin tracked
    /\ tracked' = tracked \cup {c}
    /\ \E handle \in HandlesFor(c) : remote' = WithRemote(c, handle)
    /\ UNCHANGED <<detector, sources, told, heard, recreated>>

Untracks(c) ==
    /\ c \in tracked
    /\ tracked' = tracked \ {c}
    /\ remote' = remove_remote_source_handles(remote, {c})
    /\ UNCHANGED <<detector, sources, told, heard, recreated>>

Next ==
    \/ Create \/ Destroy \/ Process \/ Tick
    \/ \E c \in Cids :
          \/ \E list \in Lists : \E i \in DOMAIN list :
                PageOfSource(c, list, i) \/ PageOfNew(c, list, i)
          \/ PageOfTooMany(c)
          \/ Tracks(c) \/ Untracks(c)

Spec == Init /\ [][Next]_vars

-----------------------------------------------------------------------------
(* Properties.                                                              *)

Universes == UNION {UNION {Range(list[i]) : i \in DOMAIN list} : list \in Lists}
Numbers == Universes \cup Garbage

Source ==
    [cid : Cids, universes : Seq(Numbers), universes_dirty : BOOLEAN,
     last_notified_universe_count : Nat,
     suppress_universe_limit_exceeded_notification : BOOLEAN,
     expiration_timer : 0 .. Expiration, next_universe_index : Nat, next_page : Nat]

(* The type invariant.                                                      *)
TypeOK ==
    /\ DOMAIN sources \subseteq HandleNumbers /\ sources \in [DOMAIN sources -> Source]
    /\ DOMAIN remote \subseteq Cids
    /\ remote \in [DOMAIN remote -> [handle : HandleNumbers, refcount : Nat \ {0}]]
    /\ tracked \subseteq Cids /\ recreated \in BOOLEAN
    /\ \A c \in Cids : told[c] = Untold \/ told[c] \in Seq(Numbers)

(* A component has one handle as long as anyone knows it, and it is counted *)
(* for each that does: the detector, which outlives its destruction, and    *)
(* the receivers take and give back the same handle.                        *)
HandlesExact ==
    /\ \A h \in DOMAIN sources :
          LET c == sources[h].cid IN IsRemote(c) /\ HandleOf(c) = h
    /\ \A c \in Cids :
          LET holders == (IF IsFound(c) THEN 1 ELSE 0) + (IF c \in tracked THEN 1 ELSE 0) IN
          IF IsRemote(c) THEN remote[c].refcount = holders ELSE holders = 0

(* The types, and the handles the detector shares with the receivers.       *)
Consistent == TypeOK /\ HandlesExact

(* When all pages of a source's list have come in order, the application    *)
(* has that list, up to the limit it set, if it ascends so far: whatever    *)
(* came before, of other lists, in part, twice or out of order.             *)
UpTo(limit, list) ==
    LET all == FlattenSeq(list) IN
    IF limit = 0 \/ Len(all) <= limit THEN all ELSE SubSeq(all, 1, limit)

CompleteIsTold ==
    ~recreated => \A c \in Cids :
        LET whole == UpTo(detector.universes_per_source_max, heard[c].list) IN
        heard[c].pages > 0 /\ heard[c].pages = Len(heard[c].list) /\ IsAscending(whole) =>
            told[c] = whole

(* Without a limit, the place the next page is compared at is inside the    *)
(* list that page_modifies_universe_list reads from there.                  *)
IndexInList ==
    detector.universes_per_source_max = 0 /\ detector.created /\ ~recreated =>
        \A h \in DOMAIN sources :
            sources[h].next_universe_index <= Len(sources[h].universes)

(* The lists are put together as they were sent.                            *)
ListsExact == CompleteIsTold /\ IndexInList

=============================================================================
