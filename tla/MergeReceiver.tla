--------------------------- MODULE MergeReceiver ---------------------------
(***************************************************************************)
(* A merge receiver (src/sACN/src/sacn/merge_receiver.c and                *)
(* mem/merge_receiver): the library's own user of a receiver.  It gives    *)
(* what the receiver tells it to two DMX mergers, one for the sources of   *)
(* the current sampling period and the main one, whose output it shows to  *)
(* the application; when the period ends it moves the sources over.        *)
(*                                                                         *)
(* ReceiverApi is what it gets, DmxMerger what it calls.  A handler holds  *)
(* the receiver lock for all it does to the merge receiver, and shows the  *)
(* application a copy made under it: each is one action.  A universe       *)
(* change holds that lock only: it comes between the receiver's collecting *)
(* a batch of notifications and their delivery, which is then late.        *)
(***************************************************************************)
EXTENDS ReceiverApi, Integers, Sequences, FiniteSetsExt, Functions

CONSTANTS
    Movers,                   \* sources that may be heard on a second interface
    LevelValues, PapValues,   \* the values of a packet's slots
    UniversePriorities,       \* the priorities packets have
    MaxSlots                  \* SACN_MERGE_RECEIVER_MAX_SLOTS

(* What the mergers ask of their callers; handles are compared.             *)
ASSUME MergeReceiverAssumption ==
    /\ Handles \subseteq Nat /\ IsFiniteSet(Handles) /\ Movers \subseteq Handles
    /\ MaxSlots \in Nat \ {0} /\ UniversePriorities \subseteq Nat
    /\ \A buffer \in LevelValues \cup PapValues :
          buffer \in Seq(Nat) /\ Len(buffer) \in 1 .. MaxSlots

VARIABLES
    status,    \* "none", "created", or "failed": a call failed, destroy it
    merge,     \* SacnMergeReceiver, with its two mergers
    shown,     \* what the application was shown last of the universe
    latest,    \* the last levels each source sent, to state properties with
    astray,    \* the sources whose last levels or priorities no merger took
    late       \* "pending": a batch is late; "delivered": it had data

None == [none |-> TRUE]

vars == <<told, status, merge, shown, latest, astray, late>>

Merger == INSTANCE DmxMerger WITH
    LevelBuffers <- LevelValues, PapBuffers <- PapValues,
    Priorities <- UniversePriorities, merger <- merge.main

-----------------------------------------------------------------------------
(* The sources of a merge receiver.                                         *)

Sources == DOMAIN merge.sources

(* merger_handle or sampling_merger_handle.                                 *)
MergerOf(sampling) == IF sampling THEN "samp" ELSE "main"

NewMergeReceiver(use_pap) ==
    [use_pap |-> use_pap, sampling |-> TRUE, sources |-> [h \in {} |-> None],
     main |-> Merger!NewMerger, samp |-> Merger!NewMerger]

NewInfo(sampling) ==
    [sampling |-> sampling, per_address_priorities_active |-> FALSE,
     levels_active |-> FALSE, universe_priority |-> 0]

(* update_merge_receiver_source_info.                                       *)
Updated(info, kind, priority) ==
    [info EXCEPT !.per_address_priorities_active = @ \/ kind = "pap",
                 !.levels_active = @ \/ kind = "dmx",
                 !.universe_priority = priority]

(* The calls of the mergers; the results of those that fail are ignored.    *)
In(merger, h, result) == IF h \in DOMAIN merger.sources THEN result ELSE merger

Added(merger, h) ==
    IF Merger!CanAdd(merger, h) THEN Merger!AddSource(merger, h) ELSE merger

Removed(merger, h) == In(merger, h, Merger!RemoveSource(merger, h))

WithLevels(merger, h, values, priority) ==
    In(merger, h,
       Merger!UpdateUniversePriority(Merger!UpdateLevels(merger, h, values), h, priority))

WithPaps(merger, h, values) == In(merger, h, Merger!UpdatePap(merger, h, values))

WithoutPaps(merger, h) == In(merger, h, Merger!RemovePap(merger, h))

(* add_active_sources, and the copy of the main merger's output.            *)
Shown(r) ==
    [out |-> r.main.out,
     active_sources |-> {h \in DOMAIN r.sources :
                            ~r.sources[h].sampling /\ r.sources[h].levels_active}]

-----------------------------------------------------------------------------
(* The handlers of the receiver's callbacks, on the merge receiver.         *)

(* add_sacn_merge_receiver_source, and to the merger.                       *)
WithSource(r, h, sampling) ==
    IF h \in DOMAIN r.sources THEN r
    ELSE [r EXCEPT ![MergerOf(sampling)] = Added(@, h),
                   !.sources = [x \in DOMAIN @ \cup {h} |->
                                  IF x = h THEN NewInfo(sampling) ELSE @[x]]]

Merges(r, kind, values) ==
    values # <<>> /\ (kind = "dmx" \/ (kind = "pap" /\ r.use_pap))

(* mutant: only new levels are shown.                                       *)
ShowsLevels(r, kind, values, sampling) == Merges(r, kind, values) /\ ~sampling /\ kind = "dmx"

Shows(r, kind, values, sampling) == Merges(r, kind, values) /\ ~sampling

merge_receiver_universe_data(r, h, sampling, kind, values, priority) ==
    LET informed == [WithSource(r, h, sampling) EXCEPT
                       !.sources[h] = Updated(@, kind, priority)] IN
    IF ~Merges(r, kind, values) THEN informed
    ELSE [informed EXCEPT ![MergerOf(sampling)] =
            IF kind = "dmx" THEN WithLevels(@, h, values, priority)
            ELSE WithPaps(@, h, values)]

WithoutSource(r, h) ==
    [r EXCEPT ![MergerOf(r.sources[h].sampling)] = Removed(@, h),
              !.sources = [x \in DOMAIN @ \ {h} |-> @[x]]]

(* A source it does not know is skipped: SACN_ASSERT_VERIFY.                *)
merge_receiver_sources_lost(r, lost) ==
    FoldSet(LAMBDA h, rest : WithoutSource(rest, h), r, lost \cap DOMAIN r.sources)

(* mutant: its universe priority is left behind.                            *)
PriorityLeft(r, h) ==
    LET source == r.samp.sources[h]
        upto(values) == SubSeq(values, 1, source.valid_level_count)
        there == WithLevels(Added(r.main, h), h, upto(source.levels), 0) IN
    [r EXCEPT !.sources[h].sampling = FALSE,
              !.main = IF source.using_universe_priority THEN there
                       ELSE WithPaps(there, h, upto(source.address_priority)),
              !.samp = Merger!RemoveSource(@, h)]

(* One source moves from the sampling merger to the main one.               *)
Transferred(r, h) ==
    LET source == r.samp.sources[h]
        upto(values) == SubSeq(values, 1, source.valid_level_count)
        there == WithLevels(Added(r.main, h), h, upto(source.levels),
                            source.universe_priority) IN
    [r EXCEPT !.sources[h].sampling = FALSE,
              !.main = IF source.using_universe_priority THEN there
                       ELSE WithPaps(there, h, upto(source.address_priority)),
              !.samp = Merger!RemoveSource(@, h)]

merge_receiver_sampling_ended(r) ==
    LET moving == {h \in DOMAIN r.sources : r.sources[h].sampling}
        ended == FoldSet(LAMBDA h, rest : Transferred(rest, h), r,
                         moving \cap DOMAIN r.samp.sources) IN
    [ended EXCEPT !.sampling = FALSE,
                  !.sources = [h \in DOMAIN @ |-> [@[h] EXCEPT !.sampling = FALSE]]]

(* mutant: the priorities are taken from the main merger only.              *)
PapLostInMain(r, h) ==
    [r EXCEPT !.sources[h].per_address_priorities_active = FALSE,
              !.main = WithoutPaps(@, h)]

merge_receiver_pap_lost(r, h) ==
    [r EXCEPT !.sources[h].per_address_priorities_active = FALSE,
              ![MergerOf(r.sources[h].sampling)] = WithoutPaps(@, h)]

(* sacn_merge_receiver_change_universe takes each source, in order, from    *)
(* the merger that has it, and stops at one that neither has.               *)
UniverseChanged(r) ==
    LET merged == DOMAIN r.main.sources \cup DOMAIN r.samp.sources
        lost == DOMAIN r.sources \ merged
        taken == {h \in DOMAIN r.sources : \A x \in lost : h < x}
        rest == [r EXCEPT
            !.main = FoldSet(LAMBDA h, m : Removed(m, h), @, taken),
            !.samp = FoldSet(LAMBDA h, m : Removed(m, h), @, taken \ DOMAIN r.main.sources)] IN
    [complete |-> lost = {},
     merge |-> IF lost = {} THEN [rest EXCEPT !.sources = [h \in {} |-> None]] ELSE rest]

-----------------------------------------------------------------------------

NothingLatest == [h \in Handles |-> <<>>]

NoneAstray == [dmx |-> {}, pap |-> {}]

Init ==
    /\ ApiInit
    /\ status = "none" /\ merge = NewMergeReceiver(TRUE)
    /\ shown = None /\ latest = NothingLatest /\ astray = NoneAstray /\ late = "no"

Create ==
    /\ status = "none"
    /\ status' = "created"
    /\ \E use_pap \in BOOLEAN : merge' = NewMergeReceiver(use_pap)
    /\ UNCHANGED <<told, shown, latest, astray, late>>

Destroy ==
    /\ status # "none"
    /\ status' = "none" /\ merge' = NewMergeReceiver(TRUE)
    /\ ApiForget
    /\ shown' = None /\ latest' = NothingLatest /\ astray' = NoneAstray /\ late' = "no"

(* The receiver changes first; when it cannot, nothing else is done.        *)
ChangeUniverse ==
    LET changed == UniverseChanged(merge) IN
    /\ status = "created"
    /\ \/ /\ merge' = changed.merge
          /\ status' = IF changed.complete THEN status ELSE "failed"
       \/ merge' = merge /\ status' = "failed"
    /\ ApiForget
    /\ shown' = None /\ latest' = NothingLatest /\ astray' = NoneAstray
    /\ late' \in {"pending", "no"}

(* The receiver calls it, in order: what is late first.                     *)
Called == status = "created" /\ late # "pending"

Packet(kind, h, sampling, values, priority) ==
    LET r == merge_receiver_universe_data(merge, h, sampling, kind, values, priority) IN
    /\ merge' = r
    /\ shown' = IF Shows(merge, kind, values, sampling) THEN Shown(r) ELSE shown

(* The merger is the packet's and not the source's: it does not have a      *)
(* source that moved out of what is sampled, or into it.                    *)
GoesAstray(kind, h, sampling, values) ==
    astray' = IF ~Merges(merge, kind, values) THEN astray
              ELSE [astray EXCEPT ![kind] = IF merge'.sources[h].sampling = sampling
                                            THEN @ \ {h} ELSE @ \cup {h}]

LevelData(h) == \E sampling \in BOOLEAN, values \in LevelValues \cup {<<>>},
                priority \in UniversePriorities :
    /\ Called
    /\ ApiLevels(h, sampling) \/ (h \in Movers /\ ApiLevelsMove(h, sampling))
    /\ Packet("dmx", h, sampling, values, priority)
    /\ GoesAstray("dmx", h, sampling, values)
    /\ latest' = IF values = <<>> THEN latest ELSE [latest EXCEPT ![h] = values]
    /\ UNCHANGED <<status, late>>

PriorityData(h) == \E sampling \in BOOLEAN, values \in PapValues,
                    priority \in UniversePriorities :
    /\ Called
    /\ ApiPriorities(h, sampling) \/ (h \in Movers /\ ApiPrioritiesMove(h, sampling))
    /\ Packet("pap", h, sampling, values, priority)
    /\ GoesAstray("pap", h, sampling, values)
    /\ UNCHANGED <<status, latest, late>>

(* Data of another start code, of a source it knows already.                *)
OtherData(h) == \E priority \in UniversePriorities :
    /\ Called /\ h \in told.known
    /\ Packet("other", h, h \in told.sampled, <<0>>, priority)
    /\ UNCHANGED <<told, status, latest, astray, late>>

SourcesLost == \E lost \in SUBSET Handles :
    LET known == lost \cap Sources IN
    /\ Called /\ ApiSourcesLost(lost)
    /\ merge' = merge_receiver_sources_lost(merge, lost)
    /\ shown' = IF \E h \in known : ~merge.sources[h].sampling THEN Shown(merge') ELSE shown
    /\ latest' = [h \in Handles |-> IF h \in lost THEN NothingLatest[h] ELSE latest[h]]
    /\ astray' = [dmx |-> astray.dmx \ lost, pap |-> astray.pap \ lost]
    /\ UNCHANGED <<status, late>>

SourcePapLost(h) ==
    /\ Called /\ ApiPapLost(h)
    /\ IF merge.use_pap /\ h \in Sources
       THEN /\ merge' = merge_receiver_pap_lost(merge, h)
            /\ shown' = IF merge.sources[h].sampling THEN shown ELSE Shown(merge')
       ELSE UNCHANGED <<merge, shown>>
    /\ astray' = [astray EXCEPT !.pap = @ \ {h}]
    /\ UNCHANGED <<status, latest, late>>

SamplingStarted ==
    /\ Called /\ ApiSamplingStarted
    /\ merge' = [merge EXCEPT !.sampling = TRUE]
    /\ UNCHANGED <<status, shown, latest, astray, late>>

SamplingEnded ==
    /\ Called /\ ApiSamplingEnded
    /\ merge' = merge_receiver_sampling_ended(merge)
    /\ shown' = IF Sources = {} THEN shown ELSE Shown(merge')
    /\ UNCHANGED <<status, latest, astray, late>>

(* Late: about the universe before.  A loss concerns nobody it knows.       *)
LateData(h) == \E sampling \in BOOLEAN, kind \in {"dmx", "pap"},
                  priority \in UniversePriorities :
    /\ status = "created" /\ late = "pending"
    /\ \E values \in IF kind = "dmx" THEN LevelValues ELSE PapValues :
          Packet(kind, h, sampling, values, priority)
    /\ late' = "delivered"
    /\ UNCHANGED <<told, status, latest, astray>>

LateNotice ==
    /\ status = "created" /\ late = "pending"
    /\ merge' \in {merge, [merge EXCEPT !.sampling = TRUE], [merge EXCEPT !.sampling = FALSE]}
    /\ late' = "no"
    /\ UNCHANGED <<told, status, shown, latest, astray>>

Next ==
    \/ Create \/ Destroy \/ ChangeUniverse
    \/ \E h \in Handles :
          LevelData(h) \/ PriorityData(h) \/ OtherData(h) \/ SourcePapLost(h) \/ LateData(h)
    \/ SourcesLost \/ SamplingStarted \/ SamplingEnded \/ LateNotice

Spec == Init /\ [][Next]_vars

-----------------------------------------------------------------------------
(* Properties.                                                              *)

Source == [sampling : BOOLEAN, per_address_priorities_active : BOOLEAN,
           levels_active : BOOLEAN, universe_priority : Nat]

(* The type invariant; the mergers never exceed the limit the application   *)
(* set.                                                                     *)
TypeOK ==
    /\ status \in {"none", "created", "failed"} /\ late \in {"no", "pending", "delivered"}
    /\ merge.use_pap \in BOOLEAN /\ merge.sampling \in BOOLEAN
    /\ Sources \subseteq Handles /\ merge.sources \in [Sources -> Source]
    /\ \A merger \in {merge.main, merge.samp} :
          Merger!IsMerger(merger) /\ Cardinality(DOMAIN merger.sources) <= MaxSources
    /\ told.known \subseteq Handles /\ told.pap \subseteq told.known
    /\ told.sampled \subseteq told.known
    /\ astray.dmx \subseteq Handles /\ astray.pap \subseteq Handles

(* Unless late data of another universe came in.                            *)
Undisturbed == status = "created" /\ late # "delivered"

(* Those whose own flag says that they are part of a sampling period.       *)
SamplingSources == {h \in Sources : merge.sources[h].sampling}

(* Every source the receiver told of is in exactly one merger, the one its  *)
(* own flag names, and nothing else is in either: the handlers choose the   *)
(* merger by the packet's flag, by the flag of the source, or by which      *)
(* merger has it.  Only of a source that moves is its own flag not that of  *)
(* its data, and only such data goes astray.                                *)
MergersMatchSources ==
    Undisturbed =>
        /\ Sources = told.known
        /\ DOMAIN merge.samp.sources = SamplingSources
        /\ DOMAIN merge.main.sources = Sources \ SamplingSources
        /\ SamplingSources \ Movers = told.sampled \ Movers
        /\ astray.dmx \cup astray.pap \subseteq Movers

MergerSource(h) ==
    IF h \in SamplingSources THEN merge.samp.sources[h] ELSE merge.main.sources[h]

(* What the application is told of a source when it asks.                   *)
sacn_merge_receiver_get_source(h) == merge.sources[h]

(* The three records of whether a source has priorities of its own agree:   *)
(* what the receiver told, what the application gets of a source, and,      *)
(* unless its last ones went astray, what the merger uses.                  *)
PapAgrees ==
    Undisturbed /\ merge.use_pap => \A h \in told.known :
        /\ sacn_merge_receiver_get_source(h).per_address_priorities_active <=> h \in told.pap
        /\ h \notin astray.pap => (MergerSource(h).using_universe_priority <=> h \notin told.pap)

(* The receiver's sources, the table of the merge receiver's own and the two*)
(* mergers agree.                                                           *)
Consistent == TypeOK /\ MergersMatchSources /\ PapAgrees

HasLatest(h) ==
    LET levels == latest[h]
        source == MergerSource(h) IN
    levels # <<>> =>
        /\ source.valid_level_count = Len(levels)
        /\ SubSeq(source.levels, 1, Len(levels)) = levels

(* The mergers have the latest levels of every source, whatever period it   *)
(* was in when it sent them, unless they went astray.                       *)
MergedIsLatest ==
    Undisturbed => \A h \in told.known \ astray.dmx : HasLatest(h)

(* What the application was shown last of this universe is what the sources *)
(* outside a sampling period merge to: no change of it goes unshown.        *)
ShownIsCurrent == shown # None => shown.out = merge.main.out

(* From the sources to the mergers and from them to the application, nothing*)
(* newer is held back.                                                      *)
LatestShown == MergedIsLatest /\ ShownIsCurrent

(* A source counts in the main merger as it did in the sampling one, when   *)
(* the period ends.                                                         *)
SameIn(source, copy) ==
    /\ copy.valid_level_count = source.valid_level_count
    /\ copy.levels = source.levels
    /\ copy.universe_priority = source.universe_priority
    /\ \A slot \in 1 .. MaxSlots : Merger!SourcePap(copy, slot) = Merger!SourcePap(source, slot)

TransferExact ==
    [][SamplingEnded /\ Undisturbed => \A h \in SamplingSources :
          SameIn(merge.samp.sources[h], merge.main.sources'[h])]_vars
=============================================================================
