----------------------------- MODULE DmxMerger -----------------------------
(***************************************************************************)
(* The DMX merger (src/sACN/src/sacn/dmx_merger.c): it merges the levels   *)
(* and priorities of several sources slot by slot, the highest priority    *)
(* first and the highest level among those (HTP), and keeps the result up  *)
(* to date call by call, without merging from scratch.                     *)
(*                                                                         *)
(* A merger is a value here and a call an operator on it, so that other    *)
(* modules can have several.  The specification at the end is one merger   *)
(* whose API is called in any order; every call holds the library's        *)
(* sacn_dmx_merger_mutex from end to end and is one action.                *)
(***************************************************************************)
EXTENDS Integers, Sequences, FiniteSets, FiniteSetsExt

CONSTANTS
    Handles,      \* the source handles, in the order the code iterates over them
    MaxSlots,     \* SACN_DMX_MERGER_MAX_SLOTS, 512 in the code
    MaxSources,   \* source_count_max
    LevelBuffers, \* the level buffers callers give
    PapBuffers,   \* the per-address priority buffers callers give
    Priorities    \* the universe priorities callers give

ASSUME HandlesAssumption == Handles \subseteq Nat /\ IsFiniteSet(Handles)
ASSUME SlotsAssumption == MaxSlots \in Nat \ {0} /\ MaxSources \in Nat
ASSUME ValuesAssumption ==
    /\ Priorities \subseteq Nat
    /\ \A buffer \in LevelBuffers \cup PapBuffers :
          buffer \in Seq(Nat) /\ Len(buffer) \in 1 .. MaxSlots

-----------------------------------------------------------------------------
(* Data.                                                                    *)

Slots == 1 .. MaxSlots

NoOwner == -1   \* kSacnDmxMergerSourceInvalid

(* What the merger says of one slot: an element of each of its buffers      *)
(* levels, per_address_priorities and owners.                               *)
Unowned == [level |-> 0, pap |-> 0, owner |-> NoOwner]

NewSource ==
    [levels |-> [slot \in Slots |-> 0], valid_level_count |-> 0,
     universe_priority |-> 0, universe_priority_uninitialized |-> TRUE,
     using_universe_priority |-> TRUE,
     address_priority |-> [slot \in Slots |-> 0], pap_count |-> 0]

NewMerger ==
    [sources |-> [h \in {} |-> NewSource],
     out |-> [slot \in Slots |-> Unowned],
     per_address_priorities_active |-> FALSE, universe_priority |-> 0]

(* CALC_SRC_PAP: beyond its levels a source has no priority.                *)
SourcePap(source, slot) ==
    IF slot <= source.valid_level_count THEN source.address_priority[slot] ELSE 0

Single(merger) == Cardinality(DOMAIN merger.sources) = 1

(* A universe priority as a per-address priority.                           *)
AsPap(priority) == IF priority = 0 THEN 1 ELSE priority

-----------------------------------------------------------------------------
(* Merging.                                                                 *)

(* Candidate a takes a slot over from b.                                    *)
Beats(a, b) ==
    a.pap > b.pap \/ (a.pap > 0 /\ a.pap = b.pap /\ a.level > b.level)

(* One pass over the candidates by ascending handle: the first of the best  *)
(* ones takes the slot, if it beats the present owner.                      *)
BestOf(candidates, present) ==
    IF \A c \in candidates : ~Beats(c, present) THEN present
    ELSE CHOOSE c \in candidates : \A d \in candidates :
            ~Beats(d, c) /\ (Beats(c, d) \/ c.owner <= d.owner)

Candidate(merger, h, slot) ==
    [level |-> merger.sources[h].levels[slot],
     pap |-> SourcePap(merger.sources[h], slot), owner |-> h]

Others(merger, h, slot) ==
    {Candidate(merger, other, slot) : other \in DOMAIN merger.sources \ {h}}

(* mutant: a slot that its owner lowers is not offered to the others.       *)
KeepLowered(merger, h, slot, lowered) == lowered

OfferLowered(merger, h, slot, lowered) == BestOf(Others(merger, h, slot), lowered)

(* merge_new_priorities, for one slot.                                      *)
Remerged(merger, h, slot) ==
    LET present == merger.out[slot]
        mine == Candidate(merger, h, slot) IN
    IF mine.pap > present.pap \/ (h # present.owner /\ Beats(mine, present)) THEN mine
    ELSE IF h = present.owner /\ mine.pap < present.pap
    THEN OfferLowered(merger, h, slot,
            IF mine.pap = 0 THEN Unowned ELSE [present EXCEPT !.pap = mine.pap])
    ELSE present

MergeNewPriorities(merger, h, range) ==
    [merger EXCEPT !.out =
        [slot \in Slots |-> IF slot \in range THEN Remerged(merger, h, slot)
                            ELSE merger.out[slot]]]

(* update_levels_single_source, for one slot.                               *)
LevelSingle(merger, h, slot, old_count) ==
    LET source == merger.sources[h]
        pap == source.address_priority[slot]
        present == merger.out[slot] IN
    CASE slot > source.valid_level_count ->
            IF slot <= old_count THEN Unowned ELSE present
      [] slot <= source.valid_level_count /\ pap = 0 -> present
      [] slot <= source.valid_level_count /\ pap > 0 ->
            [level |-> source.levels[slot],
             pap |-> IF slot > old_count THEN pap ELSE present.pap,
             owner |-> IF slot > old_count THEN h ELSE present.owner]

(* update_levels_multi_source, for a slot that had a level and keeps one.   *)
LevelMulti(merger, h, slot) ==
    LET source == merger.sources[h]
        present == merger.out[slot]
        mine == [present EXCEPT !.level = source.levels[slot], !.owner = h]
        peers == {c \in Others(merger, h, slot) : c.pap = present.pap} IN
    IF source.address_priority[slot] \notin {present.pap} \ {0} THEN present
    ELSE IF mine.level > present.level THEN mine
    ELSE IF h = present.owner /\ mine.level < present.level THEN BestOf(peers, mine)
    ELSE present

(* update_levels.                                                           *)
UpdateLevels(merger, h, levels) ==
    LET source == merger.sources[h]
        old_count == source.valid_level_count
        padded == [slot \in Slots |->
                     IF slot <= Len(levels) THEN levels[slot] ELSE 0]
        told == [merger EXCEPT !.sources[h].levels = padded,
                               !.sources[h].valid_level_count = Len(levels)]
        kept == Min({old_count, Len(levels)}) IN
    IF padded = source.levels /\ Len(levels) = old_count THEN merger
    ELSE IF Single(merger)
    THEN [told EXCEPT !.out =
            [slot \in Slots |-> LevelSingle(told, h, slot, old_count)]]
    ELSE MergeNewPriorities(
            [told EXCEPT !.out =
               [slot \in Slots |-> IF slot <= kept THEN LevelMulti(told, h, slot)
                                   ELSE merger.out[slot]]],
            h, kept + 1 .. Max({old_count, Len(levels)}))

(* update_pap_single_source and update_universe_priority_single_source.     *)
TakeSlots(merger, h) ==
    [merger EXCEPT !.out = [slot \in Slots |->
        IF slot > merger.sources[h].valid_level_count THEN merger.out[slot]
        ELSE IF merger.sources[h].address_priority[slot] = 0 THEN Unowned
        ELSE Candidate(merger, h, slot)]]

(* Give the source the priorities paps, and merge the slots it has.         *)
WithPaps(merger, h, paps) ==
    LET told == [merger EXCEPT !.sources[h].address_priority = paps] IN
    IF Single(merger) THEN TakeSlots(told, h)
    ELSE MergeNewPriorities(told, h, 1 .. merger.sources[h].valid_level_count)

(* update_pap.                                                              *)
UpdatePap(merger, h, paps) ==
    LET source == merger.sources[h]
        told == [merger EXCEPT !.sources[h].using_universe_priority = FALSE,
                               !.sources[h].pap_count = Len(paps),
                               !.per_address_priorities_active = TRUE] IN
    IF /\ Len(paps) = source.pap_count
       /\ \A slot \in DOMAIN paps : paps[slot] = source.address_priority[slot]
    THEN told
    ELSE WithPaps(told, h,
            [slot \in Slots |-> IF slot <= Len(paps) THEN paps[slot]
                                ELSE IF slot <= source.pap_count THEN 0
                                ELSE source.address_priority[slot]])

(* recalculate_universe_priority.                                           *)
HighestPriority(merger) ==
    Max({merger.sources[h].universe_priority : h \in DOMAIN merger.sources} \cup {0})

(* mutant: the output priority only rises.                                  *)
OnlyRises(merger, before, old, priority) == Max({before.universe_priority, priority})

NewUniversePriority(merger, before, old, priority) ==
    IF Single(merger) \/ priority >= before.universe_priority THEN priority
    ELSE IF old >= before.universe_priority THEN HighestPriority(merger)
    ELSE before.universe_priority

(* update_universe_priority.                                                *)
UpdateUniversePriority(merger, h, priority) ==
    LET source == merger.sources[h]
        told == [merger EXCEPT
                   !.sources[h].universe_priority_uninitialized = FALSE,
                   !.sources[h].universe_priority = priority]
        merged ==
            IF ~source.using_universe_priority THEN told
            ELSE WithPaps([told EXCEPT !.sources[h].pap_count = MaxSlots], h,
                          [slot \in Slots |-> AsPap(priority)]) IN
    IF priority = source.universe_priority /\ ~source.universe_priority_uninitialized
    THEN merger
    ELSE [merged EXCEPT !.universe_priority =
            NewUniversePriority(merged, merger, source.universe_priority, priority)]

-----------------------------------------------------------------------------
(* The sources.                                                             *)

(* add_source: refused when there are as many as allowed, or when the       *)
(* handle is taken.                                                         *)
CanAdd(merger, h) ==
    /\ Cardinality(DOMAIN merger.sources) < MaxSources
    /\ h \notin DOMAIN merger.sources

AddSource(merger, h) ==
    [merger EXCEPT !.sources = [x \in DOMAIN @ \cup {h} |->
                                  IF x = h THEN NewSource ELSE @[x]]]

(* recalculate_pap_active, when source h has no more priorities.            *)
PapStillActive(merger, h) ==
    merger.per_address_priorities_active
      /\ \/ merger.sources[h].using_universe_priority
         \/ \E other \in DOMAIN merger.sources \ {h} :
               ~merger.sources[other].using_universe_priority

(* remove_sacn_dmx_merger_source: without priorities the source loses its   *)
(* slots to the others; the output flags follow, then it goes.              *)
RemoveSource(merger, h) ==
    LET source == merger.sources[h]
        merged == MergeNewPriorities(
            [merger EXCEPT !.sources[h].address_priority = [slot \in Slots |-> 0]],
            h, Slots)
        rest == [merged EXCEPT !.sources = [x \in DOMAIN @ \ {h} |-> @[x]]] IN
    [rest EXCEPT
       !.per_address_priorities_active = PapStillActive(merger, h),
       !.universe_priority =
            IF source.universe_priority >= @ THEN HighestPriority(rest) ELSE @]

(* remove_sacn_dmx_merger_pap.                                              *)
RemovePap(merger, h) ==
    LET source == merger.sources[h] IN
    [MergeNewPriorities(
        [merger EXCEPT !.sources[h].using_universe_priority = TRUE,
                       !.sources[h].address_priority =
                            [slot \in Slots |-> AsPap(source.universe_priority)]],
        h, 1 .. source.valid_level_count)
     EXCEPT !.per_address_priorities_active = PapStillActive(merger, h)]

-----------------------------------------------------------------------------
(* One merger, called in any order.                                         *)

VARIABLE merger

Init == merger = NewMerger

(* The merger is destroyed, with the sources it has, and another created.   *)
Recreated == merger' = NewMerger

AddsSource(h) == CanAdd(merger, h) /\ merger' = AddSource(merger, h)

Known(h) == h \in DOMAIN merger.sources   \* the lookup every other call makes

RemovesSource(h) == Known(h) /\ merger' = RemoveSource(merger, h)

UpdatesLevels(h) ==
    Known(h) /\ \E levels \in LevelBuffers : merger' = UpdateLevels(merger, h, levels)

UpdatesPap(h) ==
    Known(h) /\ \E paps \in PapBuffers : merger' = UpdatePap(merger, h, paps)

UpdatesUniversePriority(h) ==
    /\ Known(h)
    /\ \E priority \in Priorities :
          merger' = UpdateUniversePriority(merger, h, priority)

RemovesPap(h) == Known(h) /\ merger' = RemovePap(merger, h)

Next ==
    \/ Recreated
    \/ \E h \in Handles :
          \/ AddsSource(h) \/ RemovesSource(h)
          \/ UpdatesLevels(h) \/ UpdatesPap(h) \/ UpdatesUniversePriority(h)
          \/ RemovesPap(h)

Spec == Init /\ [][Next]_merger

-----------------------------------------------------------------------------

Source == [levels : [Slots -> Nat], valid_level_count : 0 .. MaxSlots,
           universe_priority : Nat, universe_priority_uninitialized : BOOLEAN,
           using_universe_priority : BOOLEAN,
           address_priority : [Slots -> Nat], pap_count : 0 .. MaxSlots]

IsMerger(m) ==
    /\ m = [sources |-> m.sources, out |-> m.out, universe_priority |-> m.universe_priority,
            per_address_priorities_active |-> m.per_address_priorities_active]
    /\ DOMAIN m.sources \subseteq Handles
    /\ m.sources \in [DOMAIN m.sources -> Source]
    /\ m.out \in [Slots -> [level : Nat, pap : Nat, owner : Handles \cup {NoOwner}]]
    /\ m.per_address_priorities_active \in BOOLEAN
    /\ m.universe_priority \in Nat

(* The type invariant.                                                      *)
TypeOK == IsMerger(merger)

(* What merging from scratch gives: a slot belongs to a source with the     *)
(* highest priority there is for it, and among those to one with the        *)
(* highest level; without a priority it belongs to nobody, at level 0.      *)
SlotMerged(m, slot) ==
    LET all == {Candidate(m, h, slot) : h \in DOMAIN m.sources}
        sourced == {c \in all : c.pap > 0} IN
    IF sourced = {} THEN m.out[slot] = Unowned
    ELSE m.out[slot] \in {c \in sourced : \A d \in sourced : ~Beats(d, c)}

(* After any sequence of calls, kept up to date by different code for one   *)
(* source and for several, the buffers are those of a merge from scratch.   *)
Merged(m) == \A slot \in Slots : SlotMerged(m, slot)

MergedFromScratch == Merged(merger)

AnyPap(m) == \E h \in DOMAIN m.sources : ~m.sources[h].using_universe_priority

(* The priority to transmit the result with is the highest of all sources,  *)
(* and per-address priorities are transmitted as long as a source has them: *)
(* both are kept by hand where sources come, change and go.                 *)
OutputPriorityExact == merger.universe_priority = HighestPriority(merger)
OutputPapExact == merger.per_address_priorities_active = AnyPap(merger)

(* What is kept by hand beside the buffers: the tables of the sources, the  *)
(* priority and the flag of the result.                                     *)
Consistent == TypeOK /\ OutputPriorityExact /\ OutputPapExact
=============================================================================
