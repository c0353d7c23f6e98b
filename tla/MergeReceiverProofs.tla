------------------------ MODULE MergeReceiverProofs ------------------------
(***************************************************************************)
(* What is proved of the merge receiver for every number of sources, slots *)
(* and values: that the receiver's sources, the table of them and the two  *)
(* mergers agree, that the mergers have the latest levels and the          *)
(* application is shown what they make of them, and that the end of a      *)
(* sampling period moves every source as it is.                            *)
(*                                                                         *)
(* First comes what each call of a merger makes of it, from the lemmas of  *)
(* DmxMergerProofs, then what each handler makes of a merge receiver, one  *)
(* round at a time where it loops over sources, then how that fits what    *)
(* the receiver told, and last the invariant, one action at a time.        *)
(***************************************************************************)
EXTENDS MergeReceiver, FiniteSetTheorems, WellFoundedInduction, TLAPS

(* The mergers of the model are Merger's; the lemmas are of Calls, another  *)
(* instance of the same definitions.                                        *)
Calls == INSTANCE DmxMergerProofs WITH
    LevelBuffers <- LevelValues, PapBuffers <- PapValues,
    Priorities <- UniversePriorities, merger <- merge.main

(* What the standard modules define is the same for both instances.         *)
LEMMA SetsSame ==
    ASSUME NEW S
    PROVE  /\ Merger!IsFiniteSet(S) = IsFiniteSet(S) /\ Calls!IsFiniteSet(S) = IsFiniteSet(S)
           /\ Merger!Cardinality(S) = Cardinality(S) /\ Calls!Cardinality(S) = Cardinality(S)
           /\ Calls!Max(S) = Merger!Max(S) /\ Calls!Min(S) = Merger!Min(S)
  BY DEF Merger!IsFiniteSet, IsFiniteSet, Calls!IsFiniteSet, Calls!Max, Merger!Max,
         Calls!Min, Merger!Min, Merger!Cardinality, Cardinality, Calls!Cardinality

(* The data of the two instances of DmxMerger is the same: Merger, that the *)
(* model calls, and Calls, that its lemmas are of.                          *)
LEMMA DataSame ==
    /\ Calls!Slots = Merger!Slots /\ Calls!NoOwner = Merger!NoOwner
    /\ Calls!Unowned = Merger!Unowned /\ Calls!NewSource = Merger!NewSource
    /\ Calls!NewMerger = Merger!NewMerger /\ Calls!Source = Merger!Source
    /\ Calls!Slots = 1 .. MaxSlots
  BY DEF Calls!Slots, Merger!Slots, Calls!NoOwner, Merger!NoOwner, Calls!Unowned,
         Merger!Unowned, Calls!NewSource, Merger!NewSource, Calls!NewMerger,
         Merger!NewMerger, Calls!Source, Merger!Source

(* The priority of a slot.                                                  *)
LEMMA SourceSame ==
    ASSUME NEW source, NEW slot
    PROVE  Calls!SourcePap(source, slot) = Merger!SourcePap(source, slot)
  BY DEF Calls!SourcePap, Merger!SourcePap

(* A universe priority as a per-address one.                                *)
LEMMA AsPapSame ==
    ASSUME NEW p PROVE  Calls!AsPap(p) = Merger!AsPap(p)
  BY DEF Calls!AsPap, Merger!AsPap

(* What the sources offer for a slot.                                       *)
LEMMA CandidateSame ==
    ASSUME NEW m, NEW h, NEW slot
    PROVE  /\ Calls!Candidate(m, h, slot) = Merger!Candidate(m, h, slot)
           /\ Calls!Others(m, h, slot) = Merger!Others(m, h, slot)
<1>1. \A x : Calls!Candidate(m, x, slot) = Merger!Candidate(m, x, slot)
  BY SourceSame DEF Calls!Candidate, Merger!Candidate
<1> QED
  BY <1>1 DEF Calls!Others, Merger!Others

(* The best of what is offered.                                             *)
LEMMA BestSame ==
    ASSUME NEW candidates, NEW present
    PROVE  Calls!BestOf(candidates, present) = Merger!BestOf(candidates, present)
  BY DEF Calls!BestOf, Merger!BestOf, Calls!Beats, Merger!Beats

(* merge_new_priorities, for one slot.                                      *)
LEMMA RemergedSame ==
    ASSUME NEW m, NEW h, NEW slot
    PROVE  Calls!Remerged(m, h, slot) = Merger!Remerged(m, h, slot)
  BY CandidateSame, BestSame, DataSame
  DEF Calls!Remerged, Merger!Remerged, Calls!OfferLowered, Merger!OfferLowered,
      Calls!Beats, Merger!Beats

(* And for a range of slots.                                                *)
LEMMA MergeNewSame ==
    ASSUME NEW m, NEW h, NEW range
    PROVE  Calls!MergeNewPriorities(m, h, range) = Merger!MergeNewPriorities(m, h, range)
<1> DEFINE p == [slot \in Merger!Slots |-> IF slot \in range THEN Calls!Remerged(m, h, slot)
                            ELSE m.out[slot]]
           q == [slot \in Merger!Slots |-> IF slot \in range THEN Merger!Remerged(m, h, slot)
                            ELSE m.out[slot]]
<1>1. p = q
  BY RemergedSame
<1>2. Calls!MergeNewPriorities(m, h, range) = [m EXCEPT !.out = p]
  BY DataSame DEF Calls!MergeNewPriorities
<1>3. Merger!MergeNewPriorities(m, h, range) = [m EXCEPT !.out = q]
  BY DEF Merger!MergeNewPriorities
<1> HIDE DEF p, q
<1> QED BY <1>1, <1>2, <1>3

(* dmx_merger_add_source.                                                   *)
LEMMA AddSame ==
    ASSUME NEW m, NEW h
    PROVE  /\ Calls!CanAdd(m, h) = Merger!CanAdd(m, h)
           /\ Calls!AddSource(m, h) = Merger!AddSource(m, h)
  BY SetsSame, DataSame DEF Calls!CanAdd, Merger!CanAdd, Calls!AddSource, Merger!AddSource

(* The priority and the flag of the result.                                 *)
LEMMA HighestSame ==
    ASSUME NEW m, NEW h
    PROVE  /\ Calls!HighestPriority(m) = Merger!HighestPriority(m)
           /\ Calls!PapStillActive(m, h) = Merger!PapStillActive(m, h)
  BY SetsSame
  DEF Calls!HighestPriority, Merger!HighestPriority, Calls!PapStillActive,
      Merger!PapStillActive

(* dmx_merger_remove_source.                                                *)
LEMMA RemoveSourceSame ==
    ASSUME NEW m, NEW h PROVE Calls!RemoveSource(m, h) = Merger!RemoveSource(m, h)
  BY HighestSame, MergeNewSame, DataSame DEF Calls!RemoveSource, Merger!RemoveSource

(* dmx_merger_remove_pap.                                                   *)
LEMMA RemovePapSame ==
    ASSUME NEW m, NEW h PROVE Calls!RemovePap(m, h) = Merger!RemovePap(m, h)
  BY HighestSame, MergeNewSame, DataSame, AsPapSame DEF Calls!RemovePap, Merger!RemovePap

(* update_per_address_priorities.                                           *)
LEMMA WithPapsSame ==
    ASSUME NEW m, NEW h, NEW paps PROVE Calls!WithPaps(m, h, paps) = Merger!WithPaps(m, h, paps)
  BY CandidateSame, MergeNewSame, DataSame, SetsSame
  DEF Calls!WithPaps, Merger!WithPaps, Calls!TakeSlots, Merger!TakeSlots, Calls!Single,
      Merger!Single

(* dmx_merger_update_pap.                                                   *)
LEMMA UpdatePapSame ==
    ASSUME NEW m, NEW h, NEW paps PROVE Calls!UpdatePap(m, h, paps) = Merger!UpdatePap(m, h, paps)
  BY WithPapsSame, DataSame DEF Calls!UpdatePap, Merger!UpdatePap

(* A slot's new level, of one source and of several.                        *)
LEMMA LevelSame ==
    ASSUME NEW m, NEW h, NEW slot, NEW count
    PROVE  /\ Calls!LevelSingle(m, h, slot, count) = Merger!LevelSingle(m, h, slot, count)
           /\ Calls!LevelMulti(m, h, slot) = Merger!LevelMulti(m, h, slot)
           /\ Calls!Single(m) = Merger!Single(m)
  BY CandidateSame, DataSame, BestSame, SetsSame
  DEF Calls!LevelSingle, Merger!LevelSingle, Calls!LevelMulti, Merger!LevelMulti,
      Calls!Single, Merger!Single

(* dmx_merger_update_levels.                                                *)
LEMMA UpdateLevelsSame ==
    ASSUME NEW m, NEW h, NEW levels PROVE Calls!UpdateLevels(m, h, levels) = Merger!UpdateLevels(m, h, levels)
<1> DEFINE old == m.sources[h].valid_level_count
           padded == [slot \in Merger!Slots |-> IF slot <= Len(levels) THEN levels[slot] ELSE 0]
           given == [m EXCEPT !.sources[h].levels = padded,
                             !.sources[h].valid_level_count = Len(levels)]
           kept == Merger!Min({old, Len(levels)})
           range == kept + 1 .. Merger!Max({old, Len(levels)})
           single(Level(_)) == [given EXCEPT !.out = [slot \in Merger!Slots |-> Level(slot)]]
           several(Level(_)) == [given EXCEPT !.out =
               [slot \in Merger!Slots |-> IF slot <= kept THEN Level(slot) ELSE m.out[slot]]]
           result(alone, merged) ==
               IF padded = m.sources[h].levels /\ Len(levels) = old THEN m
               ELSE IF Merger!Single(m) THEN alone ELSE merged
<1>1. Calls!UpdateLevels(m, h, levels) =
        result(single(LAMBDA slot : Calls!LevelSingle(given, h, slot, old)),
               Calls!MergeNewPriorities(several(LAMBDA slot : Calls!LevelMulti(given, h, slot)), h, range))
  BY DEF Calls!UpdateLevels, Calls!Slots, Merger!Slots, Calls!Single, Merger!Single,
         Calls!Cardinality, Merger!Cardinality, Calls!Max, Merger!Max, Calls!Min,
         Merger!Min
<1>2. Merger!UpdateLevels(m, h, levels) =
        result(single(LAMBDA slot : Merger!LevelSingle(given, h, slot, old)),
               Merger!MergeNewPriorities(several(LAMBDA slot : Merger!LevelMulti(given, h, slot)), h, range))
  BY DEF Merger!UpdateLevels
<1> HIDE DEF given, kept, range
<1>3. single(LAMBDA slot : Calls!LevelSingle(given, h, slot, old))
        = single(LAMBDA slot : Merger!LevelSingle(given, h, slot, old))
  BY LevelSame
<1>4. several(LAMBDA slot : Calls!LevelMulti(given, h, slot))
        = several(LAMBDA slot : Merger!LevelMulti(given, h, slot))
  BY LevelSame
<1> HIDE DEF single, several, result
<1> QED
  BY <1>1, <1>2, <1>3, <1>4, MergeNewSame

(* dmx_merger_update_universe_priority.                                     *)
LEMMA UpdateUniversePrioritySame ==
    ASSUME NEW m, NEW h, NEW priority
    PROVE Calls!UpdateUniversePriority(m, h, priority) = Merger!UpdateUniversePriority(m, h, priority)
<1> DEFINE source == m.sources[h]
           given == [m EXCEPT !.sources[h].universe_priority_uninitialized = FALSE,
                             !.sources[h].universe_priority = priority]
           wide == [given EXCEPT !.sources[h].pap_count = MaxSlots]
           paps == [slot \in Merger!Slots |-> Merger!AsPap(priority)]
           merged(with) == IF ~source.using_universe_priority THEN given ELSE with
           result(with, highest) ==
             IF priority = source.universe_priority /\ ~source.universe_priority_uninitialized
             THEN m ELSE [merged(with) EXCEPT !.universe_priority = highest]
           calls == Calls!WithPaps(wide, h, paps)
           mergers == Merger!WithPaps(wide, h, paps)
<1> HIDE DEF paps
<1>1. Calls!UpdateUniversePriority(m, h, priority) =
        result(calls, Calls!NewUniversePriority(merged(calls), m, source.universe_priority, priority))
  BY DEF Calls!UpdateUniversePriority, Calls!Slots, Merger!Slots, paps, Calls!AsPap,
         Merger!AsPap
<1>2. Merger!UpdateUniversePriority(m, h, priority) =
        result(mergers, Merger!NewUniversePriority(merged(mergers), m, source.universe_priority, priority))
  BY DEF Merger!UpdateUniversePriority, paps
<1>3. calls = mergers
  BY WithPapsSame
<1>4. \A n, old : Calls!NewUniversePriority(n, m, old, priority)
          = Merger!NewUniversePriority(n, m, old, priority)
  BY HighestSame, SetsSame, LevelSame
  DEF Calls!NewUniversePriority, Merger!NewUniversePriority
<1> HIDE DEF calls, mergers, result, merged, source
<1> QED
  BY <1>1, <1>2, <1>3, <1>4

(* The type of a merger.                                                    *)
LEMMA IsMergerSame ==
    ASSUME NEW m PROVE Calls!IsMerger(m) = Merger!IsMerger(m)
  BY DataSame DEF Calls!IsMerger, Merger!IsMerger, Calls!Source, Merger!Source

-----------------------------------------------------------------------------

(* What DmxMerger assumes of its constants holds of those it gets here.     *)
LEMMA Assumed == Calls!HandlesAssumption /\ Calls!SlotsAssumption /\ Calls!ValuesAssumption
  BY MergeReceiverAssumption, ApiAssumption, SetsSame
  DEF Calls!HandlesAssumption, Calls!SlotsAssumption, Calls!ValuesAssumption

(* What holds of every source of a merger, between the calls.               *)
Right(source) ==
    /\ \A slot \in 1 .. MaxSlots : slot > source.valid_level_count => source.levels[slot] = 0
    /\ source.valid_level_count > 0 => ~source.universe_priority_uninitialized
    /\ source.using_universe_priority /\ ~source.universe_priority_uninitialized =>
          source.address_priority =
             [slot \in 1 .. MaxSlots |-> Merger!AsPap(source.universe_priority)]

Good(m) ==
    /\ Calls!UpToDate(m)
    /\ Cardinality(DOMAIN m.sources) <= MaxSources
    /\ \A h \in DOMAIN m.sources : Right(m.sources[h])

(* The type of a merger that is good: its sources are finitely many.        *)
LEMMA GoodFields ==
    ASSUME NEW m, Good(m)
    PROVE  /\ Calls!IsMerger(m)
           /\ DOMAIN m.sources \subseteq Handles
           /\ IsFiniteSet(DOMAIN m.sources) /\ Cardinality(DOMAIN m.sources) \in Nat
           /\ \A h \in DOMAIN m.sources : m.sources[h] \in Calls!Source
<1>1. Calls!IsMerger(m)
  BY DEF Good, Calls!UpToDate
<1>2. DOMAIN m.sources \subseteq Handles /\ m.sources \in [DOMAIN m.sources -> Calls!Source]
  BY <1>1 DEF Calls!IsMerger
<1>3. IsFiniteSet(DOMAIN m.sources)
  BY <1>2, MergeReceiverAssumption, FS_Subset
<1>4. Cardinality(DOMAIN m.sources) \in Nat
  BY <1>3, FS_CardinalityType
<1> QED
  BY <1>1, <1>2, <1>3, <1>4

(* A merger that is up to date, with one source that is right in place of   *)
(* another, is good.                                                        *)
LEMMA BecomesGood ==
    ASSUME NEW m, Good(m), NEW n, Calls!UpToDate(n), NEW h \in DOMAIN m.sources, NEW source,
           Calls!SourceBecomes(m, n, h, source), Right(source)
    PROVE  Good(n)
<1>1. DOMAIN n.sources = DOMAIN m.sources
  BY DEF Calls!SourceBecomes
<1>2. \A x \in DOMAIN n.sources : Right(n.sources[x])
  BY DEF Calls!SourceBecomes, Good
<1> QED
  BY <1>1, <1>2 DEF Good

(* dmx_merger_create: a merger without sources is good.                     *)
LEMMA NewGood == Good(Merger!NewMerger) /\ DOMAIN Merger!NewMerger.sources = {}
<1>1. Calls!UpToDate(Merger!NewMerger)
  BY Assumed, DataSame, Calls!NewMergerUpToDate
<1>2. DOMAIN Merger!NewMerger.sources = {}
  BY DEF Merger!NewMerger
<1>3. Cardinality({}) = 0
  BY FS_EmptySet
<1> QED
  BY <1>1, <1>2, <1>3, ApiAssumption DEF Good

(* dmx_merger_add_source, as far as there is room.                          *)
LEMMA AddedGood ==
    ASSUME NEW m, Good(m), NEW h \in Handles
    PROVE  LET n == Added(m, h) IN
           /\ Good(n) /\ n.out = m.out
           /\ n = m \/ DOMAIN n.sources = DOMAIN m.sources \cup {h}
           /\ \A x \in DOMAIN m.sources : x \in DOMAIN n.sources /\ n.sources[x] = m.sources[x]
           /\ h \in DOMAIN m.sources => n = m
           /\ h \notin DOMAIN m.sources =>
                /\ h \in DOMAIN n.sources => n.sources[h] = Merger!NewSource
                /\ Cardinality(DOMAIN m.sources) < MaxSources => h \in DOMAIN n.sources
<1> DEFINE n == Merger!AddSource(m, h)
<1>1. Merger!CanAdd(m, h) <=>
         Cardinality(DOMAIN m.sources) < MaxSources /\ h \notin DOMAIN m.sources
  BY SetsSame DEF Merger!CanAdd
<1>2. CASE ~Merger!CanAdd(m, h)
  BY <1>1, <1>2 DEF Added
<1>3. ASSUME Merger!CanAdd(m, h)
      PROVE  /\ Calls!UpToDate(n) /\ n.out = m.out
             /\ n.sources = [x \in DOMAIN m.sources \cup {h} |->
                               IF x = h THEN Merger!NewSource ELSE m.sources[x]]
  <2>1. Calls!IsMerger(m) /\ Calls!UpToDate(m)
    BY GoodFields DEF Good
  <2>2. Calls!UpToDate(n)
    BY <1>3, <2>1, Assumed, AddSame, Calls!AddSourceUpToDate
  <2>3. n.sources = [x \in DOMAIN m.sources \cup {h} |->
                       IF x = h THEN Merger!NewSource ELSE m.sources[x]] /\ n.out = m.out
    <3>1. LET added == Calls!AddSource(m, h) IN
          /\ added.sources = [x \in DOMAIN m.sources \cup {h} |->
                                IF x = h THEN Calls!NewSource ELSE m.sources[x]]
          /\ added.out = m.out
      BY <2>1, Assumed, Calls!AddSourceSources
    <3>2. Calls!AddSource(m, h) = n /\ Calls!NewSource = Merger!NewSource
      BY AddSame, DataSame
    <3> HIDE DEF n
    <3> QED
      BY <3>1, <3>2
  <2> QED
    BY <2>2, <2>3
<1>4. ASSUME Merger!CanAdd(m, h)
      PROVE  Cardinality(DOMAIN n.sources) <= MaxSources
  <2>1. Cardinality(DOMAIN m.sources \cup {h}) = Cardinality(DOMAIN m.sources) + 1
    BY <1>1, <1>4, GoodFields, FS_AddElement
  <2> QED
    BY <1>1, <1>3, <1>4, <2>1, ApiAssumption, GoodFields
<1>5. Right(Merger!NewSource)
  BY DEF Right, Merger!NewSource, Merger!Slots
<1>6. ASSUME Merger!CanAdd(m, h) PROVE Good(n)
  <2> HIDE DEF n
  <2>1. \A x \in DOMAIN n.sources : Right(n.sources[x])
    BY <1>3, <1>5, <1>6 DEF Good
  <2> QED
    BY <1>3, <1>4, <1>6, <2>1 DEF Good
<1>7. Merger!CanAdd(m, h) => Added(m, h) = n
  BY DEF Added
<1> HIDE DEF n
<1> QED
  BY <1>1, <1>2, <1>3, <1>6, <1>7

(* Only source h of merger m has become another.                            *)
Becomes(m, n, h, source) ==
    /\ DOMAIN n.sources = DOMAIN m.sources
    /\ n.sources[h] = source
    /\ \A x \in DOMAIN m.sources \ {h} : n.sources[x] = m.sources[x]

(* One source becomes another: nothing else of the table changes.           *)
LEMMA BecomesSame ==
    ASSUME NEW m, NEW n, NEW h, NEW source
    PROVE  Calls!SourceBecomes(m, n, h, source) = Becomes(m, n, h, source)
  BY DEF Calls!SourceBecomes, Becomes

Padded(values) == [slot \in 1 .. MaxSlots |-> IF slot <= Len(values) THEN values[slot] ELSE 0]
AllAt(priority) == [slot \in 1 .. MaxSlots |-> Merger!AsPap(priority)]

(* dmx_merger_update_levels and then update_universe_priority: the source   *)
(* has these levels and this priority, whether it has priorities of its own *)
(* stays.                                                                   *)
LEMMA WithLevelsGood ==
    ASSUME NEW m, Good(m), NEW h \in DOMAIN m.sources,
           NEW values \in Seq(Nat), Len(values) \in 0 .. MaxSlots, NEW priority \in Nat
    PROVE  LET n == WithLevels(m, h, values, priority)
               source == m.sources[h]
               now == n.sources[h] IN
           /\ Good(n) /\ Becomes(m, n, h, now)
           /\ now.levels = Padded(values) /\ now.valid_level_count = Len(values)
           /\ now.universe_priority = priority
           /\ now.using_universe_priority = source.using_universe_priority
           /\ now.address_priority = IF source.using_universe_priority THEN AllAt(priority)
                                     ELSE source.address_priority
<1> DEFINE source == m.sources[h]
           middle == Merger!UpdateLevels(m, h, values)
           levelled == [source EXCEPT !.levels = Padded(values), !.valid_level_count = Len(values)]
           n == Merger!UpdateUniversePriority(middle, h, priority)
           given == IF source.using_universe_priority
                    THEN [levelled EXCEPT !.universe_priority_uninitialized = FALSE,
                                    !.universe_priority = priority, !.pap_count = MaxSlots,
                                    !.address_priority = AllAt(priority)]
                    ELSE [levelled EXCEPT !.universe_priority_uninitialized = FALSE,
                                    !.universe_priority = priority]
<1>1. source \in Calls!Source /\ Right(source) /\ Calls!IsMerger(m) /\ Calls!UpToDate(m)
  BY GoodFields DEF Good
<1>2. Calls!UpToDate(middle)
  BY <1>1, Assumed, UpdateLevelsSame, Calls!UpdateLevelsUpToDate
<1>3. Becomes(m, middle, h, levelled)
  <2>1. Calls!SourceBecomes(m, Calls!UpdateLevels(m, h, values), h,
              [m.sources[h] EXCEPT
                 !.levels = [slot \in Calls!Slots |-> IF slot <= Len(values) THEN values[slot] ELSE 0],
                 !.valid_level_count = Len(values)])
    BY <1>1, Assumed, Calls!UpdateLevelsSources
  <2>2. [slot \in Calls!Slots |-> IF slot <= Len(values) THEN values[slot] ELSE 0] = Padded(values)
    BY DataSame DEF Padded
  <2> QED
    BY <2>1, <2>2, UpdateLevelsSame, BecomesSame
<1>4. middle.sources[h] = levelled /\ h \in DOMAIN middle.sources
  BY <1>3 DEF Becomes
<1>5. Calls!IsMerger(middle)
  BY <1>2 DEF Calls!UpToDate
<1>6. Calls!UpToDate(n)
  BY <1>2, <1>4, Assumed, UpdateUniversePrioritySame, Calls!UpdateUniversePriorityUpToDate
<1>7. levelled.using_universe_priority = source.using_universe_priority
  OBVIOUS
<1>8. IF priority = levelled.universe_priority /\ ~levelled.universe_priority_uninitialized
      THEN n = middle ELSE Becomes(middle, n, h, given)
  <2> DEFINE p == Calls!UpdateUniversePriority(middle, h, priority)
             all == [slot \in Calls!Slots |-> Calls!AsPap(priority)]
  <2>1. LET old == middle.sources[h] IN
        IF priority = old.universe_priority /\ ~old.universe_priority_uninitialized
        THEN p = middle
        ELSE Calls!SourceBecomes(middle, p, h,
                   IF old.using_universe_priority
                   THEN [old EXCEPT !.universe_priority_uninitialized = FALSE,
                                    !.universe_priority = priority, !.pap_count = MaxSlots,
                                    !.address_priority = all]
                   ELSE [old EXCEPT !.universe_priority_uninitialized = FALSE,
                                    !.universe_priority = priority])
    BY <1>4, <1>5, Assumed, Calls!UpdateUniversePrioritySources
  <2>2. all = AllAt(priority)
    BY DataSame, AsPapSame DEF AllAt
  <2>3. p = n
    BY UpdateUniversePrioritySame
  <2> HIDE DEF p, all, n, middle, levelled
  <2> QED
    BY <1>4, <1>7, <2>1, <2>2, <2>3, BecomesSame
<1>9. WithLevels(m, h, values, priority) = n
  BY DEF WithLevels, In
<1> DEFINE now == n.sources[h]
<1> HIDE DEF n, middle
<1>10. /\ Becomes(m, n, h, now) /\ now.levels = Padded(values)
       /\ now.valid_level_count = Len(values) /\ now.universe_priority = priority
       /\ now.using_universe_priority = source.using_universe_priority
       /\ now.address_priority = IF source.using_universe_priority THEN AllAt(priority)
                                 ELSE source.address_priority
       /\ ~now.universe_priority_uninitialized
  <2>1. CASE priority = levelled.universe_priority /\ ~levelled.universe_priority_uninitialized
    <3>1. n = middle /\ now = levelled
      BY <1>4, <1>8, <2>1
    <3>2. source.universe_priority = priority /\ ~source.universe_priority_uninitialized
      BY <1>1, <2>1 DEF Calls!Source
    <3>3. source.using_universe_priority => source.address_priority = AllAt(priority)
      BY <1>1, <3>2 DEF Right, AllAt
    <3> HIDE DEF source
    <3>4. /\ levelled.levels = Padded(values) /\ levelled.valid_level_count = Len(values)
          /\ levelled.address_priority = source.address_priority
      BY <1>1 DEF Calls!Source
    <3> HIDE DEF levelled
    <3> QED
      BY <1>3, <1>7, <2>1, <3>1, <3>3, <3>4 DEF source
  <2>2. CASE ~(priority = levelled.universe_priority /\ ~levelled.universe_priority_uninitialized)
    <3>1. now = given /\ Becomes(m, n, h, given)
      BY <1>3, <1>8, <2>2 DEF Becomes
    <3> HIDE DEF source
    <3>2. /\ given.levels = Padded(values) /\ given.valid_level_count = Len(values)
          /\ given.universe_priority = priority
          /\ given.using_universe_priority = source.using_universe_priority
          /\ given.address_priority = IF source.using_universe_priority THEN AllAt(priority)
                                      ELSE source.address_priority
          /\ ~given.universe_priority_uninitialized
      BY <1>1 DEF Calls!Source
    <3> HIDE DEF given, now
    <3> QED
      BY <3>1, <3>2
  <2> QED
    BY <2>1, <2>2
<1>11. Right(now)
  <2> HIDE DEF now, source
  <2>1. \A slot \in 1 .. MaxSlots : slot > Len(values) => Padded(values)[slot] = 0
    BY DEF Padded
  <2> QED
    BY <1>10, <2>1 DEF Right, AllAt
<1> HIDE DEF now
<1>12. Good(n)
  BY <1>6, <1>10, <1>11, BecomesGood, BecomesSame
<1> QED
  BY <1>9, <1>10, <1>12 DEF now

(* dmx_merger_update_pap: the source has priorities of its own, and its     *)
(* levels stay.                                                             *)
LEMMA WithPapsGood ==
    ASSUME NEW m, Good(m), NEW h \in DOMAIN m.sources,
           NEW values \in Seq(Nat), Len(values) \in 0 .. MaxSlots
    PROVE  LET n == WithPaps(m, h, values)
               source == m.sources[h]
               now == n.sources[h] IN
           /\ Good(n) /\ Becomes(m, n, h, now)
           /\ now.levels = source.levels /\ now.valid_level_count = source.valid_level_count
           /\ now.universe_priority = source.universe_priority
           /\ now.using_universe_priority = FALSE
           /\ \A slot \in 1 .. Len(values) : now.address_priority[slot] = values[slot]
<1> DEFINE source == m.sources[h]
           n == Merger!UpdatePap(m, h, values)
           table == Calls!PapTable(source, values)
           given == [source EXCEPT !.using_universe_priority = FALSE,
                                   !.pap_count = Len(values), !.address_priority = table]
<1>1. source \in Calls!Source /\ Right(source) /\ Calls!IsMerger(m) /\ Calls!UpToDate(m)
  BY GoodFields DEF Good
<1>2. Calls!UpToDate(n)
  BY <1>1, Assumed, UpdatePapSame, Calls!UpdatePapUpToDate
<1>3. Becomes(m, n, h, given)
  <2>1. Calls!SourceBecomes(m, Calls!UpdatePap(m, h, values), h, given)
    BY <1>1, Assumed, Calls!UpdatePapSources
  <2> HIDE DEF given
  <2> QED
    BY <2>1, UpdatePapSame, BecomesSame
<1>4. WithPaps(m, h, values) = n
  BY DEF WithPaps, In
<1>5. \A slot \in 1 .. Len(values) : table[slot] = values[slot]
  <2>1. \A slot \in 1 .. Len(values) : slot \in Calls!Slots /\ slot <= Len(values)
    BY MergeReceiverAssumption, DataSame
  <2> HIDE DEF source
  <2> QED
    BY <2>1 DEF Calls!PapTable
<1> HIDE DEF table
<1>6. /\ given.levels = source.levels /\ given.valid_level_count = source.valid_level_count
      /\ given.universe_priority = source.universe_priority
      /\ given.universe_priority_uninitialized = source.universe_priority_uninitialized
      /\ given.using_universe_priority = FALSE /\ given.address_priority = table
  <2> HIDE DEF source
  <2> QED
    BY <1>1 DEF Calls!Source
<1> HIDE DEF given, n, source
<1>7. Right(given)
  BY <1>1, <1>6 DEF Right
<1>8. Good(n)
  BY <1>2, <1>3, <1>7, BecomesGood, BecomesSame
<1>9. n.sources[h] = given
  BY <1>3 DEF Becomes
<1> QED
  BY <1>3, <1>4, <1>5, <1>6, <1>8, <1>9 DEF source

(* dmx_merger_remove_pap: its universe priority counts again, and its       *)
(* levels stay.                                                             *)
LEMMA WithoutPapsGood ==
    ASSUME NEW m, Good(m), NEW h \in DOMAIN m.sources
    PROVE  LET n == WithoutPaps(m, h)
               source == m.sources[h]
               now == n.sources[h] IN
           /\ Good(n) /\ Becomes(m, n, h, now)
           /\ now.levels = source.levels /\ now.valid_level_count = source.valid_level_count
           /\ now.universe_priority = source.universe_priority
           /\ now.using_universe_priority = TRUE
<1> DEFINE source == m.sources[h]
           n == Merger!RemovePap(m, h)
           given == [source EXCEPT !.using_universe_priority = TRUE,
                                   !.address_priority = AllAt(source.universe_priority)]
<1>1. source \in Calls!Source /\ Right(source) /\ Calls!IsMerger(m) /\ Calls!UpToDate(m)
  BY GoodFields DEF Good
<1>2. Calls!UpToDate(n)
  BY <1>1, Assumed, RemovePapSame, Calls!RemovePapUpToDate
<1>3. Becomes(m, n, h, given)
  <2> DEFINE all == [slot \in Calls!Slots |-> Calls!AsPap(m.sources[h].universe_priority)]
  <2>1. Calls!SourceBecomes(m, Calls!RemovePap(m, h), h,
           [source EXCEPT !.using_universe_priority = TRUE, !.address_priority = all])
    BY <1>1, Assumed, Calls!RemovePapSources
  <2>2. all = AllAt(source.universe_priority)
    BY DataSame, AsPapSame DEF AllAt
  <2> HIDE DEF all
  <2> QED
    BY <2>1, <2>2, RemovePapSame, BecomesSame
<1>4. WithoutPaps(m, h) = n
  BY DEF WithoutPaps, In
<1>5. /\ given.levels = source.levels /\ given.valid_level_count = source.valid_level_count
      /\ given.universe_priority = source.universe_priority
      /\ given.universe_priority_uninitialized = source.universe_priority_uninitialized
      /\ given.using_universe_priority = TRUE
      /\ given.address_priority = AllAt(source.universe_priority)
  <2> HIDE DEF source
  <2> QED
    BY <1>1 DEF Calls!Source
<1> HIDE DEF given, n, source
<1>6. Right(given)
  BY <1>1, <1>5 DEF Right, AllAt
<1>7. Good(n)
  BY <1>2, <1>3, <1>6, BecomesGood, BecomesSame
<1>8. n.sources[h] = given
  BY <1>3 DEF Becomes
<1> QED
  BY <1>3, <1>4, <1>5, <1>7, <1>8 DEF source

(* dmx_merger_remove_source.                                                *)
LEMMA RemovedGood ==
    ASSUME NEW m, Good(m), NEW h
    PROVE  LET n == Removed(m, h) IN
           /\ Good(n)
           /\ n.sources = [x \in DOMAIN m.sources \ {h} |-> m.sources[x]]
           /\ h \notin DOMAIN m.sources => n = m
<1> DEFINE n == Merger!RemoveSource(m, h)
<1>1. Calls!IsMerger(m) /\ Calls!UpToDate(m)
  BY GoodFields DEF Good
<1>2. CASE h \notin DOMAIN m.sources
  <2>1. Removed(m, h) = m
    BY <1>2 DEF Removed, In
  <2>2. m.sources = [x \in DOMAIN m.sources |-> m.sources[x]]
    BY <1>1 DEF Calls!IsMerger
  <2>3. DOMAIN m.sources \ {h} = DOMAIN m.sources
    BY <1>2
  <2> QED
    BY <2>1, <2>2, <2>3
<1>3. CASE h \in DOMAIN m.sources
  <2>1. Calls!UpToDate(n)
    BY <1>1, <1>3, Assumed, RemoveSourceSame, Calls!RemoveSourceUpToDate
  <2>2. n.sources = [x \in DOMAIN m.sources \ {h} |-> m.sources[x]]
    BY <1>1, <1>3, Assumed, RemoveSourceSame, Calls!RemoveSourceSources
  <2>3. Removed(m, h) = n
    BY <1>3 DEF Removed, In
  <2> HIDE DEF n
  <2>4. \A x \in DOMAIN n.sources : Right(n.sources[x])
    BY <2>2 DEF Good
  <2>5. Cardinality(DOMAIN n.sources) <= MaxSources
    <3>1. DOMAIN n.sources \subseteq DOMAIN m.sources
      BY <2>2
    <3>2. Cardinality(DOMAIN n.sources) <= Cardinality(DOMAIN m.sources)
          /\ IsFiniteSet(DOMAIN n.sources)
      BY <3>1, GoodFields, FS_Subset
    <3>3. Cardinality(DOMAIN n.sources) \in Nat
      BY <3>2, FS_CardinalityType
    <3> QED
      BY <3>2, <3>3, GoodFields, ApiAssumption DEF Good
  <2> QED
    BY <1>3, <2>1, <2>2, <2>3, <2>4, <2>5 DEF Good
<1> QED
  BY <1>2, <1>3

-----------------------------------------------------------------------------

Fields(r) == r = [use_pap |-> r.use_pap, sampling |-> r.sampling, sources |-> r.sources,
                  main |-> r.main, samp |-> r.samp]

TheMerger(r, sampling) == IF sampling THEN r.samp ELSE r.main

(* What a merger has, the table of the merge receiver has, and under the    *)
(* flag that says which merger it is.                                       *)
Placed(r) ==
    \A sampling \in BOOLEAN : \A h \in DOMAIN TheMerger(r, sampling).sources :
        h \in DOMAIN r.sources /\ r.sources[h].sampling = sampling

IsReceiver(r) ==
    /\ Fields(r)
    /\ r.use_pap \in BOOLEAN /\ r.sampling \in BOOLEAN
    /\ DOMAIN r.sources \subseteq Handles /\ r.sources \in [DOMAIN r.sources -> Source]
    /\ Good(r.main) /\ Good(r.samp) /\ Placed(r)

SameBut(f, g, S) ==
    \A x : x \notin S =>
        /\ x \in DOMAIN f <=> x \in DOMAIN g
        /\ x \in DOMAIN f => f[x] = g[x]

Only(r, n, S) ==
    /\ n.use_pap = r.use_pap
    /\ SameBut(r.sources, n.sources, S)
    /\ SameBut(r.main.sources, n.main.sources, S)
    /\ SameBut(r.samp.sources, n.samp.sources, S)

SetMerger(r, sampling, m) == [r EXCEPT ![MergerOf(sampling)] = m]

(* One merger is set, the rest stays.                                       *)
LEMMA MergerSet ==
    ASSUME NEW r, Fields(r), NEW sampling \in BOOLEAN, NEW m
    PROVE  LET n == SetMerger(r, sampling, m) IN
           /\ Fields(n) /\ n.use_pap = r.use_pap /\ n.sampling = r.sampling
           /\ n.sources = r.sources
           /\ TheMerger(n, sampling) = m /\ TheMerger(n, ~sampling) = TheMerger(r, ~sampling)
           /\ n.main = IF sampling THEN r.main ELSE m
           /\ n.samp = IF sampling THEN m ELSE r.samp
<1>1. LET n == [r EXCEPT !.samp = m] IN
      /\ Fields(n) /\ n.use_pap = r.use_pap /\ n.sampling = r.sampling
      /\ n.sources = r.sources /\ n.main = r.main /\ n.samp = m
  BY DEF Fields
<1>2. LET n == [r EXCEPT !.main = m] IN
      /\ Fields(n) /\ n.use_pap = r.use_pap /\ n.sampling = r.sampling
      /\ n.sources = r.sources /\ n.main = m /\ n.samp = r.samp
  BY DEF Fields
<1> DEFINE n == SetMerger(r, sampling, m)
<1>3. n = IF sampling THEN [r EXCEPT !.samp = m] ELSE [r EXCEPT !.main = m]
  <2>1. CASE sampling
    <3>1. MergerOf(sampling) = "samp"
      BY <2>1 DEF MergerOf
    <3> QED
      BY <2>1, <3>1 DEF SetMerger
  <2>2. CASE ~sampling
    <3>1. MergerOf(sampling) = "main"
      BY <2>2 DEF MergerOf
    <3> QED
      BY <2>2, <3>1 DEF SetMerger
  <2> QED
    BY <2>1, <2>2
<1> HIDE DEF n
<1>4. /\ Fields(n) /\ n.use_pap = r.use_pap /\ n.sampling = r.sampling
      /\ n.sources = r.sources
      /\ n.main = IF sampling THEN r.main ELSE m
      /\ n.samp = IF sampling THEN m ELSE r.samp
  BY <1>1, <1>2, <1>3
<1> QED
  BY <1>4 DEF n, TheMerger

(* The table of the sources is set, the rest stays.                         *)
LEMMA SourcesSet ==
    ASSUME NEW r, Fields(r), NEW sources
    PROVE  LET n == [r EXCEPT !.sources = sources] IN
           /\ Fields(n) /\ n.use_pap = r.use_pap /\ n.sampling = r.sampling
           /\ n.sources = sources /\ n.main = r.main /\ n.samp = r.samp
  BY DEF Fields

(* The mergers of a merge receiver.                                         *)
LEMMA ReceiverMergers ==
    ASSUME NEW r, IsReceiver(r), NEW sampling \in BOOLEAN
    PROVE  /\ Good(TheMerger(r, sampling)) /\ Fields(r)
           /\ r[MergerOf(sampling)] = TheMerger(r, sampling)
  BY DEF IsReceiver, TheMerger, MergerOf

(* A merger with the same sources, one of which has changed, in place of    *)
(* another.                                                                 *)
LEMMA MergerReplaced ==
    ASSUME NEW r, IsReceiver(r), NEW sampling \in BOOLEAN, NEW m, Good(m), NEW h,
           DOMAIN m.sources = DOMAIN TheMerger(r, sampling).sources,
           SameBut(TheMerger(r, sampling).sources, m.sources, {h})
    PROVE  LET n == SetMerger(r, sampling, m) IN IsReceiver(n) /\ Only(r, n, {h})
<1> DEFINE n == SetMerger(r, sampling, m)
<1>1. /\ Fields(n) /\ n.use_pap = r.use_pap /\ n.sampling = r.sampling
      /\ n.sources = r.sources
      /\ n.main = IF sampling THEN r.main ELSE m
      /\ n.samp = IF sampling THEN m ELSE r.samp
  BY ReceiverMergers, MergerSet
<1> HIDE DEF n
<1>2. Placed(n)
  BY <1>1 DEF IsReceiver, Placed, TheMerger
<1>3. IsReceiver(n)
  BY <1>1, <1>2 DEF IsReceiver
<1>4. Only(r, n, {h})
  BY <1>1 DEF Only, TheMerger, SameBut
<1> QED
  BY <1>3, <1>4 DEF n

SetInfo(r, h, info) == [r EXCEPT !.sources[h] = info]

(* The information on one source in place of another, under the same flag.  *)
LEMMA InfoReplaced ==
    ASSUME NEW r, IsReceiver(r), NEW h \in DOMAIN r.sources, NEW info \in Source,
           info.sampling = r.sources[h].sampling
    PROVE  LET n == SetInfo(r, h, info) IN
           /\ IsReceiver(n) /\ Only(r, n, {h})
           /\ DOMAIN n.sources = DOMAIN r.sources /\ n.sources[h] = info
           /\ n.main = r.main /\ n.samp = r.samp
<1> DEFINE sources == [r.sources EXCEPT ![h] = info]
           n == [r EXCEPT !.sources = sources]
<1>1. Fields(r) /\ r.sources \in [DOMAIN r.sources -> Source]
  BY DEF IsReceiver
<1>2. /\ DOMAIN sources = DOMAIN r.sources /\ sources \in [DOMAIN r.sources -> Source]
      /\ sources[h] = info
      /\ \A x \in DOMAIN r.sources \ {h} : sources[x] = r.sources[x]
  BY <1>1
<1> HIDE DEF sources
<1>3. /\ Fields(n) /\ n.use_pap = r.use_pap /\ n.sampling = r.sampling
      /\ n.sources = sources /\ n.main = r.main /\ n.samp = r.samp
  BY <1>1, SourcesSet
<1> HIDE DEF n
<1>4. Placed(n)
  BY <1>2, <1>3 DEF IsReceiver, Placed, TheMerger
<1>5. IsReceiver(n)
  BY <1>2, <1>3, <1>4 DEF IsReceiver
<1>6. Only(r, n, {h})
  BY <1>2, <1>3 DEF Only, SameBut
<1> QED
  BY <1>2, <1>3, <1>5, <1>6 DEF n, sources, SetInfo

(* add_sacn_merge_receiver_source, and to the merger.                       *)
LEMMA WithSourceIs ==
    ASSUME NEW r, IsReceiver(r), NEW h \in Handles, NEW sampling \in BOOLEAN
    PROVE  LET n == WithSource(r, h, sampling) IN
           /\ IsReceiver(n) /\ Only(r, n, {h}) /\ n.main.out = r.main.out
           /\ DOMAIN n.sources = DOMAIN r.sources \cup {h}
           /\ h \in DOMAIN r.sources => n = r
           /\ h \notin DOMAIN r.sources =>
                 /\ n.sources[h] = NewInfo(sampling)
                 /\ TheMerger(n, sampling) = Added(TheMerger(r, sampling), h)
<1>1. CASE h \in DOMAIN r.sources
  BY <1>1 DEF WithSource, Only, SameBut
<1>2. CASE h \notin DOMAIN r.sources
  <2> DEFINE m == TheMerger(r, sampling)
             added == Added(m, h)
             middle == SetMerger(r, sampling, added)
             sources == [x \in DOMAIN r.sources \cup {h} |->
                           IF x = h THEN NewInfo(sampling) ELSE r.sources[x]]
             n == [middle EXCEPT !.sources = sources]
  <2>1. Good(m) /\ Fields(r) /\ r[MergerOf(sampling)] = m
    BY ReceiverMergers
  <2>2. /\ Fields(middle) /\ middle.use_pap = r.use_pap /\ middle.sampling = r.sampling
        /\ middle.sources = r.sources
        /\ middle.main = IF sampling THEN r.main ELSE added
        /\ middle.samp = IF sampling THEN added ELSE r.samp
    BY <2>1, MergerSet
  <2>3. WithSource(r, h, sampling) = n
    <3>1. [r EXCEPT ![MergerOf(sampling)] = Added(@, h)] = middle
      <4> HIDE DEF m
      <4> QED
        BY <2>1 DEF SetMerger
    <3>2. WithSource(r, h, sampling) =
            [[r EXCEPT ![MergerOf(sampling)] = Added(@, h)] EXCEPT !.sources = sources]
      BY <1>2 DEF WithSource
    <3> HIDE DEF m, middle
    <3> QED
      BY <2>2, <3>1, <3>2
  <2>4. /\ Good(added) /\ added.out = m.out
        /\ added = m \/ DOMAIN added.sources = DOMAIN m.sources \cup {h}
        /\ \A x \in DOMAIN m.sources : x \in DOMAIN added.sources /\ added.sources[x] = m.sources[x]
    BY <2>1, AddedGood
  <2>5. NewInfo(sampling) \in Source
    BY DEF NewInfo, Source
  <2>6. /\ DOMAIN sources = DOMAIN r.sources \cup {h}
        /\ sources[h] = NewInfo(sampling)
        /\ \A x \in DOMAIN r.sources : sources[x] = r.sources[x]
        /\ sources \in [DOMAIN sources -> Source] /\ DOMAIN sources \subseteq Handles
    BY <1>2, <2>5 DEF IsReceiver
  <2> HIDE DEF sources, middle, added
  <2>7. /\ Fields(n) /\ n.use_pap = r.use_pap /\ n.sampling = r.sampling /\ n.sources = sources
        /\ n.main = IF sampling THEN r.main ELSE added
        /\ n.samp = IF sampling THEN added ELSE r.samp
    BY <2>2, SourcesSet
  <2> HIDE DEF n
  <2>8. Placed(n)
    <3>1. NewInfo(sampling).sampling = sampling
      BY DEF NewInfo
    <3> QED
      BY <1>2, <2>4, <2>6, <2>7, <3>1 DEF IsReceiver, Placed, TheMerger
  <2>9. IsReceiver(n)
    BY <2>4, <2>6, <2>7, <2>8 DEF IsReceiver
  <2>10. Only(r, n, {h})
    <3>1. SameBut(r.sources, n.sources, {h})
      BY <2>6, <2>7 DEF SameBut
    <3>2. SameBut(m.sources, added.sources, {h})
      BY <2>4 DEF SameBut
    <3>3. SameBut(r.main.sources, n.main.sources, {h}) /\ SameBut(r.samp.sources, n.samp.sources, {h})
      BY <2>7, <3>2 DEF TheMerger, SameBut
    <3> QED
      BY <2>7, <3>1, <3>3 DEF Only
  <2>11. n.main.out = r.main.out /\ TheMerger(n, sampling) = added
    BY <2>4, <2>7 DEF TheMerger
  <2> QED
    BY <1>2, <2>3, <2>6, <2>7, <2>9, <2>10, <2>11 DEF added
<1> QED
  BY <1>1, <1>2

(* Two changes that only concern some sources are one.                      *)
LEMMA OnlyTwice ==
    ASSUME NEW r, NEW w, NEW n, NEW S, Only(r, w, S), Only(w, n, S)
    PROVE  Only(r, n, S)
  BY DEF Only, SameBut

Kinds == {"dmx", "pap", "other"}

(* What a packet did: n is what became of r.                               *)
PacketDone(r, n, h, sampling, kind, values, priority) ==
    LET before == TheMerger(WithSource(r, h, sampling), sampling)
        after == TheMerger(n, sampling)
        old == before.sources[h]
        now == after.sources[h]
        merges == Merges(r, kind, values) IN
    /\ Only(r, n, {h})
    /\ (merges /\ sampling = FALSE) \/ n.main.out = r.main.out
    /\ DOMAIN n.sources = DOMAIN r.sources \cup {h}
    /\ n.sources[h] = Updated(WithSource(r, h, sampling).sources[h], kind, priority)
    /\ h \in DOMAIN r.sources => TheMerger(n, ~sampling) = TheMerger(r, ~sampling)
    /\ DOMAIN after.sources = DOMAIN before.sources
    /\ h \in DOMAIN before.sources =>
          /\ ~merges => now = old
          /\ merges /\ kind = "dmx" =>
               /\ now.levels = Padded(values) /\ now.valid_level_count = Len(values)
               /\ now.using_universe_priority = old.using_universe_priority
          /\ merges /\ kind # "dmx" =>
               /\ now.levels = old.levels /\ now.valid_level_count = old.valid_level_count
               /\ now.using_universe_priority = FALSE

(* merge_receiver_universe_data.                                            *)
LEMMA UniverseDataIs ==
    ASSUME NEW r, IsReceiver(r), NEW h \in Handles, NEW sampling \in BOOLEAN,
           NEW kind \in Kinds, NEW values \in Seq(Nat), Len(values) \in 0 .. MaxSlots,
           NEW priority \in Nat
    PROVE  LET n == merge_receiver_universe_data(r, h, sampling, kind, values, priority) IN
           IsReceiver(n) /\ PacketDone(r, n, h, sampling, kind, values, priority)
<1> DEFINE w == WithSource(r, h, sampling)
           info == Updated(w.sources[h], kind, priority)
           informed == SetInfo(w, h, info)
           before == TheMerger(w, sampling)
           called == IF kind = "dmx" THEN WithLevels(before, h, values, priority)
                     ELSE WithPaps(before, h, values)
           n == merge_receiver_universe_data(r, h, sampling, kind, values, priority)
<1>1. /\ IsReceiver(w) /\ Only(r, w, {h}) /\ w.main.out = r.main.out
      /\ DOMAIN w.sources = DOMAIN r.sources \cup {h}
      /\ h \in DOMAIN r.sources => w = r
  BY WithSourceIs
<1> HIDE DEF w
<1>2. info \in Source /\ info.sampling = w.sources[h].sampling
  <2>1. w.sources[h] \in Source /\ (kind = "pap") \in BOOLEAN /\ (kind = "dmx") \in BOOLEAN
    BY <1>1 DEF IsReceiver
  <2> QED
    BY <2>1 DEF Updated, Source
<1> HIDE DEF info
<1>3. /\ IsReceiver(informed) /\ Only(w, informed, {h})
      /\ DOMAIN informed.sources = DOMAIN w.sources /\ informed.sources[h] = info
      /\ informed.main = w.main /\ informed.samp = w.samp
  BY <1>1, <1>2, InfoReplaced
<1>4. n = IF ~Merges(r, kind, values) THEN informed
          ELSE [informed EXCEPT ![MergerOf(sampling)] = 
                  IF kind = "dmx" THEN WithLevels(@, h, values, priority)
                  ELSE WithPaps(@, h, values)]
  BY DEF merge_receiver_universe_data, w, info, SetInfo
<1> HIDE DEF informed
<1>5. informed[MergerOf(sampling)] = before /\ TheMerger(informed, sampling) = before
  <2>1. TheMerger(informed, sampling) = before
    BY <1>3 DEF TheMerger
  <2> HIDE DEF before
  <2> QED
    BY <1>3, <2>1, ReceiverMergers
<1>6. Good(before)
  BY <1>1, ReceiverMergers
<1> HIDE DEF before
<1>7. /\ Good(called) /\ DOMAIN called.sources = DOMAIN before.sources
      /\ SameBut(before.sources, called.sources, {h})
      /\ h \in DOMAIN before.sources =>
           LET old == before.sources[h]
               now == called.sources[h] IN
           IF kind = "dmx"
           THEN /\ now.levels = Padded(values) /\ now.valid_level_count = Len(values)
                /\ now.using_universe_priority = old.using_universe_priority
           ELSE /\ now.levels = old.levels /\ now.valid_level_count = old.valid_level_count
                /\ now.using_universe_priority = FALSE
  <2>1. CASE h \notin DOMAIN before.sources
    <3>1. called = before
      BY <2>1 DEF WithLevels, WithPaps, In
    <3> QED
      BY <1>6, <2>1, <3>1 DEF SameBut
  <2>2. CASE h \in DOMAIN before.sources /\ kind = "dmx"
    <3>1. called = WithLevels(before, h, values, priority)
      BY <2>2
    <3> HIDE DEF called
    <3> QED
      BY <1>6, <2>2, <3>1, WithLevelsGood DEF Becomes, SameBut
  <2>3. CASE h \in DOMAIN before.sources /\ kind # "dmx"
    <3>1. called = WithPaps(before, h, values)
      BY <2>3
    <3> HIDE DEF called
    <3>2. LET now == called.sources[h]
              old == before.sources[h] IN
          /\ Good(called) /\ Becomes(before, called, h, now)
          /\ now.levels = old.levels /\ now.valid_level_count = old.valid_level_count
          /\ now.using_universe_priority = FALSE
      BY <1>6, <2>3, <3>1, WithPapsGood
    <3> QED
      BY <2>3, <3>2 DEF Becomes, SameBut
  <2> QED
    BY <2>1, <2>2, <2>3
<1>8. n = IF ~Merges(r, kind, values) THEN informed
          ELSE SetMerger(informed, sampling, called)
  BY <1>4, <1>5 DEF SetMerger
<1> HIDE DEF called, n
<1>9. CASE ~Merges(r, kind, values)
  <2>1. n = informed
    BY <1>8, <1>9
  <2>2. Only(r, n, {h})
    BY <1>1, <1>3, <2>1, OnlyTwice
  <2>3. h \in DOMAIN r.sources => TheMerger(n, ~sampling) = TheMerger(r, ~sampling)
    BY <1>1, <1>3, <2>1 DEF TheMerger
  <2> QED
    BY <1>1, <1>3, <1>5, <1>9, <2>1, <2>2, <2>3 DEF n, w, info, before, PacketDone
<1>10. CASE Merges(r, kind, values)
  <2>1. n = SetMerger(informed, sampling, called)
    BY <1>8, <1>10
  <2>2. IsReceiver(n) /\ Only(informed, n, {h})
    BY <1>3, <1>5, <1>7, <2>1, MergerReplaced
  <2>3. Only(r, n, {h})
    BY <1>1, <1>3, <2>2, OnlyTwice
  <2>4. /\ n.sources = informed.sources /\ TheMerger(n, sampling) = called
        /\ n.main = IF sampling THEN informed.main ELSE called
    <3>1. Fields(informed)
      BY <1>3, ReceiverMergers
    <3> QED
      BY <2>1, <3>1, MergerSet
  <2>5. sampling => n.main.out = r.main.out
    BY <1>1, <1>3, <2>4
  <2>6. h \in DOMAIN r.sources => TheMerger(n, ~sampling) = TheMerger(r, ~sampling)
    <3>1. Fields(informed)
      BY <1>3, ReceiverMergers
    <3>2. TheMerger(n, ~sampling) = TheMerger(informed, ~sampling)
      BY <2>1, <3>1, MergerSet
    <3> QED
      BY <1>1, <1>3, <3>2 DEF TheMerger
  <2> QED
    BY <1>1, <1>3, <1>7, <1>10, <2>2, <2>3, <2>4, <2>5, <2>6 DEF n, w, info, before, PacketDone
<1> QED
  BY <1>9, <1>10

(* What the loss of its priorities did to source h.                         *)
PapForgotten(r, n, h) ==
    LET sampling == r.sources[h].sampling
        before == TheMerger(r, sampling)
        after == TheMerger(n, sampling)
        old == before.sources[h]
        now == after.sources[h] IN
    /\ Only(r, n, {h})
    /\ sampling = TRUE => n.main.out = r.main.out
    /\ DOMAIN n.sources = DOMAIN r.sources
    /\ n.sources[h] = [r.sources[h] EXCEPT !.per_address_priorities_active = FALSE]
    /\ DOMAIN after.sources = DOMAIN before.sources
    /\ h \in DOMAIN before.sources =>
          /\ now.levels = old.levels /\ now.valid_level_count = old.valid_level_count
          /\ now.using_universe_priority = TRUE

(* merge_receiver_pap_lost.                                                 *)
LEMMA PapLostIs ==
    ASSUME NEW r, IsReceiver(r), NEW h \in DOMAIN r.sources
    PROVE  LET n == merge_receiver_pap_lost(r, h) IN IsReceiver(n) /\ PapForgotten(r, n, h)
<1> DEFINE info == [r.sources[h] EXCEPT !.per_address_priorities_active = FALSE]
           informed == SetInfo(r, h, info)
           sampling == r.sources[h].sampling
           before == TheMerger(r, sampling)
           called == WithoutPaps(before, h)
           n == merge_receiver_pap_lost(r, h)
<1>1. info \in Source /\ info.sampling = sampling /\ sampling \in BOOLEAN
  <2>1. r.sources[h] \in Source
    BY DEF IsReceiver
  <2> QED
    BY <2>1 DEF Source
<1>2. n = [informed EXCEPT ![MergerOf(sampling)] = WithoutPaps(r[MergerOf(sampling)], h)]
  BY DEF merge_receiver_pap_lost, SetInfo
<1>3. r[MergerOf(sampling)] = before
  BY <1>1, ReceiverMergers
<1>4. n = SetMerger(informed, sampling, called)
  BY <1>2, <1>3 DEF SetMerger
<1> HIDE DEF info
<1>5. /\ IsReceiver(informed) /\ Only(r, informed, {h})
      /\ DOMAIN informed.sources = DOMAIN r.sources /\ informed.sources[h] = info
      /\ informed.main = r.main /\ informed.samp = r.samp
  BY <1>1, InfoReplaced
<1> HIDE DEF informed, n
<1>6. Good(before) /\ TheMerger(informed, sampling) = before
  BY <1>1, <1>5, ReceiverMergers DEF TheMerger
<1> HIDE DEF before, sampling
<1>7. /\ Good(called) /\ DOMAIN called.sources = DOMAIN before.sources
      /\ SameBut(before.sources, called.sources, {h})
      /\ h \in DOMAIN before.sources =>
           LET old == before.sources[h]
               now == called.sources[h] IN
           /\ now.levels = old.levels /\ now.valid_level_count = old.valid_level_count
           /\ now.using_universe_priority = TRUE
  <2>1. CASE h \notin DOMAIN before.sources
    <3>1. called = before
      BY <2>1 DEF WithoutPaps, In
    <3> QED
      BY <1>6, <2>1, <3>1 DEF SameBut
  <2>2. CASE h \in DOMAIN before.sources
    <3>1. LET now == called.sources[h]
              old == before.sources[h] IN
          /\ Good(called) /\ Becomes(before, called, h, now)
          /\ now.levels = old.levels /\ now.valid_level_count = old.valid_level_count
          /\ now.using_universe_priority = TRUE
      BY <1>6, <2>2, WithoutPapsGood
    <3> HIDE DEF called
    <3> QED
      BY <2>2, <3>1 DEF Becomes, SameBut
  <2> QED
    BY <2>1, <2>2
<1> HIDE DEF called
<1>8. IsReceiver(n) /\ Only(informed, n, {h})
  <2>1. DOMAIN called.sources = DOMAIN TheMerger(informed, sampling).sources
        /\ SameBut(TheMerger(informed, sampling).sources, called.sources, {h})
    BY <1>6, <1>7
  <2> QED
    BY <1>1, <1>4, <1>5, <1>7, <2>1, MergerReplaced
<1>9. Only(r, n, {h})
  BY <1>5, <1>8, OnlyTwice
<1>10. /\ n.sources = informed.sources /\ TheMerger(n, sampling) = called
       /\ n.main = IF sampling THEN informed.main ELSE called
  <2>1. Fields(informed)
    BY <1>5, ReceiverMergers
  <2> QED
    BY <1>1, <1>4, <2>1, MergerSet
<1>11. sampling => n.main.out = r.main.out
  BY <1>5, <1>10
<1> QED
  BY <1>5, <1>7, <1>8, <1>9, <1>10, <1>11 DEF n, info, sampling, before, PapForgotten

-----------------------------------------------------------------------------

(* What is known of source h in all three: what the receiver told, what the *)
(* merge receiver keeps and what its merger has, of what did not go astray. *)
SourceAgrees(r, t, l, a, h) ==
    /\ h \in DOMAIN r.sources <=> h \in t.known
    /\ h \in a.dmx => h \in Movers
    /\ h \in a.pap => h \in Movers
    /\ h \in t.known =>
        LET source == r.sources[h]
            sources == TheMerger(r, source.sampling).sources
            merged == sources[h] IN
        /\ h \notin Movers => (source.sampling <=> h \in t.sampled)
        /\ h \in DOMAIN sources
        /\ r.use_pap =>
              /\ source.per_address_priorities_active <=> h \in t.pap
              /\ h \notin a.pap => (merged.using_universe_priority <=> h \notin t.pap)
        /\ h \notin a.dmx /\ l[h] # <<>> =>
              /\ merged.valid_level_count = Len(l[h])
              /\ SubSeq(merged.levels, 1, Len(l[h])) = l[h]

(* What is known of a source that a change does not concern agrees as       *)
(* before.                                                                  *)
LEMMA AgreesElsewhere ==
    ASSUME NEW r, NEW n, NEW S, Only(r, n, S), NEW t, NEW u, NEW l, NEW k, NEW a, NEW b,
           NEW x, x \notin S, IsReceiver(r),
           x \in t.known <=> x \in u.known, x \in t.pap <=> x \in u.pap,
           x \in t.sampled <=> x \in u.sampled, l[x] = k[x],
           x \in a.dmx <=> x \in b.dmx, x \in a.pap <=> x \in b.pap,
           SourceAgrees(r, t, l, a, x)
    PROVE  SourceAgrees(n, u, k, b, x)
<1>1. x \in DOMAIN r.sources <=> x \in DOMAIN n.sources
  BY DEF Only, SameBut
<1>2. CASE x \notin DOMAIN r.sources
  BY <1>1, <1>2 DEF SourceAgrees
<1>3. CASE x \in DOMAIN r.sources
  <2> DEFINE sampling == r.sources[x].sampling
  <2>1. n.sources[x] = r.sources[x] /\ n.use_pap = r.use_pap
    BY <1>3 DEF Only, SameBut
  <2>2. x \in DOMAIN TheMerger(r, sampling).sources =>
          /\ x \in DOMAIN TheMerger(n, sampling).sources
          /\ TheMerger(n, sampling).sources[x] = TheMerger(r, sampling).sources[x]
    BY <1>3 DEF Only, SameBut, TheMerger
  <2> QED
    BY <1>1, <1>3, <2>1, <2>2 DEF SourceAgrees
<1> QED
  BY <1>2, <1>3

-----------------------------------------------------------------------------
(* What the code does source by source: folds over finite sets.             *)

Picked(s) == CHOOSE x \in s : TRUE

(* One round of a loop of the code, named so that what is said of folds can *)
(* be said once.                                                            *)
Round(loop, r, h) ==
    IF loop = "lost" THEN WithoutSource(r, h)
    ELSE IF loop = "moved" THEN Transferred(r, h)
    ELSE Removed(r, h)

(* f[s] is what the rounds for the elements of s make of b.                 *)
Runs(f, loop, b, S) ==
    f = [s \in SUBSET S |-> IF s = {} THEN b
                            ELSE Round(loop, f[s \ {Picked(s)}], Picked(s))]

(* What holds of the empty set, and of a set when it does of all but one of *)
(* its elements, holds of a finite set.                                     *)
LEMMA BySubsets ==
    ASSUME NEW S, IsFiniteSet(S), NEW Holds \in SUBSET SUBSET S, {} \in Holds,
           \A s \in SUBSET S : s # {} /\ s \ {Picked(s)} \in Holds => s \in Holds
    PROVE  S \in Holds
<1> DEFINE R == StrictSubsetOrdering(S)
           Fails == (SUBSET S) \ Holds
<1>1. IsWellFoundedOn(R, SUBSET S)
  BY FS_StrictSubsetOrderingWellFounded, FS_FiniteSubsetsOfFinite
<1>2. SUFFICES ASSUME Fails # {} PROVE FALSE
  OBVIOUS
<1>3. PICK s \in Fails : \A t \in Fails : ~(<<t, s>> \in R)
  <2>1. Fails \subseteq SUBSET S
    OBVIOUS
  <2> HIDE DEF Fails, R
  <2> QED
    BY <1>1, <1>2, <2>1, WFMin
<1>4. s # {} /\ s \ {Picked(s)} \in Fails
  OBVIOUS
<1>5. Picked(s) \in s
  BY <1>4 DEF Picked
<1>6. <<s \ {Picked(s)}, s>> \in R
  BY <1>4, <1>5 DEF StrictSubsetOrdering
<1> QED
  BY <1>3, <1>4, <1>6

(* There are the rounds for every subset of a finite set.                   *)
LEMMA RunExists ==
    ASSUME NEW S, IsFiniteSet(S), NEW loop, NEW b
    PROVE  \E f : Runs(f, loop, b, S)
<1> DEFINE UpTo(n) == {s \in SUBSET S : Cardinality(s) <= n}
           Part(f, n) == f = [s \in UpTo(n) |->
                IF s = {} THEN b ELSE Round(loop, f[s \ {Picked(s)}], Picked(s))]
           Holds == {t \in SUBSET S : \E f : Part(f, Cardinality(t))}
<1>1. \A s \in SUBSET S : IsFiniteSet(s) /\ Cardinality(s) \in Nat
  BY FS_Subset, FS_CardinalityType
<1>2. \A s \in SUBSET S : s # {} => /\ s \ {Picked(s)} \in SUBSET S
                                    /\ Cardinality(s \ {Picked(s)}) = Cardinality(s) - 1
  <2>1. \A s \in SUBSET S : s # {} => Picked(s) \in s
    BY DEF Picked
  <2> QED
    BY <1>1, <2>1, FS_RemoveElement
<1>3. {} \in Holds
  <2> DEFINE f == [s \in UpTo(0) |-> b]
  <2>1. \A s \in UpTo(0) : s = {}
    BY <1>1, FS_EmptySet
  <2>2. f = [s \in UpTo(0) |-> IF s = {} THEN b ELSE Round(loop, f[s \ {Picked(s)}], Picked(s))]
    BY <2>1
  <2> HIDE DEF f
  <2>3. Part(f, 0) /\ Cardinality({}) = 0
    BY <2>2, FS_EmptySet
  <2> QED
    BY <2>3
<1>4. ASSUME NEW t \in SUBSET S, t # {}, t \ {Picked(t)} \in Holds PROVE t \in Holds
  <2> DEFINE n == Cardinality(t)
  <2>1. PICK f : Part(f, n - 1)
    BY <1>2, <1>4
  <2> DEFINE g == [s \in UpTo(n) |->
                     IF s = {} THEN b ELSE Round(loop, f[s \ {Picked(s)}], Picked(s))]
  <2>2. ASSUME NEW s \in UpTo(n), s # {}
        PROVE  g[s \ {Picked(s)}] = f[s \ {Picked(s)}]
    <3> DEFINE u == s \ {Picked(s)}
    <3>1. u \in SUBSET S /\ Cardinality(u) \in Nat /\ Cardinality(s) \in Nat
          /\ Cardinality(u) = Cardinality(s) - 1 /\ Cardinality(s) <= n /\ n \in Nat
      BY <1>1, <1>2, <2>2
    <3>2. u \in UpTo(n - 1) /\ u \in UpTo(n)
      BY <3>1
    <3> HIDE DEF u
    <3>3. f[u] = IF u = {} THEN b ELSE Round(loop, f[u \ {Picked(u)}], Picked(u))
      BY <2>1, <3>2
    <3>4. g[u] = IF u = {} THEN b ELSE Round(loop, f[u \ {Picked(u)}], Picked(u))
      BY <3>2
    <3> QED
      BY <3>3, <3>4 DEF u
  <2>3. g = [s \in UpTo(n) |->
               IF s = {} THEN b ELSE Round(loop, g[s \ {Picked(s)}], Picked(s))]
    <3> DEFINE k == [s \in UpTo(n) |->
               IF s = {} THEN b ELSE Round(loop, g[s \ {Picked(s)}], Picked(s))]
    <3>1. \A s \in UpTo(n) : g[s] = k[s]
      BY <2>2
    <3> QED
      BY <3>1
  <2> HIDE DEF g
  <2> QED
    BY <2>3
<1> HIDE DEF Holds
<1>5. S \in Holds
  <2>1. Holds \in SUBSET SUBSET S
    BY DEF Holds
  <2> QED
    BY <1>3, <1>4, <2>1, BySubsets
<1>6. PICK f : Part(f, Cardinality(S))
  BY <1>5 DEF Holds
<1>7. UpTo(Cardinality(S)) = SUBSET S
  BY FS_Subset
<1> QED
  BY <1>6, <1>7 DEF Runs

(* The loop of merge_receiver_sources_lost is its rounds.                   *)
LEMMA LostRuns ==
    ASSUME NEW S, IsFiniteSet(S), NEW b
    PROVE  \E f : /\ Runs(f, "lost", b, S)
                  /\ FoldSet(LAMBDA h, rest : WithoutSource(rest, h), b, S) = f[S]
<1> DEFINE Iterates(f) == f = [s \in SUBSET S |->
                IF s = {} THEN b
                ELSE WithoutSource(f[s \ {CHOOSE x \in s : TRUE}], CHOOSE x \in s : TRUE)]
           it == CHOOSE f : Iterates(f)
<1>1. \A f : Runs(f, "lost", b, S) <=> Iterates(f)
  BY DEF Runs, Round, Picked
<1>2. PICK f : Runs(f, "lost", b, S)
  BY RunExists
<1>3. Iterates(f)
  BY <1>1, <1>2
<1>4. Iterates(it)
  BY <1>3
<1>5. FoldSet(LAMBDA h, rest : WithoutSource(rest, h), b, S) = it[S]
  BY DEF FoldSet, MapThenFoldSet
<1> HIDE DEF it
<1> QED
  BY <1>1, <1>4, <1>5

(* The loop of merge_receiver_sampling_ended is its rounds.                 *)
LEMMA MovedRuns ==
    ASSUME NEW S, IsFiniteSet(S), NEW b
    PROVE  \E f : /\ Runs(f, "moved", b, S)
                  /\ FoldSet(LAMBDA h, rest : Transferred(rest, h), b, S) = f[S]
<1> DEFINE Iterates(f) == f = [s \in SUBSET S |->
                IF s = {} THEN b
                ELSE Transferred(f[s \ {CHOOSE x \in s : TRUE}], CHOOSE x \in s : TRUE)]
           it == CHOOSE f : Iterates(f)
<1>1. \A f : Runs(f, "moved", b, S) <=> Iterates(f)
  BY DEF Runs, Round, Picked
<1>2. PICK f : Runs(f, "moved", b, S)
  BY RunExists
<1>3. Iterates(f)
  BY <1>1, <1>2
<1>4. Iterates(it)
  BY <1>3
<1>5. FoldSet(LAMBDA h, rest : Transferred(rest, h), b, S) = it[S]
  BY DEF FoldSet, MapThenFoldSet
<1> HIDE DEF it
<1> QED
  BY <1>1, <1>4, <1>5

(* The loops of sacn_merge_receiver_change_universe are their rounds.       *)
LEMMA RemovedRuns ==
    ASSUME NEW S, IsFiniteSet(S), NEW b
    PROVE  \E f : /\ Runs(f, "removed", b, S)
                  /\ FoldSet(LAMBDA h, rest : Removed(rest, h), b, S) = f[S]
<1> DEFINE Iterates(f) == f = [s \in SUBSET S |->
                IF s = {} THEN b
                ELSE Removed(f[s \ {CHOOSE x \in s : TRUE}], CHOOSE x \in s : TRUE)]
           it == CHOOSE f : Iterates(f)
<1>1. \A f : Runs(f, "removed", b, S) <=> Iterates(f)
  BY DEF Runs, Round, Picked
<1>2. PICK f : Runs(f, "removed", b, S)
  BY RunExists
<1>3. Iterates(f)
  BY <1>1, <1>2
<1>4. Iterates(it)
  BY <1>3
<1>5. FoldSet(LAMBDA h, rest : Removed(rest, h), b, S) = it[S]
  BY DEF FoldSet, MapThenFoldSet
<1> HIDE DEF it
<1> QED
  BY <1>1, <1>4, <1>5


(* One round of merge_receiver_sources_lost.                                *)
LEMMA WithoutSourceIs ==
    ASSUME NEW r, IsReceiver(r), NEW h \in DOMAIN r.sources
    PROVE  LET n == WithoutSource(r, h) IN
           /\ IsReceiver(n) /\ Only(r, n, {h})
           /\ DOMAIN n.sources = DOMAIN r.sources \ {h}
           /\ r.sources[h].sampling => n.main = r.main
<1> DEFINE sampling == r.sources[h].sampling
           m == TheMerger(r, sampling)
           removed == Removed(m, h)
           middle == SetMerger(r, sampling, removed)
           sources == [x \in DOMAIN r.sources \ {h} |-> r.sources[x]]
           n == [middle EXCEPT !.sources = sources]
<1>1. sampling \in BOOLEAN
  BY DEF IsReceiver, Source
<1>2. Good(m) /\ Fields(r) /\ r[MergerOf(sampling)] = m
  BY <1>1, ReceiverMergers
<1>3. WithoutSource(r, h) = n
  <2>1. [r EXCEPT ![MergerOf(sampling)] = Removed(@, h)] = middle
    <3> HIDE DEF m, sampling
    <3> QED
      BY <1>2 DEF SetMerger
  <2>2. WithoutSource(r, h) =
          [[r EXCEPT ![MergerOf(sampling)] = Removed(@, h)] EXCEPT !.sources = sources]
    BY DEF WithoutSource
  <2> HIDE DEF m, middle
  <2> QED
    BY <2>1, <2>2
<1>4. /\ Good(removed) /\ removed.sources = [x \in DOMAIN m.sources \ {h} |-> m.sources[x]]
      /\ h \notin DOMAIN m.sources => removed = m
  BY <1>2, RemovedGood
<1>5. /\ Fields(middle) /\ middle.use_pap = r.use_pap /\ middle.sampling = r.sampling
      /\ middle.sources = r.sources
      /\ middle.main = IF sampling THEN r.main ELSE removed
      /\ middle.samp = IF sampling THEN removed ELSE r.samp
  BY <1>1, <1>2, MergerSet
<1>6. /\ DOMAIN sources = DOMAIN r.sources \ {h}
      /\ \A x \in DOMAIN sources : sources[x] = r.sources[x]
      /\ sources \in [DOMAIN sources -> Source] /\ DOMAIN sources \subseteq Handles
  BY DEF IsReceiver
<1> HIDE DEF sources, middle, removed
<1>7. /\ Fields(n) /\ n.use_pap = r.use_pap /\ n.sampling = r.sampling /\ n.sources = sources
      /\ n.main = IF sampling THEN r.main ELSE removed
      /\ n.samp = IF sampling THEN removed ELSE r.samp
  BY <1>5, SourcesSet
<1> HIDE DEF n
<1>8. h \notin DOMAIN TheMerger(r, ~sampling).sources
  BY <1>1 DEF IsReceiver, Placed
<1>9. Placed(n)
  <2>1. \A x \in DOMAIN n.main.sources : x \in DOMAIN r.main.sources /\ x # h
    BY <1>1, <1>4, <1>7, <1>8 DEF TheMerger
  <2>2. \A x \in DOMAIN n.samp.sources : x \in DOMAIN r.samp.sources /\ x # h
    BY <1>1, <1>4, <1>7, <1>8 DEF TheMerger
  <2>3. \A x \in DOMAIN r.sources : x # h => x \in DOMAIN n.sources /\ n.sources[x] = r.sources[x]
    BY <1>6, <1>7
  <2> QED
    BY <2>1, <2>2, <2>3 DEF IsReceiver, Placed, TheMerger
<1>10. IsReceiver(n)
  BY <1>4, <1>6, <1>7, <1>9 DEF IsReceiver
<1>11. Only(r, n, {h})
  <2>1. SameBut(r.sources, n.sources, {h})
    BY <1>6, <1>7 DEF SameBut
  <2>2. SameBut(m.sources, removed.sources, {h})
    BY <1>4 DEF SameBut
  <2>3. SameBut(r.main.sources, n.main.sources, {h}) /\ SameBut(r.samp.sources, n.samp.sources, {h})
    BY <1>7, <2>2 DEF TheMerger, SameBut
  <2> QED
    BY <1>7, <2>1, <2>3 DEF Only
<1> QED
  BY <1>3, <1>6, <1>7, <1>10, <1>11

(* merge_receiver_sources_lost.                                             *)
LEMMA SourcesLostIs ==
    ASSUME NEW r, IsReceiver(r), NEW lost
    PROVE  LET n == merge_receiver_sources_lost(r, lost) IN
           /\ IsReceiver(n) /\ Only(r, n, lost \cap DOMAIN r.sources)
           /\ DOMAIN n.sources = DOMAIN r.sources \ lost
           /\ (\A h \in lost \cap DOMAIN r.sources : r.sources[h].sampling) => n.main = r.main
<1> DEFINE S == lost \cap DOMAIN r.sources
<1>1. IsFiniteSet(S)
  BY MergeReceiverAssumption, FS_Subset DEF IsReceiver
<1>2. PICK f : /\ Runs(f, "lost", r, S)
               /\ FoldSet(LAMBDA h, rest : WithoutSource(rest, h), r, S) = f[S]
  BY <1>1, LostRuns
<1>3. merge_receiver_sources_lost(r, lost) = f[S]
  BY <1>2 DEF merge_receiver_sources_lost
<1> DEFINE Is(s, n) == /\ IsReceiver(n) /\ Only(r, n, s)
                       /\ DOMAIN n.sources = DOMAIN r.sources \ s
                       /\ (\A h \in s : r.sources[h].sampling) => n.main = r.main
           Holds == {s \in SUBSET S : Is(s, f[s])}
<1>4. f[{}] = r
  BY <1>2 DEF Runs
<1>5. {} \in Holds
  BY <1>4 DEF Only, SameBut
<1>6. ASSUME NEW s \in SUBSET S, s # {}, s \ {Picked(s)} \in Holds PROVE s \in Holds
  <2> DEFINE h == Picked(s)
             u == s \ {h}
             w == f[u]
  <2>1. h \in s /\ h \notin u /\ s = u \cup {h} /\ Is(u, w)
    BY <1>6 DEF Picked
  <2>2. f[s] = WithoutSource(w, h)
    BY <1>2, <1>6 DEF Runs, Round
  <2> HIDE DEF h, u, w
  <2>3. h \in DOMAIN w.sources /\ w.sources[h] = r.sources[h]
    BY <2>1 DEF Only, SameBut
  <2> DEFINE n == f[s]
  <2>4. /\ IsReceiver(n) /\ Only(w, n, {h})
        /\ DOMAIN n.sources = DOMAIN w.sources \ {h}
        /\ r.sources[h].sampling => n.main = w.main
    <3>1. IsReceiver(w)
      BY <2>1
    <3> QED
      BY ONLY <2>2, <2>3, <3>1, WithoutSourceIs
  <2> HIDE DEF n
  <2>5. Only(r, n, s)
    BY <2>1, <2>4 DEF Only, SameBut
  <2>6. Is(s, n)
    BY <2>1, <2>4, <2>5
  <2> QED
    BY <2>6 DEF n
<1> HIDE DEF Is
<1>7. S \in Holds
  <2>1. Holds \in SUBSET SUBSET S
    OBVIOUS
  <2> HIDE DEF Holds, S
  <2> QED
    BY <1>1, <1>5, <1>6, <2>1, BySubsets
<1>8. Is(S, f[S])
  BY <1>7
<1>9. DOMAIN r.sources \ S = DOMAIN r.sources \ lost
  OBVIOUS
<1> QED
  BY <1>3, <1>8, <1>9 DEF Is

(* The first values of a buffer.                                            *)
LEMMA FirstValues ==
    ASSUME NEW values \in [1 .. MaxSlots -> Nat], NEW count \in 0 .. MaxSlots
    PROVE  LET first == SubSeq(values, 1, count) IN
           /\ first \in Seq(Nat) /\ Len(first) = count
           /\ \A slot \in 1 .. count : first[slot] = values[slot]
<1>1. values \in Seq(Nat) /\ Len(values) = MaxSlots
  BY MergeReceiverAssumption
<1> QED
  BY <1>1, MergeReceiverAssumption

(* A source counts in a merger as it did in another.                        *)
CountsAs(source, copy) ==
    /\ SameIn(source, copy)
    /\ copy.using_universe_priority = source.using_universe_priority

(* What the main merger becomes.                                            *)
MainWith(r, h) ==
    LET source == r.samp.sources[h]
        upto(values) == SubSeq(values, 1, source.valid_level_count)
        there == WithLevels(Added(r.main, h), h, upto(source.levels),
                            source.universe_priority) IN
    IF source.using_universe_priority THEN there
    ELSE WithPaps(there, h, upto(source.address_priority))

(* A source is added to the main merger as the sampling one has it: it      *)
(* counts there as it did, if there is room.                                *)
LEMMA MainWithIs ==
    ASSUME NEW r, IsReceiver(r), NEW h \in DOMAIN r.samp.sources
    PROVE  LET n == MainWith(r, h) IN
           /\ Good(n) /\ SameBut(r.main.sources, n.sources, {h})
           /\ Cardinality(DOMAIN r.main.sources) < MaxSources =>
                h \in DOMAIN n.sources /\ CountsAs(r.samp.sources[h], n.sources[h])
<1> DEFINE source == r.samp.sources[h]
           count == source.valid_level_count
           levels == SubSeq(source.levels, 1, count)
           paps == SubSeq(source.address_priority, 1, count)
           priority == source.universe_priority
           added == Added(r.main, h)
           there == WithLevels(added, h, levels, priority)
           n == MainWith(r, h)
<1>1. Good(r.main) /\ Good(r.samp)
  BY DEF IsReceiver
<1>2. source \in Calls!Source /\ Right(source)
  BY <1>1, GoodFields DEF Good
<1>3. h \in Handles /\ h \notin DOMAIN r.main.sources
  <2>1. \A x \in DOMAIN r.samp.sources : r.sources[x].sampling = TRUE
    BY DEF IsReceiver, Placed, TheMerger
  <2>2. \A x \in DOMAIN r.main.sources : r.sources[x].sampling = FALSE
    BY DEF IsReceiver, Placed, TheMerger
  <2> QED
    BY <1>1, <2>1, <2>2, GoodFields
<1>4. n = IF source.using_universe_priority THEN there ELSE WithPaps(there, h, paps)
  BY DEF MainWith
<1>5. /\ Good(added)
      /\ added = r.main \/ DOMAIN added.sources = DOMAIN r.main.sources \cup {h}
      /\ \A x \in DOMAIN r.main.sources : /\ x \in DOMAIN added.sources
                                          /\ added.sources[x] = r.main.sources[x]
      /\ Cardinality(DOMAIN r.main.sources) < MaxSources =>
            h \in DOMAIN added.sources /\ added.sources[h] = Merger!NewSource
      /\ h \in DOMAIN added.sources => added.sources[h] = Merger!NewSource
  BY <1>1, <1>3, AddedGood
<1>6. SameBut(r.main.sources, added.sources, {h})
  BY <1>5 DEF SameBut
<1>7. /\ source.levels \in [1 .. MaxSlots -> Nat] /\ count \in 0 .. MaxSlots
      /\ source.address_priority \in [1 .. MaxSlots -> Nat] /\ priority \in Nat
      /\ source.using_universe_priority \in BOOLEAN
  BY <1>2, DataSame DEF Calls!Source
<1>8. /\ levels \in Seq(Nat) /\ Len(levels) = count
      /\ \A slot \in 1 .. count : levels[slot] = source.levels[slot]
      /\ paps \in Seq(Nat) /\ Len(paps) = count
      /\ \A slot \in 1 .. count : paps[slot] = source.address_priority[slot]
  BY <1>7, FirstValues
<1> HIDE DEF levels, paps, added, priority, n
<1>9. CASE h \notin DOMAIN added.sources
  <2>1. there = added
    BY <1>9 DEF WithLevels, In
  <2>2. WithPaps(added, h, paps) = added
    BY <1>9 DEF WithPaps, In
  <2>3. n = added
    BY <1>4, <2>1, <2>2
  <2> QED
    BY <1>5, <1>6, <1>9, <2>3 DEF n
<1>10. CASE h \in DOMAIN added.sources
  <2> DEFINE now == there.sources[h]
  <2>1. /\ Good(there) /\ Becomes(added, there, h, now)
        /\ now.levels = Padded(levels) /\ now.valid_level_count = count
        /\ now.universe_priority = priority
        /\ now.using_universe_priority = TRUE
        /\ now.address_priority = AllAt(priority)
    <3>1. added.sources[h].using_universe_priority = TRUE
      BY <1>5, <1>10 DEF Merger!NewSource
    <3> QED
      BY <1>5, <1>7, <1>8, <1>10, <3>1, WithLevelsGood
  <2> HIDE DEF there
  <2>2. Padded(levels) = source.levels
    <3>1. \A slot \in 1 .. MaxSlots : Padded(levels)[slot] = source.levels[slot]
      BY <1>2, <1>7, <1>8 DEF Padded, Right
    <3>2. DOMAIN Padded(levels) = 1 .. MaxSlots
      BY DEF Padded
    <3>3. Padded(levels) = [slot \in 1 .. MaxSlots |-> Padded(levels)[slot]]
      BY DEF Padded
    <3> QED
      BY <1>7, <3>1, <3>3
  <2>3. /\ SameBut(r.main.sources, there.sources, {h}) /\ h \in DOMAIN there.sources
    BY <1>6, <1>10, <2>1 DEF Becomes, SameBut
  <2>4. CASE source.using_universe_priority
    <3>1. n = there
      BY <1>4, <2>4
    <3>2. \A slot \in 1 .. MaxSlots :
             Merger!SourcePap(now, slot) = Merger!SourcePap(source, slot)
      <4> SUFFICES ASSUME NEW slot \in 1 .. MaxSlots
                   PROVE  Merger!SourcePap(now, slot) = Merger!SourcePap(source, slot)
        OBVIOUS
      <4>1. CASE slot > count
        BY <2>1, <4>1, <1>7 DEF Merger!SourcePap
      <4>2. CASE slot <= count
        <5>1. source.address_priority = AllAt(priority)
          BY <1>2, <1>7, <2>4, <4>2 DEF Right, AllAt, priority
        <5> HIDE DEF source, now
        <5> QED
          BY <2>1, <4>2, <5>1 DEF Merger!SourcePap
      <4> QED
        BY <1>7, <4>1, <4>2
    <3>3. CountsAs(source, now)
      BY <2>1, <2>2, <2>4, <3>2 DEF CountsAs, SameIn, priority
    <3> QED
      BY <2>1, <2>3, <3>1, <3>3 DEF n
  <2>5. CASE ~source.using_universe_priority
    <3> DEFINE last == n.sources[h]
    <3>1. n = WithPaps(there, h, paps)
      BY <1>4, <2>5
    <3>2. /\ Good(n) /\ Becomes(there, n, h, last)
          /\ last.levels = now.levels /\ last.valid_level_count = count
          /\ last.universe_priority = priority
          /\ last.using_universe_priority = FALSE
          /\ \A slot \in 1 .. count : last.address_priority[slot] = paps[slot]
      <4>1. paps \in Seq(Nat) /\ Len(paps) \in 0 .. MaxSlots
        BY <1>7, <1>8
      <4>2. LET called == WithPaps(there, h, paps)
                first == there.sources[h]
                then == called.sources[h] IN
            /\ Good(called) /\ Becomes(there, called, h, then)
            /\ then.levels = first.levels /\ then.valid_level_count = first.valid_level_count
            /\ then.universe_priority = first.universe_priority
            /\ then.using_universe_priority = FALSE
            /\ \A slot \in 1 .. Len(paps) : then.address_priority[slot] = paps[slot]
        <5>1. Good(there) /\ h \in DOMAIN there.sources
          BY <2>1, <2>3
        <5>2. paps \in Seq(Nat)
          BY <4>1
        <5>3. Len(paps) \in 0 .. MaxSlots
          BY <4>1
        <5>4. Good(there)
          BY <5>1
        <5>5. h \in DOMAIN there.sources
          BY <5>1
        <5> HIDE DEF there, paps
        <5> QED
          BY ONLY <5>2, <5>3, <5>4, <5>5, WithPapsGood, ZenonT(60)
      <4> HIDE DEF count, source
      <4> QED
        BY <1>8, <2>1, <3>1, <4>2
    <3>3. \A slot \in 1 .. MaxSlots :
             Merger!SourcePap(last, slot) = Merger!SourcePap(source, slot)
      <4> HIDE DEF last, source
      <4> QED
        BY <1>7, <1>8, <3>2 DEF Merger!SourcePap
    <3>4. CountsAs(source, last)
      BY <1>7, <2>1, <2>2, <2>5, <3>2, <3>3 DEF CountsAs, SameIn, priority
    <3>5. SameBut(r.main.sources, n.sources, {h}) /\ h \in DOMAIN n.sources
      BY <2>3, <3>2 DEF Becomes, SameBut
    <3> QED
      BY <3>2, <3>4, <3>5 DEF n
  <2> QED
    BY <1>7, <2>4, <2>5
<1> QED
  BY <1>9, <1>10

SetAll(r, sources, main, samp) ==
    [r EXCEPT !.sources = sources, !.main = main, !.samp = samp]

(* All that moves sources from one merger to the other.                     *)
LEMMA AllSet ==
    ASSUME NEW r, Fields(r), NEW sources, NEW main, NEW samp
    PROVE  LET n == SetAll(r, sources, main, samp) IN
           /\ Fields(n) /\ n.use_pap = r.use_pap /\ n.sampling = r.sampling
           /\ n.sources = sources /\ n.main = main /\ n.samp = samp
<1> DEFINE first == [r EXCEPT !.sources = sources]
           second == [first EXCEPT !.main = main]
           n == [second EXCEPT !.samp = samp]
<1>1. /\ Fields(first) /\ first.use_pap = r.use_pap /\ first.sampling = r.sampling
      /\ first.sources = sources /\ first.main = r.main /\ first.samp = r.samp
  BY SourcesSet
<1> HIDE DEF first
<1>2. /\ Fields(second) /\ second.use_pap = r.use_pap /\ second.sampling = r.sampling
      /\ second.sources = sources /\ second.main = main /\ second.samp = r.samp
  BY <1>1 DEF Fields
<1> HIDE DEF second
<1>3. /\ Fields(n) /\ n.use_pap = r.use_pap /\ n.sampling = r.sampling
      /\ n.sources = sources /\ n.main = main /\ n.samp = samp
  BY <1>2 DEF Fields
<1> HIDE DEF n
<1>4. SetAll(r, sources, main, samp) = n
  BY DEF SetAll, n, second, first
<1> QED
  BY <1>3, <1>4

SetSampling(r, sampling) == [r EXCEPT !.sampling = sampling]

(* Whether there is a sampling period is set, the rest stays.               *)
LEMMA SamplingSet ==
    ASSUME NEW r, Fields(r), NEW sampling
    PROVE  LET n == SetSampling(r, sampling) IN
           /\ Fields(n) /\ n.use_pap = r.use_pap /\ n.sampling = sampling
           /\ n.sources = r.sources /\ n.main = r.main /\ n.samp = r.samp
  BY DEF Fields, SetSampling

EndPeriod(r, sources) == [r EXCEPT !.sampling = FALSE, !.sources = sources]

(* What merge_receiver_sampling_ended does after its loop.                  *)
LEMMA PeriodEnded ==
    ASSUME NEW r, Fields(r), NEW sources
    PROVE  LET n == EndPeriod(r, sources) IN
           /\ Fields(n) /\ n.use_pap = r.use_pap /\ n.sampling = FALSE
           /\ n.sources = sources /\ n.main = r.main /\ n.samp = r.samp
<1> DEFINE first == SetSampling(r, FALSE)
           n == [first EXCEPT !.sources = sources]
<1>1. /\ Fields(first) /\ first.use_pap = r.use_pap /\ first.sampling = FALSE
      /\ first.sources = r.sources /\ first.main = r.main /\ first.samp = r.samp
  BY SamplingSet
<1> HIDE DEF first
<1>2. /\ Fields(n) /\ n.use_pap = r.use_pap /\ n.sampling = FALSE
      /\ n.sources = sources /\ n.main = r.main /\ n.samp = r.samp
  BY <1>1, SourcesSet
<1> HIDE DEF n
<1>3. EndPeriod(r, sources) = n
  BY DEF EndPeriod, SetSampling, n, first
<1> QED
  BY <1>2, <1>3

NotSampling(info) == [info EXCEPT !.sampling = FALSE]

(* One round of merge_receiver_sampling_ended.                              *)
LEMMA TransferredIs ==
    ASSUME NEW r, IsReceiver(r), NEW h \in DOMAIN r.samp.sources
    PROVE  LET n == Transferred(r, h) IN
           /\ IsReceiver(n) /\ Only(r, n, {h})
           /\ DOMAIN n.sources = DOMAIN r.sources
           /\ n.sources[h] = NotSampling(r.sources[h])
           /\ DOMAIN n.samp.sources = DOMAIN r.samp.sources \ {h}
           /\ Cardinality(DOMAIN r.main.sources) < MaxSources =>
                h \in DOMAIN n.main.sources /\ CountsAs(r.samp.sources[h], n.main.sources[h])
<1> DEFINE info == NotSampling(r.sources[h])
           sources == [r.sources EXCEPT ![h] = info]
           main == MainWith(r, h)
           samp == Removed(r.samp, h)
           n == SetAll(r, sources, main, samp)
<1>1. Transferred(r, h) = n
  BY DEF SetAll, Transferred, MainWith, Removed, In, NotSampling
<1>2. h \in DOMAIN r.sources /\ r.sources[h].sampling = TRUE
  BY DEF IsReceiver, Placed, TheMerger
<1>3. info \in Source /\ info.sampling = FALSE
  <2>1. r.sources[h] \in Source
    BY <1>2 DEF IsReceiver
  <2> QED
    BY <2>1 DEF Source, NotSampling
<1>4. /\ DOMAIN sources = DOMAIN r.sources /\ sources \in [DOMAIN sources -> Source]
      /\ sources[h] = info
      /\ \A x \in DOMAIN r.sources \ {h} : sources[x] = r.sources[x]
  BY <1>2, <1>3 DEF IsReceiver
<1>5. /\ Good(main) /\ SameBut(r.main.sources, main.sources, {h})
      /\ Cardinality(DOMAIN r.main.sources) < MaxSources =>
           h \in DOMAIN main.sources /\ CountsAs(r.samp.sources[h], main.sources[h])
  BY MainWithIs
<1>6. Good(samp) /\ samp.sources = [x \in DOMAIN r.samp.sources \ {h} |-> r.samp.sources[x]]
  BY RemovedGood DEF IsReceiver
<1>7. Fields(r)
  BY DEF IsReceiver
<1> HIDE DEF info, sources, main, samp
<1>8. /\ Fields(n) /\ n.use_pap = r.use_pap /\ n.sampling = r.sampling
      /\ n.sources = sources /\ n.main = main /\ n.samp = samp
  BY <1>7, AllSet
<1> HIDE DEF n
<1>9. Placed(n)
  <2>1. \A x \in DOMAIN n.samp.sources : x \in DOMAIN r.samp.sources /\ x # h
    BY <1>6, <1>8
  <2>2. \A x \in DOMAIN n.main.sources : x = h \/ x \in DOMAIN r.main.sources
    BY <1>5, <1>8 DEF SameBut
  <2>3. \A x \in DOMAIN r.sources : /\ x \in DOMAIN n.sources
                                    /\ n.sources[x] = IF x = h THEN info ELSE r.sources[x]
    BY <1>4, <1>8
  <2> QED
    BY <1>2, <1>3, <2>1, <2>2, <2>3 DEF IsReceiver, Placed, TheMerger
<1>10. IsReceiver(n)
  BY <1>4, <1>5, <1>6, <1>8, <1>9 DEF IsReceiver
<1>11. Only(r, n, {h})
  BY <1>4, <1>5, <1>6, <1>8 DEF Only, SameBut
<1> QED
  BY <1>1, <1>4, <1>5, <1>6, <1>8, <1>10, <1>11 DEF info

(* merge_receiver_sampling_ended.                                           *)
LEMMA SamplingEndedIs ==
    ASSUME NEW r, IsReceiver(r)
    PROVE  LET n == merge_receiver_sampling_ended(r)
               moved == DOMAIN r.samp.sources IN
           /\ IsReceiver(n) /\ n.use_pap = r.use_pap
           /\ DOMAIN n.sources = DOMAIN r.sources
           /\ \A h \in DOMAIN r.sources : n.sources[h] = NotSampling(r.sources[h])
           /\ DOMAIN n.samp.sources = {}
           /\ SameBut(r.main.sources, n.main.sources, moved)
           /\ moved = {} => n.main = r.main
           /\ Cardinality(DOMAIN r.main.sources \cup moved) <= MaxSources =>
                \A h \in moved : h \in DOMAIN n.main.sources
                                 /\ CountsAs(r.samp.sources[h], n.main.sources[h])
<1> DEFINE S == DOMAIN r.samp.sources
           room == Cardinality(DOMAIN r.main.sources \cup S) <= MaxSources
<1>1. IsFiniteSet(S) /\ IsFiniteSet(DOMAIN r.main.sources)
  BY GoodFields DEF IsReceiver
<1>2. PICK f : /\ Runs(f, "moved", r, S)
               /\ FoldSet(LAMBDA h, rest : Transferred(rest, h), r, S) = f[S]
  BY <1>1, MovedRuns
<1> DEFINE ended == f[S]
           sources == [h \in DOMAIN ended.sources |-> NotSampling(ended.sources[h])]
           n == EndPeriod(ended, sources)
<1>3. merge_receiver_sampling_ended(r) = n
  <2>1. {h \in DOMAIN r.sources : r.sources[h].sampling} \cap DOMAIN r.samp.sources = S
    BY DEF IsReceiver, Placed, TheMerger
  <2> QED
    BY <1>2, <2>1 DEF merge_receiver_sampling_ended, NotSampling, EndPeriod
<1> DEFINE Is(s, w) ==
             /\ IsReceiver(w) /\ Only(r, w, s) /\ DOMAIN w.sources = DOMAIN r.sources
             /\ \A h \in s : w.sources[h] = NotSampling(r.sources[h])
             /\ DOMAIN w.samp.sources = S \ s
             /\ s = {} => w = r
             /\ room => \A h \in s : h \in DOMAIN w.main.sources
                                      /\ CountsAs(r.samp.sources[h], w.main.sources[h])
           Holds == {s \in SUBSET S : Is(s, f[s])}
<1>4. f[{}] = r
  BY <1>2 DEF Runs
<1>5. {} \in Holds
  BY <1>4 DEF Only, SameBut
<1>6. ASSUME NEW s \in SUBSET S, s # {}, s \ {Picked(s)} \in Holds PROVE s \in Holds
  <2> DEFINE h == Picked(s)
             u == s \ {h}
             w == f[u]
  <2>1. h \in s /\ h \notin u /\ s = u \cup {h} /\ Is(u, w)
    BY <1>6 DEF Picked
  <2>2. f[s] = Transferred(w, h)
    BY <1>2, <1>6 DEF Runs, Round
  <2> HIDE DEF h, u, w
  <2>3. /\ h \in DOMAIN w.samp.sources /\ w.samp.sources[h] = r.samp.sources[h]
        /\ h \in DOMAIN r.sources => w.sources[h] = r.sources[h]
    BY <2>1 DEF Only, SameBut
  <2>4. h \in DOMAIN r.sources /\ h \notin DOMAIN r.main.sources
    BY <2>1 DEF IsReceiver, Placed, TheMerger
  <2> DEFINE after == f[s]
  <2>5. /\ IsReceiver(after) /\ Only(w, after, {h})
        /\ DOMAIN after.sources = DOMAIN w.sources
        /\ after.sources[h] = NotSampling(r.sources[h])
        /\ DOMAIN after.samp.sources = DOMAIN w.samp.sources \ {h}
        /\ Cardinality(DOMAIN w.main.sources) < MaxSources =>
             h \in DOMAIN after.main.sources
             /\ CountsAs(r.samp.sources[h], after.main.sources[h])
    <3> HIDE DEF after
    <3>1. LET last == Transferred(w, h) IN
          /\ IsReceiver(last) /\ Only(w, last, {h})
          /\ DOMAIN last.sources = DOMAIN w.sources
          /\ last.sources[h] = NotSampling(w.sources[h])
          /\ DOMAIN last.samp.sources = DOMAIN w.samp.sources \ {h}
          /\ Cardinality(DOMAIN w.main.sources) < MaxSources =>
               h \in DOMAIN last.main.sources
               /\ CountsAs(w.samp.sources[h], last.main.sources[h])
      <4>1. IsReceiver(w)
        BY <2>1
      <4> QED
        BY <2>3, <4>1, TransferredIs
    <3>2. after = Transferred(w, h)
      BY <2>2 DEF after
    <3> QED
      BY <2>3, <2>4, <3>1, <3>2
  <2> HIDE DEF after
  <2>6. Only(r, after, s)
    BY <2>1, <2>5 DEF Only, SameBut
  <2>7. room => Cardinality(DOMAIN w.main.sources) < MaxSources
    <3> DEFINE all == DOMAIN r.main.sources \cup S
    <3>1. IsFiniteSet(all) /\ Cardinality(all) \in Nat
      BY <1>1, FS_Union, FS_CardinalityType
    <3>2. DOMAIN w.main.sources \subseteq all \ {h}
      <4>1. h \notin DOMAIN w.main.sources
        BY <2>1, <2>3 DEF IsReceiver, Placed, TheMerger
      <4>2. \A x \in DOMAIN w.main.sources : x \in all
        BY <2>1 DEF Only, SameBut
      <4> QED
        BY <4>1, <4>2
    <3>3. h \in all
      BY <2>1
    <3> HIDE DEF all
    <3>4. Cardinality(all \ {h}) = Cardinality(all) - 1 /\ IsFiniteSet(all \ {h})
      BY <3>1, <3>3, FS_RemoveElement
    <3>5. Cardinality(DOMAIN w.main.sources) <= Cardinality(all) - 1
          /\ Cardinality(DOMAIN w.main.sources) \in Nat
      BY <3>2, <3>4, FS_Subset, FS_CardinalityType
    <3>6. room => Cardinality(all) <= MaxSources
      BY DEF all
    <3> QED
      BY <3>1, <3>5, <3>6, ApiAssumption
  <2>8. Is(s, after)
    <3>1. \A x \in s : after.sources[x] = NotSampling(r.sources[x])
      <4> SUFFICES ASSUME NEW x \in s PROVE after.sources[x] = NotSampling(r.sources[x])
        OBVIOUS
      <4>1. CASE x = h
        BY <2>5, <4>1
      <4>2. CASE x # h
        <5>1. x \in DOMAIN r.sources
          BY <1>6 DEF IsReceiver, Placed, TheMerger
        <5>2. x \in DOMAIN w.sources /\ w.sources[x] = NotSampling(r.sources[x])
          BY <2>1, <4>2, <5>1
        <5> QED
          BY <2>5, <4>2, <5>2 DEF Only, SameBut
      <4> QED
        BY <4>1, <4>2
    <3>2. ASSUME room, NEW x \in s
          PROVE  x \in DOMAIN after.main.sources
                 /\ CountsAs(r.samp.sources[x], after.main.sources[x])
      <4>1. CASE x = h
        BY <2>5, <2>7, <3>2, <4>1
      <4>2. CASE x # h
        <5>1. x \in DOMAIN w.main.sources /\ CountsAs(r.samp.sources[x], w.main.sources[x])
          BY <2>1, <3>2, <4>2
        <5>2. x \in DOMAIN after.main.sources /\ after.main.sources[x] = w.main.sources[x]
          BY <2>5, <4>2, <5>1 DEF Only, SameBut
        <5> QED
          BY <5>1, <5>2
      <4> QED
        BY <4>1, <4>2
    <3>3. DOMAIN after.samp.sources = S \ s
      BY <2>1, <2>5
    <3> HIDE DEF room, S
    <3> QED
      BY <1>6, <2>1, <2>5, <2>6, <3>1, <3>2, <3>3
  <2> QED
    BY <2>8 DEF after
<1> HIDE DEF Is
<1>7. S \in Holds
  <2>1. Holds \in SUBSET SUBSET S
    OBVIOUS
  <2> HIDE DEF Holds, S
  <2> QED
    BY <1>1, <1>5, <1>6, <2>1, BySubsets
<1>8. Is(S, ended)
  BY <1>7
<1> HIDE DEF ended
<1>9. IsReceiver(ended) /\ DOMAIN ended.samp.sources = {}
  BY <1>8 DEF Is
<1>10. \A h \in DOMAIN r.sources : sources[h] = NotSampling(r.sources[h])
  <2> SUFFICES ASSUME NEW h \in DOMAIN r.sources PROVE sources[h] = NotSampling(r.sources[h])
    OBVIOUS
  <2>1. h \in DOMAIN ended.sources /\ sources[h] = NotSampling(ended.sources[h])
    BY <1>8 DEF Is
  <2>2. CASE h \notin S
    <3>1. ended.sources[h] = r.sources[h]
      BY <1>8, <2>2 DEF Is, Only, SameBut
    <3> QED
      BY <2>1, <3>1
  <2>3. CASE h \in S
    <3>1. ended.sources[h] = NotSampling(r.sources[h])
      BY <1>8, <2>3 DEF Is
    <3>2. NotSampling(NotSampling(r.sources[h])) = NotSampling(r.sources[h])
      BY DEF NotSampling
    <3> QED
      BY <2>1, <3>1, <3>2
  <2> QED
    BY <2>2, <2>3
<1>11. sources \in [DOMAIN ended.sources -> Source]
  <2>1. \A info \in Source : NotSampling(info) \in Source
    BY DEF NotSampling, Source
  <2> QED
    BY <1>9, <2>1 DEF IsReceiver
<1>12. DOMAIN sources = DOMAIN r.sources /\ DOMAIN ended.sources = DOMAIN r.sources
  BY <1>8 DEF Is
<1>13. \A h \in DOMAIN r.sources : sources[h].sampling = FALSE
  <2>1. \A info \in Source : NotSampling(info).sampling = FALSE
    BY DEF NotSampling, Source
  <2> QED
    BY <1>10, <2>1 DEF IsReceiver
<1> HIDE DEF sources
<1>14. /\ Fields(n) /\ n.use_pap = ended.use_pap /\ n.sampling = FALSE
       /\ n.sources = sources /\ n.main = ended.main /\ n.samp = ended.samp
  <2>1. Fields(ended)
    BY <1>9 DEF IsReceiver
  <2> QED
    BY <2>1, PeriodEnded
<1> HIDE DEF n
<1>15. Placed(n)
  BY <1>9, <1>12, <1>13, <1>14 DEF IsReceiver, Placed, TheMerger
<1>16. IsReceiver(n)
  BY <1>9, <1>11, <1>12, <1>14, <1>15 DEF IsReceiver
<1>17. n.use_pap = r.use_pap /\ SameBut(r.main.sources, n.main.sources, S)
  BY <1>8, <1>14 DEF Is, Only
<1> QED
  BY <1>3, <1>8, <1>9, <1>10, <1>12, <1>14, <1>16, <1>17 DEF Is

(* Whether there is a sampling period is nothing to the mergers.            *)
LEMMA SamplingSetIs ==
    ASSUME NEW r, IsReceiver(r), NEW sampling \in BOOLEAN
    PROVE  LET n == SetSampling(r, sampling) IN
           /\ IsReceiver(n) /\ n.use_pap = r.use_pap
           /\ n.sources = r.sources /\ n.main = r.main /\ n.samp = r.samp
<1> DEFINE n == SetSampling(r, sampling)
<1>1. Fields(r)
  BY DEF IsReceiver
<1>2. /\ Fields(n) /\ n.use_pap = r.use_pap /\ n.sampling = sampling
      /\ n.sources = r.sources /\ n.main = r.main /\ n.samp = r.samp
  BY <1>1, SamplingSet
<1> HIDE DEF n
<1>3. n.sampling \in BOOLEAN
  BY <1>2
<1>4. IsReceiver(n)
  BY <1>2, <1>3 DEF IsReceiver, Placed, TheMerger
<1> QED
  BY <1>2, <1>4 DEF n

(* One loop of sacn_merge_receiver_change_universe.                         *)
LEMMA RemovedAllIs ==
    ASSUME NEW m, Good(m), NEW S, IsFiniteSet(S)
    PROVE  LET n == FoldSet(LAMBDA h, rest : Removed(rest, h), m, S) IN
           Good(n) /\ DOMAIN n.sources = DOMAIN m.sources \ S
<1>1. PICK f : /\ Runs(f, "removed", m, S)
               /\ FoldSet(LAMBDA h, rest : Removed(rest, h), m, S) = f[S]
  BY RemovedRuns
<1> DEFINE Is(s, n) == Good(n) /\ DOMAIN n.sources = DOMAIN m.sources \ s
           Holds == {s \in SUBSET S : Is(s, f[s])}
<1>2. {} \in Holds
  <2>1. f[{}] = m
    BY <1>1 DEF Runs
  <2> QED
    BY <2>1
<1>3. ASSUME NEW s \in SUBSET S, s # {}, s \ {Picked(s)} \in Holds PROVE s \in Holds
  <2> DEFINE h == Picked(s)
             u == s \ {h}
             w == f[u]
  <2>1. s = u \cup {h} /\ Is(u, w)
    BY <1>3 DEF Picked
  <2>2. f[s] = Removed(w, h)
    BY <1>1, <1>3 DEF Runs, Round
  <2> HIDE DEF h, u, w
  <2>3. /\ Good(Removed(w, h))
        /\ Removed(w, h).sources = [x \in DOMAIN w.sources \ {h} |-> w.sources[x]]
    BY <2>1, RemovedGood
  <2>4. Is(s, Removed(w, h))
    BY <2>1, <2>3
  <2> QED
    BY <2>2, <2>4
<1> HIDE DEF Is
<1>4. S \in Holds
  <2>1. Holds \in SUBSET SUBSET S
    OBVIOUS
  <2> HIDE DEF Holds
  <2> QED
    BY <1>2, <1>3, <2>1, BySubsets
<1> QED
  BY <1>1, <1>4 DEF Is

(* sacn_merge_receiver_change_universe.                                     *)
LEMMA UniverseChangedIs ==
    ASSUME NEW r, IsReceiver(r)
    PROVE  LET changed == UniverseChanged(r) IN
           /\ IsReceiver(changed.merge) /\ changed.complete \in BOOLEAN
           /\ changed.complete => DOMAIN changed.merge.sources = {}
<1> DEFINE lost == DOMAIN r.sources \ (DOMAIN r.main.sources \cup DOMAIN r.samp.sources)
           taken == {h \in DOMAIN r.sources : \A x \in lost : h < x}
           main == FoldSet(LAMBDA h, rest : Removed(rest, h), r.main, taken)
           samp == FoldSet(LAMBDA h, rest : Removed(rest, h), r.samp,
                           taken \ DOMAIN r.main.sources)
           none == [h \in {} |-> None]
           sources == IF lost = {} THEN none ELSE r.sources
           n == SetAll(r, sources, main, samp)
<1>1. Fields(r) /\ Good(r.main) /\ Good(r.samp)
  BY DEF IsReceiver
<1>2. IsFiniteSet(taken) /\ IsFiniteSet(taken \ DOMAIN r.main.sources)
  BY MergeReceiverAssumption, FS_Subset DEF IsReceiver
<1>3. Good(main) /\ DOMAIN main.sources = DOMAIN r.main.sources \ taken
  <2> HIDE DEF taken
  <2> QED
    BY <1>1, <1>2, RemovedAllIs
<1>4. /\ Good(samp)
      /\ DOMAIN samp.sources = DOMAIN r.samp.sources \ (taken \ DOMAIN r.main.sources)
  <2> HIDE DEF taken
  <2> QED
    BY <1>1, <1>2, RemovedAllIs
<1>5. UniverseChanged(r).merge = n /\ UniverseChanged(r).complete = (lost = {})
  <2> DEFINE rest == [r EXCEPT !.main = main, !.samp = samp]
  <2>1. UniverseChanged(r) = [complete |-> lost = {},
            merge |-> IF lost = {} THEN [rest EXCEPT !.sources = none] ELSE rest]
    BY DEF UniverseChanged
  <2> HIDE DEF main, samp, lost
  <2> DEFINE first == [r EXCEPT !.main = main]
  <2>2. /\ Fields(first) /\ first.use_pap = r.use_pap /\ first.sampling = r.sampling
        /\ first.sources = r.sources /\ first.main = main /\ first.samp = r.samp
    BY <1>1 DEF Fields
  <2> HIDE DEF first
  <2> DEFINE second == [first EXCEPT !.samp = samp]
  <2>3. /\ Fields(second) /\ second.use_pap = r.use_pap /\ second.sampling = r.sampling
        /\ second.sources = r.sources /\ second.main = main /\ second.samp = samp
    BY <2>2 DEF Fields
  <2>4. rest = second
    BY DEF first
  <2> HIDE DEF second, rest
  <2>5. [rest EXCEPT !.sources = none] = SetAll(r, none, main, samp)
    <3> HIDE DEF none
    <3> DEFINE third == [rest EXCEPT !.sources = none]
    <3>1. /\ Fields(third) /\ third.use_pap = r.use_pap /\ third.sampling = r.sampling
          /\ third.sources = none /\ third.main = main /\ third.samp = samp
      BY <2>3, <2>4, SourcesSet
    <3> HIDE DEF third
    <3>2. third = SetAll(r, none, main, samp)
      BY <1>1, <3>1, AllSet DEF Fields
    <3> QED
      BY <3>2 DEF third
  <2>6. rest = SetAll(r, r.sources, main, samp)
    BY <1>1, <2>3, <2>4, AllSet DEF Fields
  <2> QED
    BY <2>1, <2>5, <2>6
<1> HIDE DEF main, samp, sources
<1>6. /\ Fields(n) /\ n.use_pap = r.use_pap /\ n.sampling = r.sampling
      /\ n.sources = sources /\ n.main = main /\ n.samp = samp
  BY <1>1, AllSet
<1> HIDE DEF n
<1>7. CASE lost = {}
  <2>1. sources = none /\ DOMAIN none = {}
    BY <1>7 DEF sources
  <2>2. taken = DOMAIN r.sources
    BY <1>7
  <2>3. DOMAIN main.sources = {} /\ DOMAIN samp.sources = {}
    <3>1. DOMAIN r.main.sources \subseteq DOMAIN r.sources
      BY DEF IsReceiver, Placed, TheMerger
    <3>2. DOMAIN r.samp.sources \subseteq DOMAIN r.sources \ DOMAIN r.main.sources
      BY DEF IsReceiver, Placed, TheMerger
    <3> HIDE DEF taken
    <3> QED
      BY <1>3, <1>4, <2>2, <3>1, <3>2
  <2>4. Placed(n)
    BY <1>6, <2>3 DEF Placed, TheMerger
  <2>5. IsReceiver(n)
    BY <1>3, <1>4, <1>6, <2>1, <2>4 DEF IsReceiver
  <2> QED
    BY <1>5, <1>6, <2>1, <2>5
<1>8. CASE lost # {}
  <2>1. sources = r.sources
    BY <1>8 DEF sources
  <2>2. DOMAIN main.sources \subseteq DOMAIN r.main.sources
        /\ DOMAIN samp.sources \subseteq DOMAIN r.samp.sources
    BY <1>3, <1>4
  <2> HIDE DEF lost, taken
  <2>3. Placed(n)
    BY <1>6, <2>1, <2>2 DEF IsReceiver, Placed, TheMerger
  <2>4. IsReceiver(n)
    BY <1>3, <1>4, <1>6, <2>1, <2>3 DEF IsReceiver
  <2> QED
    BY <1>5, <1>8, <2>4
<1> QED
  BY <1>7, <1>8

-----------------------------------------------------------------------------

IsTold(t) ==
    /\ t = [known |-> t.known, pap |-> t.pap, sampled |-> t.sampled, sampling |-> t.sampling]
    /\ t.known \subseteq Handles /\ t.pap \subseteq t.known /\ t.sampled \subseteq t.known
    /\ t.sampling \in BOOLEAN
    /\ Cardinality(t.known) <= MaxSources

AllAgree(r, t, l, a) == \A h \in Handles : SourceAgrees(r, t, l, a, h)

(* The levels of a packet are what its padded buffer starts with.           *)
LEMMA PaddedStarts ==
    ASSUME NEW values \in Seq(Nat), Len(values) \in 0 .. MaxSlots
    PROVE  SubSeq(Padded(values), 1, Len(values)) = values
<1> DEFINE count == Len(values)
           padded == Padded(values)
           first == SubSeq(padded, 1, count)
<1>1. values = [slot \in 1 .. count |-> values[slot]]
  OBVIOUS
<1>2. \A slot \in 1 .. count : values[slot] \in Nat
  OBVIOUS
<1>3. padded \in [1 .. MaxSlots -> Nat] /\ \A slot \in 1 .. count : padded[slot] = values[slot]
  <2>1. \A slot \in 1 .. MaxSlots : slot <= count => slot \in 1 .. count
    BY MergeReceiverAssumption
  <2>2. \A slot \in 1 .. count : slot \in 1 .. MaxSlots /\ slot <= count
    BY MergeReceiverAssumption
  <2> HIDE DEF count
  <2> QED
    BY <1>2, <2>1, <2>2 DEF Padded, count
<1> HIDE DEF padded, count
<1>4. first \in Seq(Nat) /\ Len(first) = count /\ \A slot \in 1 .. count : first[slot] = padded[slot]
  BY <1>3, FirstValues DEF count
<1> HIDE DEF first
<1>5. first = [slot \in 1 .. count |-> first[slot]]
  BY <1>4
<1>6. first = values
  BY <1>1, <1>3, <1>4, <1>5
<1> QED
  BY <1>6 DEF first, padded, count

(* A packet of source h as the receiver tells it: t and l, what it has told *)
(* and the latest levels, become u and k.                                   *)
TellsData(t, u, l, k, h, sampling, kind, values) ==
    /\ kind = "pap" => values # <<>>
    /\ h \in t.known => (sampling <=> h \in t.sampled) \/ h \in Movers
    /\ h \notin t.known => Cardinality(t.known) < MaxSources /\ l[h] = <<>>
    /\ u.known = t.known \cup {h}
    /\ u.sampled = IF sampling THEN t.sampled \cup {h} ELSE t.sampled \ {h}
    /\ u.pap = IF kind = "pap" THEN t.pap \cup {h} ELSE t.pap
    /\ \A x \in Handles : x # h => k[x] = l[x]
    /\ k[h] = IF kind = "dmx" /\ values # <<>> THEN values ELSE l[h]

(* Whether it went astray: a, the sources whose last data did, becomes b;   *)
(* own is the source's flag, and merged whether there is data for a merger. *)
Strays(a, b, h, own, sampling, kind, merged) ==
    /\ \A x \in Handles : x # h => (x \in a.dmx <=> x \in b.dmx) /\ (x \in a.pap <=> x \in b.pap)
    /\ h \in b.dmx <=> IF merged /\ kind = "dmx" THEN own # sampling ELSE h \in a.dmx
    /\ h \in b.pap <=> IF merged /\ kind = "pap" THEN own # sampling ELSE h \in a.pap

(* What is known of every source agrees again.                              *)
LEMMA DataAgrees ==
    ASSUME NEW r, IsReceiver(r), NEW t, IsTold(t), NEW l, NEW a, AllAgree(r, t, l, a),
           NEW h \in Handles, NEW sampling \in BOOLEAN,
           NEW kind \in Kinds, NEW values \in Seq(Nat), Len(values) \in 0 .. MaxSlots,
           NEW priority \in Nat, NEW u, NEW k, NEW b,
           TellsData(t, u, l, k, h, sampling, kind, values), NEW n,
           n = merge_receiver_universe_data(r, h, sampling, kind, values, priority),
           Strays(a, b, h, n.sources[h].sampling, sampling, kind, Merges(r, kind, values))
    PROVE  AllAgree(n, u, k, b)
<1> DEFINE w == WithSource(r, h, sampling)
           own == w.sources[h].sampling
           before == TheMerger(w, own).sources
           after == TheMerger(n, own).sources
           old == before[h]
           now == after[h]
           info == n.sources[h]
           merges == Merges(r, kind, values)
<1>1. IsReceiver(n) /\ PacketDone(r, n, h, sampling, kind, values, priority)
  BY ONLY UniverseDataIs, IsReceiver(r), h \in Handles, sampling \in BOOLEAN,
     kind \in Kinds, n = merge_receiver_universe_data(r, h, sampling, kind, values, priority),
          values \in Seq(Nat), Len(values) \in 0 .. MaxSlots, priority \in Nat
<1>2. /\ Only(r, n, {h})
      /\ DOMAIN n.sources = DOMAIN r.sources \cup {h}
      /\ info = Updated(w.sources[h], kind, priority)
      /\ h \in DOMAIN r.sources => TheMerger(n, ~sampling) = TheMerger(r, ~sampling)
      /\ DOMAIN TheMerger(n, sampling).sources = DOMAIN TheMerger(w, sampling).sources
      /\ h \in DOMAIN TheMerger(w, sampling).sources =>
            LET was == TheMerger(w, sampling).sources[h]
                is == TheMerger(n, sampling).sources[h] IN
            /\ ~merges => is = was
            /\ merges /\ kind = "dmx" =>
                 /\ is.levels = Padded(values) /\ is.valid_level_count = Len(values)
                 /\ is.using_universe_priority = was.using_universe_priority
            /\ merges /\ kind # "dmx" =>
                 /\ is.levels = was.levels /\ is.valid_level_count = was.valid_level_count
                 /\ is.using_universe_priority = FALSE
  BY ONLY <1>1 DEF PacketDone, w, merges, info
<1>3. /\ kind = "pap" => values # <<>>
      /\ h \in t.known => (sampling <=> h \in t.sampled) \/ h \in Movers
      /\ h \notin t.known => Cardinality(t.known) < MaxSources /\ l[h] = <<>>
      /\ u.known = t.known \cup {h}
      /\ u.sampled = IF sampling THEN t.sampled \cup {h} ELSE t.sampled \ {h}
      /\ u.pap = IF kind = "pap" THEN t.pap \cup {h} ELSE t.pap
      /\ \A x \in Handles : x # h => k[x] = l[x]
      /\ k[h] = IF kind = "dmx" /\ values # <<>> THEN values ELSE l[h]
  BY DEF TellsData
<1>4. ASSUME NEW x \in Handles, x # h PROVE SourceAgrees(n, u, k, b, x)
  <2>1. /\ x \in t.known <=> x \in u.known
        /\ x \in t.pap <=> x \in u.pap
        /\ x \in t.sampled <=> x \in u.sampled
        /\ l[x] = k[x]
        /\ x \in a.dmx <=> x \in b.dmx
        /\ x \in a.pap <=> x \in b.pap
    BY <1>4, <1>3 DEF Strays
  <2>2. SourceAgrees(r, t, l, a, x)
    BY DEF AllAgree
  <2> QED
    BY <1>2, <1>4, <2>1, <2>2, AgreesElsewhere
<1>5. SourceAgrees(r, t, l, a, h)
  BY DEF AllAgree
<1>6. /\ w.sources[h] \in Source /\ own \in BOOLEAN /\ h \in DOMAIN before
      /\ h \notin Movers => own = sampling
      /\ h \in DOMAIN r.sources => w = r
      /\ own # sampling =>
            h \in DOMAIN r.sources /\ h \notin DOMAIN TheMerger(w, sampling).sources
      /\ r.use_pap => /\ w.sources[h].per_address_priorities_active <=> h \in t.pap
                      /\ h \notin a.pap => (old.using_universe_priority <=> h \notin t.pap)
      /\ h \notin a.dmx /\ l[h] # <<>> =>
            /\ old.valid_level_count = Len(l[h])
            /\ SubSeq(old.levels, 1, Len(l[h])) = l[h]
  <2>1. CASE h \in t.known
    <3>1. h \in DOMAIN r.sources
      BY <1>5, <2>1 DEF SourceAgrees
    <3>2. w = r
      BY <3>1 DEF WithSource
    <3>3. r.sources[h] \in Source /\ r.sources[h].sampling \in BOOLEAN
      BY <3>1 DEF IsReceiver, Source
    <3>4. h \notin Movers => r.sources[h].sampling = sampling
      BY <1>5, <1>3, <2>1, <3>3 DEF SourceAgrees
    <3>5. r.sources[h].sampling # sampling => h \notin DOMAIN TheMerger(r, sampling).sources
      BY DEF IsReceiver, Placed
    <3> HIDE DEF w
    <3> QED
      BY <1>5, <2>1, <3>1, <3>2, <3>3, <3>4, <3>5 DEF SourceAgrees
  <2>2. CASE h \notin t.known
    <3> DEFINE m == TheMerger(r, sampling)
    <3>1. h \notin DOMAIN r.sources
      BY <1>5, <2>2 DEF SourceAgrees
    <3>2. /\ w.sources[h] = NewInfo(sampling) /\ TheMerger(w, sampling) = Added(m, h)
      BY ONLY <3>1, WithSourceIs, IsReceiver(r), h \in Handles, sampling \in BOOLEAN
    <3>3. Good(m) /\ h \notin DOMAIN m.sources
      BY <3>1, ReceiverMergers DEF IsReceiver, Placed
    <3>4. DOMAIN m.sources \subseteq t.known
      <4>1. DOMAIN m.sources \subseteq DOMAIN r.sources
        BY DEF IsReceiver, Placed
      <4>2. DOMAIN r.sources \subseteq t.known
        BY DEF AllAgree, SourceAgrees, IsReceiver
      <4> QED
        BY <4>1, <4>2
    <3>5. Cardinality(DOMAIN m.sources) < MaxSources
      <4> HIDE DEF m
      <4>1. IsFiniteSet(t.known) /\ Cardinality(t.known) \in Nat
        BY MergeReceiverAssumption, FS_Subset, FS_CardinalityType DEF IsTold
      <4>2. Cardinality(DOMAIN m.sources) <= Cardinality(t.known)
            /\ Cardinality(DOMAIN m.sources) \in Nat
        BY <3>4, <4>1, FS_Subset, FS_CardinalityType
      <4> QED
        BY <1>3, <2>2, <4>1, <4>2, ApiAssumption
    <3> HIDE DEF m, w
    <3>6. /\ NewInfo(sampling) \in Source /\ NewInfo(sampling).sampling = sampling
          /\ NewInfo(sampling).per_address_priorities_active = FALSE
      BY DEF NewInfo, Source
    <3>7. own = sampling /\ TheMerger(w, own) = Added(m, h)
      BY <3>2, <3>6
    <3> HIDE DEF own
    <3>8. h \in DOMAIN before /\ old = Merger!NewSource
      BY <3>7, <3>3, <3>5, AddedGood
    <3>9. old.using_universe_priority = TRUE
      BY <3>8 DEF Merger!NewSource
    <3>10. h \notin t.pap
      BY <2>2 DEF IsTold
    <3> HIDE DEF before, old
    <3> QED
      BY <1>3, <2>2, <3>1, <3>2, <3>6, <3>7, <3>8, <3>9, <3>10
  <2> QED
    BY <2>1, <2>2
<1>7. n.use_pap = r.use_pap /\ h \in u.known /\ h \in DOMAIN n.sources
  BY <1>2, <1>3 DEF Only
<1>8. /\ info.sampling = own
      /\ info.per_address_priorities_active <=>
            w.sources[h].per_address_priorities_active \/ kind = "pap"
  <2> HIDE DEF w, info
  <2> QED
    BY <1>2, <1>6 DEF Updated, Source
<1>9. /\ h \in b.dmx <=> IF merges /\ kind = "dmx" THEN own # sampling ELSE h \in a.dmx
      /\ h \in b.pap <=> IF merges /\ kind = "pap" THEN own # sampling ELSE h \in a.pap
  <2>1. n.sources[h].sampling = own
    BY <1>8
  <2> HIDE DEF own
  <2> QED
    BY <2>1 DEF Strays
<1> HIDE DEF info
<1>10. /\ h \in b.dmx => h \in Movers
       /\ h \in b.pap => h \in Movers
       /\ h \notin Movers => (own <=> h \in u.sampled)
  <2> HIDE DEF w, own
  <2> QED
    BY <1>3, <1>5, <1>6, <1>9 DEF SourceAgrees
<1>11. /\ h \in DOMAIN after
       /\ ~merges => now = old
       /\ merges /\ own = sampling /\ kind = "dmx" =>
             /\ now.levels = Padded(values) /\ now.valid_level_count = Len(values)
             /\ now.using_universe_priority = old.using_universe_priority
       /\ merges /\ own = sampling /\ kind # "dmx" =>
             /\ now.levels = old.levels /\ now.valid_level_count = old.valid_level_count
             /\ now.using_universe_priority = FALSE
       /\ own # sampling => now = old
  <2>1. CASE own = sampling
    <3> HIDE DEF w, merges, own
    <3> QED
      BY <1>2, <1>6, <2>1
  <2>2. CASE own # sampling
    <3>1. own = ~sampling /\ w = r /\ h \in DOMAIN r.sources
      BY <1>6, <2>2
    <3> HIDE DEF w, merges, own
    <3>2. TheMerger(n, own) = TheMerger(w, own)
      BY <1>2, <3>1
    <3> QED
      BY <1>6, <2>2, <3>2
  <2> QED
    BY <2>1, <2>2
<1> HIDE DEF w, own, before, after, old, now, merges
<1>12. r.use_pap =>
         /\ info.per_address_priorities_active <=> h \in u.pap
         /\ h \notin b.pap => (now.using_universe_priority <=> h \notin u.pap)
  <2>1. CASE kind = "pap"
    BY <1>3, <1>6, <1>8, <1>9, <1>11, <2>1 DEF Merges, merges
  <2>2. CASE kind # "pap"
    BY <1>3, <1>6, <1>8, <1>9, <1>11, <2>2 DEF Merges, merges
  <2> QED
    BY <2>1, <2>2
<1>13. h \notin b.dmx /\ k[h] # <<>> =>
          /\ now.valid_level_count = Len(k[h])
          /\ SubSeq(now.levels, 1, Len(k[h])) = k[h]
  <2>1. CASE kind = "dmx" /\ values # <<>>
    BY <1>3, <1>9, <1>11, <2>1, PaddedStarts DEF Merges, merges
  <2>2. CASE ~(kind = "dmx" /\ values # <<>>)
    <3>1. now.levels = old.levels /\ now.valid_level_count = old.valid_level_count
      BY <1>11, <2>2 DEF Merges, merges
    <3>2. h \notin b.dmx => h \notin a.dmx
      BY <1>9, <2>2 DEF Merges, merges
    <3> QED
      BY <1>6, <1>3, <2>2, <3>1, <3>2
  <2> QED
    BY <2>1, <2>2
<1>14. SourceAgrees(n, u, k, b, h)
  BY <1>7, <1>8, <1>10, <1>11, <1>12, <1>13 DEF SourceAgrees, info, after, now
<1> QED
  BY <1>4, <1>14 DEF AllAgree

-----------------------------------------------------------------------------
(* What the receiver tells.                                                 *)

(* What is told changes one field at a time.                                *)
ToldRecord(t) ==
    t = [known |-> t.known, pap |-> t.pap, sampled |-> t.sampled, sampling |-> t.sampling]

SetKnown(t, known) == [t EXCEPT !.known = known]
SetPap(t, pap) == [t EXCEPT !.pap = pap]
SetSampled(t, sampled) == [t EXCEPT !.sampled = sampled]
SetPeriod(t, sampling) == [t EXCEPT !.sampling = sampling]

(* The sources it told of are set, the rest stays.                          *)
LEMMA KnownSet ==
    ASSUME NEW t, ToldRecord(t), NEW value
    PROVE  LET u == SetKnown(t, value) IN
           /\ ToldRecord(u) /\ u.known = value
           /\ u.pap = t.pap /\ u.sampled = t.sampled /\ u.sampling = t.sampling
  BY DEF ToldRecord, SetKnown

(* Those with priorities of their own are set, the rest stays.              *)
LEMMA PapSet ==
    ASSUME NEW t, ToldRecord(t), NEW value
    PROVE  LET u == SetPap(t, value) IN
           /\ ToldRecord(u) /\ u.pap = value
           /\ u.known = t.known /\ u.sampled = t.sampled /\ u.sampling = t.sampling
  BY DEF ToldRecord, SetPap

(* Those that are sampled are set, the rest stays.                          *)
LEMMA SampledSet ==
    ASSUME NEW t, ToldRecord(t), NEW value
    PROVE  LET u == SetSampled(t, value) IN
           /\ ToldRecord(u) /\ u.sampled = value
           /\ u.known = t.known /\ u.pap = t.pap /\ u.sampling = t.sampling
  BY DEF ToldRecord, SetSampled

(* Whether there is a period is set, the rest stays.                        *)
LEMMA PeriodSet ==
    ASSUME NEW t, ToldRecord(t), NEW value
    PROVE  LET u == SetPeriod(t, value) IN
           /\ ToldRecord(u) /\ u.sampling = value
           /\ u.known = t.known /\ u.pap = t.pap /\ u.sampled = t.sampled
  BY DEF ToldRecord, SetPeriod

(* Data of a source: nobody else is concerned.                              *)
LEMMA WithDataIs ==
    ASSUME IsTold(told), NEW h \in Handles, NEW sampling \in BOOLEAN,
           h \in told.known \/ IsNew(h)
    PROVE  LET u == WithData(h, sampling) IN
           /\ IsTold(u) /\ u.known = told.known \cup {h} /\ u.pap = told.pap
           /\ u.sampled = IF sampling THEN told.sampled \cup {h} ELSE told.sampled \ {h}
<1> DEFINE known == told.known \cup {h}
           sampled == IF sampling THEN told.sampled \cup {h} ELSE told.sampled \ {h}
           u == WithData(h, sampling)
<1>1. u = SetSampled(SetKnown(told, known), sampled)
  BY DEF WithData, SetSampled, SetKnown
<1>2. Cardinality(known) <= MaxSources
  <2>1. IsFiniteSet(told.known) /\ Cardinality(told.known) \in Nat
    BY MergeReceiverAssumption, FS_Subset, FS_CardinalityType DEF IsTold
  <2>2. Cardinality(known) = IF h \in told.known THEN Cardinality(told.known)
                             ELSE Cardinality(told.known) + 1
    BY <2>1, FS_AddElement
  <2> QED
    BY <2>1, <2>2, ApiAssumption DEF IsTold, IsNew
<1>3. known \subseteq Handles /\ told.pap \subseteq known /\ sampled \subseteq known
  BY DEF IsTold
<1> HIDE DEF known, sampled, u
<1>4. /\ ToldRecord(u) /\ u.known = known /\ u.pap = told.pap /\ u.sampled = sampled
      /\ u.sampling = told.sampling
  <2>1. ToldRecord(told)
    BY DEF IsTold, ToldRecord
  <2> QED
    BY <1>1, <2>1, KnownSet, SampledSet
<1>5. IsTold(u)
  BY <1>2, <1>3, <1>4 DEF IsTold, ToldRecord
<1> QED
  BY <1>4, <1>5 DEF known, sampled, u

(* And priorities of its own.                                               *)
LEMMA WithPrioritiesIs ==
    ASSUME NEW t, IsTold(t), NEW h \in t.known
    PROVE  LET u == [t EXCEPT !.pap = @ \cup {h}] IN
           /\ IsTold(u) /\ u.known = t.known /\ u.pap = t.pap \cup {h} /\ u.sampled = t.sampled
  BY DEF IsTold

(* And without them.                                                        *)
LEMMA WithoutPrioritiesIs ==
    ASSUME NEW t, IsTold(t), NEW h
    PROVE  LET u == [t EXCEPT !.pap = @ \ {h}] IN
           /\ IsTold(u) /\ u.known = t.known /\ u.pap = t.pap \ {h} /\ u.sampled = t.sampled
  BY DEF IsTold

(* Sources that are lost are forgotten.                                     *)
LEMMA LostIs ==
    ASSUME NEW t, IsTold(t), NEW lost
    PROVE  LET u == [t EXCEPT !.known = @ \ lost, !.pap = @ \ lost, !.sampled = @ \ lost] IN
           /\ IsTold(u) /\ u.known = t.known \ lost /\ u.pap = t.pap \ lost
           /\ u.sampled = t.sampled \ lost
<1> DEFINE known == t.known \ lost
           pap == t.pap \ lost
           sampled == t.sampled \ lost
           u == [t EXCEPT !.known = @ \ lost, !.pap = @ \ lost, !.sampled = @ \ lost]
<1>1. u = SetSampled(SetPap(SetKnown(t, known), pap), sampled)
  BY DEF SetSampled, SetPap, SetKnown
<1>2. Cardinality(t.known \ lost) <= MaxSources
  <2>1. IsFiniteSet(t.known) /\ Cardinality(t.known) \in Nat
    BY MergeReceiverAssumption, FS_Subset, FS_CardinalityType DEF IsTold
  <2>2. Cardinality(t.known \ lost) \in Nat /\ Cardinality(t.known \ lost) <= Cardinality(t.known)
    BY <2>1, FS_Subset, FS_CardinalityType
  <2> QED
    BY <2>1, <2>2, ApiAssumption DEF IsTold
<1>3. known \subseteq Handles /\ pap \subseteq known /\ sampled \subseteq known
  BY DEF IsTold
<1> HIDE DEF known, pap, sampled, u
<1>4. /\ ToldRecord(u) /\ u.known = known /\ u.pap = pap /\ u.sampled = sampled
      /\ u.sampling = t.sampling
  <2>1. ToldRecord(t)
    BY DEF IsTold, ToldRecord
  <2>2. LET w == SetPap(SetKnown(t, known), pap) IN
        ToldRecord(w) /\ w.known = known /\ w.pap = pap /\ w.sampling = t.sampling
    BY <2>1, KnownSet, PapSet
  <2> QED
    BY <1>1, <2>2, SampledSet
<1>5. IsTold(u)
  BY <1>2, <1>3, <1>4 DEF IsTold, ToldRecord, known
<1> QED
  BY <1>4, <1>5 DEF known, pap, sampled, u

(* Nothing told yet is something it can have told.                          *)
LEMMA NothingTold == IsTold(NothingToldYet)
<1>1. Cardinality({}) = 0
  BY FS_EmptySet
<1> QED
  BY <1>1, ApiAssumption DEF IsTold, NothingToldYet

(* The end of a period, and its start.                                      *)
LEMMA PeriodTold ==
    ASSUME NEW t, IsTold(t)
    PROVE  /\ LET u == [t EXCEPT !.sampling = TRUE] IN
              IsTold(u) /\ u.known = t.known /\ u.pap = t.pap /\ u.sampled = t.sampled
           /\ LET u == [t EXCEPT !.sampling = FALSE, !.sampled = {}] IN
              IsTold(u) /\ u.known = t.known /\ u.pap = t.pap /\ u.sampled = {}
<1> DEFINE started == SetPeriod(t, TRUE)
           over == SetPeriod(t, FALSE)
           ended == SetSampled(over, {})
<1>1. ToldRecord(t)
  BY DEF IsTold, ToldRecord
<1>2. /\ ToldRecord(started) /\ started.known = t.known /\ started.pap = t.pap
      /\ started.sampled = t.sampled /\ started.sampling = TRUE
  BY <1>1, PeriodSet
<1>3. /\ ToldRecord(over) /\ over.known = t.known /\ over.pap = t.pap
      /\ over.sampling = FALSE
  BY <1>1, PeriodSet
<1> HIDE DEF over
<1>4. /\ ToldRecord(ended) /\ ended.known = t.known /\ ended.pap = t.pap
      /\ ended.sampled = {} /\ ended.sampling = FALSE
  BY <1>3, SampledSet
<1>5. /\ [t EXCEPT !.sampling = TRUE] = started
      /\ [t EXCEPT !.sampling = FALSE, !.sampled = {}] = ended
  BY DEF SetPeriod, SetSampled, over
<1> HIDE DEF started, ended
<1>6. IsTold(started) /\ IsTold(ended)
  BY <1>2, <1>4 DEF IsTold, ToldRecord
<1> QED
  BY <1>2, <1>4, <1>5, <1>6

-----------------------------------------------------------------------------
(* The inductive invariant.                                                 *)

Typed ==
    /\ status \in {"none", "created", "failed"} /\ late \in {"no", "pending", "delivered"}
    /\ IsReceiver(merge) /\ IsTold(told)
    /\ latest \in [Handles -> LevelValues \cup {<<>>}]
    /\ \A h \in Handles \ told.known : latest[h] = <<>>
    /\ astray \in [dmx : SUBSET Handles, pap : SUBSET Handles]

Idle == status = "none" => told = NothingToldYet /\ shown = None /\ astray = NoneAstray

Agree == Undisturbed => AllAgree(merge, told, latest, astray)

IInv == Typed /\ Idle /\ Agree /\ ShownIsCurrent

(* The values of a packet's slots.                                          *)
LEMMA ValuesAre ==
    \A values \in LevelValues \cup PapValues \cup {<<>>, <<0>>} :
        values \in Seq(Nat) /\ Len(values) \in 0 .. MaxSlots
<1>1. <<>> \in Seq(Nat) /\ Len(<<>>) = 0 /\ <<0>> \in Seq(Nat) /\ Len(<<0>>) = 1
  OBVIOUS
<1>2. 0 \in 0 .. MaxSlots /\ 1 \in 0 .. MaxSlots /\ 1 .. MaxSlots \subseteq 0 .. MaxSlots
  BY MergeReceiverAssumption
<1> TAKE values \in LevelValues \cup PapValues \cup {<<>>, <<0>>}
<1>3. CASE values \in LevelValues \cup PapValues
  BY <1>2, <1>3, MergeReceiverAssumption
<1>4. CASE values = <<>>
  BY <1>1, <1>2, <1>4
<1>5. CASE values = <<0>>
  BY <1>1, <1>2, <1>5
<1> QED
  BY <1>3, <1>4, <1>5

(* A packet, whatever it is of.                                             *)
LEMMA PacketKeeps ==
    ASSUME IsReceiver(merge), ShownIsCurrent, NEW h \in Handles, NEW sampling \in BOOLEAN,
           NEW kind \in Kinds, NEW values \in Seq(Nat), Len(values) \in 0 .. MaxSlots,
           NEW priority \in Nat, Packet(kind, h, sampling, values, priority)
    PROVE  IsReceiver(merge)' /\ ShownIsCurrent'
<1> DEFINE n == merge_receiver_universe_data(merge, h, sampling, kind, values, priority)
<1>1. IsReceiver(n) /\ PacketDone(merge, n, h, sampling, kind, values, priority)
  BY ONLY UniverseDataIs, IsReceiver(merge), h \in Handles, sampling \in BOOLEAN,
     kind \in Kinds,
          values \in Seq(Nat), Len(values) \in 0 .. MaxSlots, priority \in Nat
<1>2. /\ merge' = n
      /\ shown' = IF Shows(merge, kind, values, sampling) THEN Shown(n) ELSE shown
  BY DEF Packet
<1> HIDE DEF n
<1>3. (Merges(merge, kind, values) /\ sampling = FALSE) \/ n.main.out = merge.main.out
  BY <1>1 DEF PacketDone
<1>4. ShownIsCurrent'
  <2>1. CASE Shows(merge, kind, values, sampling)
    <3>1. shown'.out = merge'.main.out
      BY <1>2, <2>1 DEF Shown
    <3> QED
      BY <3>1 DEF ShownIsCurrent
  <2>2. CASE ~Shows(merge, kind, values, sampling)
    <3>1. shown' = shown /\ merge'.main.out = merge.main.out
      BY <1>2, <1>3, <2>2 DEF Shows
    <3> QED
      BY <3>1 DEF ShownIsCurrent
  <2> QED
    BY <2>1, <2>2
<1> QED
  BY <1>1, <1>2, <1>4

(* What goes astray is what Strays says.                                    *)
LEMMA AstrayIs ==
    ASSUME Typed, NEW h \in Handles, NEW sampling \in BOOLEAN, NEW kind \in {"dmx", "pap"},
           NEW values, GoesAstray(kind, h, sampling, values)
    PROVE  /\ astray' \in [dmx : SUBSET Handles, pap : SUBSET Handles]
           /\ Strays(astray, astray', h, merge'.sources[h].sampling, sampling, kind,
                     Merges(merge, kind, values))
<1> DEFINE own == merge'.sources[h].sampling
           merged == Merges(merge, kind, values)
           dmx == IF own = sampling THEN astray.dmx \ {h} ELSE astray.dmx \cup {h}
           pap == IF own = sampling THEN astray.pap \ {h} ELSE astray.pap \cup {h}
<1>1. astray = [dmx |-> astray.dmx, pap |-> astray.pap]
      /\ astray.dmx \subseteq Handles /\ astray.pap \subseteq Handles
  BY DEF Typed
<1>2. astray' = IF ~merged THEN astray
                ELSE [astray EXCEPT ![kind] = IF own = sampling THEN @ \ {h} ELSE @ \cup {h}]
  BY DEF GoesAstray
<1> HIDE DEF own, merged
<1>3. CASE ~merged
  BY <1>1, <1>2, <1>3 DEF Strays, own, merged
<1>4. CASE merged /\ kind = "dmx"
  <2>1. astray' = [dmx |-> dmx, pap |-> astray.pap]
    BY <1>1, <1>2, <1>4
  <2> QED
    BY <1>1, <1>4, <2>1 DEF Strays, own, merged
<1>5. CASE merged /\ kind = "pap"
  <2>1. astray' = [dmx |-> astray.dmx, pap |-> pap]
    BY <1>1, <1>2, <1>5
  <2> QED
    BY <1>1, <1>5, <2>1 DEF Strays, own, merged
<1> QED
  BY <1>3, <1>4, <1>5

(* Levels keep the invariant: the merger that has the source gets them, or  *)
(* they go astray.                                                          *)
LEMMA LevelDataKeeps == ASSUME IInv, NEW h \in Handles, LevelData(h) PROVE IInv'
<1>1. PICK sampling \in BOOLEAN, values \in LevelValues \cup {<<>>},
           priority \in UniversePriorities :
        /\ Called
        /\ ApiLevels(h, sampling) \/ (h \in Movers /\ ApiLevelsMove(h, sampling))
        /\ Packet("dmx", h, sampling, values, priority)
        /\ GoesAstray("dmx", h, sampling, values)
        /\ latest' = IF values = <<>> THEN latest ELSE [latest EXCEPT ![h] = values]
        /\ UNCHANGED <<status, late>>
  BY DEF LevelData
<1>2. values \in Seq(Nat) /\ Len(values) \in 0 .. MaxSlots /\ priority \in Nat /\ "dmx" \in Kinds
  BY ValuesAre, MergeReceiverAssumption DEF Kinds
<1>3. IsReceiver(merge)' /\ ShownIsCurrent'
  BY <1>1, <1>2, PacketKeeps DEF IInv, Typed
<1>4. /\ IsTold(told)' /\ told'.known = told.known \cup {h} /\ told'.pap = told.pap
      /\ told'.sampled = IF sampling THEN told.sampled \cup {h} ELSE told.sampled \ {h}
  <2> DEFINE heard == WithData(h, sampling)
  <2>1. (h \in told.known \/ IsNew(h)) /\ told' = heard
    BY <1>1 DEF ApiLevels, ApiLevelsMove
  <2>2. /\ IsTold(heard) /\ heard.known = told.known \cup {h} /\ heard.pap = told.pap
        /\ heard.sampled = IF sampling THEN told.sampled \cup {h} ELSE told.sampled \ {h}
    BY <2>1, WithDataIs DEF IInv, Typed
  <2> HIDE DEF heard
  <2> QED
    BY <2>1, <2>2
<1>5. /\ latest' \in [Handles -> LevelValues \cup {<<>>}]
      /\ \A x \in Handles : x # h => latest'[x] = latest[x]
      /\ latest'[h] = IF values # <<>> THEN values ELSE latest[h]
  BY <1>1 DEF IInv, Typed
<1>6. /\ astray' \in [dmx : SUBSET Handles, pap : SUBSET Handles]
      /\ Strays(astray, astray', h, merge'.sources[h].sampling, sampling, "dmx",
                Merges(merge, "dmx", values))
  BY <1>1, AstrayIs DEF IInv
<1>7. Typed'
  <2>1. \A x \in Handles \ told'.known : latest'[x] = <<>>
    BY <1>4, <1>5 DEF IInv, Typed
  <2> QED
    BY <1>1, <1>3, <1>4, <1>5, <1>6, <2>1 DEF IInv, Typed
<1>8. Idle'
  BY <1>1 DEF Called, Idle
<1>9. Agree'
  <2> SUFFICES ASSUME Undisturbed' PROVE AllAgree(merge', told', latest', astray')
    BY DEF Agree
  <2>1. AllAgree(merge, told, latest, astray)
    BY <1>1 DEF IInv, Agree, Undisturbed
  <2>2. /\ h \in told.known => (sampling <=> h \in told.sampled) \/ h \in Movers
        /\ h \notin told.known => Cardinality(told.known) < MaxSources /\ latest[h] = <<>>
    BY <1>1 DEF ApiLevels, ApiLevelsMove, Sampled, IsNew, IInv, Typed
  <2>3. merge' = merge_receiver_universe_data(merge, h, sampling, "dmx", values, priority)
    BY <1>1 DEF Packet
  <2>4. IsReceiver(merge) /\ IsTold(told)
    BY DEF IInv, Typed
  <2>5. TellsData(told, told', latest, latest', h, sampling, "dmx", values)
    BY <1>4, <1>5, <2>2 DEF TellsData
  <2> QED
    BY <1>2, <1>6, <2>1, <2>3, <2>4, <2>5, DataAgrees
<1> QED
  BY <1>3, <1>7, <1>8, <1>9 DEF IInv

(* Priorities keep the invariant, likewise.                                 *)
LEMMA PriorityDataKeeps == ASSUME IInv, NEW h \in Handles, PriorityData(h) PROVE IInv'
<1>1. PICK sampling \in BOOLEAN, values \in PapValues, priority \in UniversePriorities :
        /\ Called
        /\ ApiPriorities(h, sampling) \/ (h \in Movers /\ ApiPrioritiesMove(h, sampling))
        /\ Packet("pap", h, sampling, values, priority)
        /\ GoesAstray("pap", h, sampling, values)
        /\ UNCHANGED <<status, latest, late>>
  BY DEF PriorityData
<1>2. /\ values \in Seq(Nat) /\ Len(values) \in 0 .. MaxSlots /\ values # <<>>
      /\ priority \in Nat /\ "pap" \in Kinds
  BY ValuesAre, MergeReceiverAssumption DEF Kinds
<1>3. IsReceiver(merge)' /\ ShownIsCurrent'
  BY <1>1, <1>2, PacketKeeps DEF IInv, Typed
<1>4. /\ IsTold(told)' /\ told'.known = told.known \cup {h} /\ told'.pap = told.pap \cup {h}
      /\ told'.sampled = IF sampling THEN told.sampled \cup {h} ELSE told.sampled \ {h}
  <2> DEFINE heard == WithData(h, sampling)
  <2>1. /\ IsTold(heard) /\ heard.known = told.known \cup {h} /\ heard.pap = told.pap
        /\ heard.sampled = IF sampling THEN told.sampled \cup {h} ELSE told.sampled \ {h}
    BY <1>1, WithDataIs DEF IInv, Typed, ApiPriorities, ApiPrioritiesMove
  <2> DEFINE both == [heard EXCEPT !.pap = @ \cup {h}]
  <2>2. told' = both
    BY <1>1 DEF ApiPriorities, ApiPrioritiesMove
  <2> HIDE DEF heard
  <2>3. h \in heard.known
    BY <2>1
  <2>4. /\ IsTold(both) /\ both.known = heard.known /\ both.pap = heard.pap \cup {h}
        /\ both.sampled = heard.sampled
    BY <2>1, <2>3, WithPrioritiesIs
  <2> HIDE DEF both
  <2>5. IsTold(told)'
    BY <2>2, <2>4
  <2> QED
    BY <2>1, <2>2, <2>4, <2>5
<1>5. /\ astray' \in [dmx : SUBSET Handles, pap : SUBSET Handles]
      /\ Strays(astray, astray', h, merge'.sources[h].sampling, sampling, "pap",
                Merges(merge, "pap", values))
  BY <1>1, AstrayIs DEF IInv
<1>6. Typed'
  BY <1>1, <1>3, <1>4, <1>5 DEF IInv, Typed
<1>7. Idle'
  BY <1>1 DEF Called, Idle
<1>8. Agree'
  <2> SUFFICES ASSUME Undisturbed' PROVE AllAgree(merge', told', latest', astray')
    BY DEF Agree
  <2>1. AllAgree(merge, told, latest, astray)
    BY <1>1 DEF IInv, Agree, Undisturbed
  <2>2. /\ h \in told.known => (sampling <=> h \in told.sampled) \/ h \in Movers
        /\ h \notin told.known => Cardinality(told.known) < MaxSources /\ latest[h] = <<>>
    BY <1>1 DEF ApiPriorities, ApiPrioritiesMove, Sampled, IsNew, IInv, Typed
  <2>3. merge' = merge_receiver_universe_data(merge, h, sampling, "pap", values, priority)
    BY <1>1 DEF Packet
  <2>4. IsReceiver(merge) /\ IsTold(told)
    BY DEF IInv, Typed
  <2>5. TellsData(told, told', latest, latest', h, sampling, "pap", values)
    BY <1>1, <1>2, <1>4, <2>2 DEF TellsData
  <2> QED
    BY <1>2, <1>5, <2>1, <2>3, <2>4, <2>5, DataAgrees
<1> QED
  BY <1>3, <1>6, <1>7, <1>8 DEF IInv

(* Data of another start code keeps the invariant: it changes no merger.    *)
LEMMA OtherDataKeeps == ASSUME IInv, NEW h \in Handles, OtherData(h) PROVE IInv'
<1> DEFINE sampling == h \in told.sampled
           values == <<0>>
<1>1. PICK priority \in UniversePriorities :
        /\ Called /\ h \in told.known /\ Packet("other", h, sampling, values, priority)
        /\ UNCHANGED <<told, status, latest, astray, late>>
  BY DEF OtherData
<1>2. /\ values \in Seq(Nat) /\ Len(values) \in 0 .. MaxSlots
      /\ priority \in Nat /\ "other" \in Kinds /\ sampling \in BOOLEAN
  BY ValuesAre, MergeReceiverAssumption DEF Kinds
<1>3. TellsData(told, told, latest, latest, h, sampling, "other", values)
  BY <1>1 DEF TellsData
<1>8. \A own : Strays(astray, astray, h, own, sampling, "other", Merges(merge, "other", values))
  BY DEF Strays, Merges
<1> HIDE DEF sampling, values
<1>4. IsReceiver(merge)' /\ ShownIsCurrent'
  BY <1>1, <1>2, PacketKeeps DEF IInv, Typed
<1>5. Typed'
  BY <1>1, <1>4 DEF IInv, Typed
<1>6. Idle'
  BY <1>1 DEF Called, Idle
<1>7. Agree'
  <2> SUFFICES ASSUME Undisturbed' PROVE AllAgree(merge', told, latest, astray)
    BY <1>1 DEF Agree
  <2>1. AllAgree(merge, told, latest, astray)
    BY <1>1 DEF IInv, Agree, Undisturbed
  <2>2. merge' = merge_receiver_universe_data(merge, h, sampling, "other", values, priority)
    BY <1>1 DEF Packet
  <2>3. IsReceiver(merge) /\ IsTold(told)
    BY DEF IInv, Typed
  <2> QED
    BY <1>2, <1>3, <1>8, <2>1, <2>2, <2>3, DataAgrees
<1> QED
  BY <1>4, <1>5, <1>6, <1>7 DEF IInv

(* A late packet is of another universe: from then on nothing is claimed of *)
(* how the sources agree.                                                   *)
LEMMA LateDataKeeps == ASSUME IInv, NEW h \in Handles, LateData(h) PROVE IInv'
<1>1. PICK sampling \in BOOLEAN, kind \in {"dmx", "pap"}, priority \in UniversePriorities :
        /\ status = "created" /\ late = "pending"
        /\ \E values \in IF kind = "dmx" THEN LevelValues ELSE PapValues :
              Packet(kind, h, sampling, values, priority)
        /\ late' = "delivered"
        /\ UNCHANGED <<told, status, latest, astray>>
  BY DEF LateData
<1>2. PICK values \in LevelValues \cup PapValues : Packet(kind, h, sampling, values, priority)
  BY <1>1
<1>3. /\ values \in Seq(Nat) /\ Len(values) \in 0 .. MaxSlots
      /\ priority \in Nat /\ kind \in Kinds
  BY ValuesAre, MergeReceiverAssumption DEF Kinds
<1>4. IsReceiver(merge)' /\ ShownIsCurrent'
  BY <1>2, <1>3, PacketKeeps DEF IInv, Typed
<1>5. Typed'
  BY <1>1, <1>4 DEF IInv, Typed
<1>6. Idle'
  BY <1>1 DEF Idle
<1>7. Agree'
  BY <1>1 DEF Agree, Undisturbed
<1> QED
  BY <1>4, <1>5, <1>6, <1>7 DEF IInv

-----------------------------------------------------------------------------
(* A receiver without sources.                                              *)

(* Without sources all records agree.                                       *)
LEMMA EmptyAgrees ==
    ASSUME NEW r, DOMAIN r.sources = {}
    PROVE  AllAgree(r, NothingToldYet, NothingLatest, NoneAstray)
  BY DEF AllAgree, SourceAgrees, NothingToldYet, NothingLatest, NoneAstray

(* A new merge receiver has none.                                           *)
LEMMA NewIs ==
    ASSUME NEW use_pap \in BOOLEAN
    PROVE  LET r == NewMergeReceiver(use_pap) IN
           IsReceiver(r) /\ AllAgree(r, NothingToldYet, NothingLatest, NoneAstray)
<1> DEFINE r == NewMergeReceiver(use_pap)
           sources == [h \in {} |-> None]
           merger == Merger!NewMerger
<1>1. Good(merger) /\ DOMAIN merger.sources = {}
  BY NewGood
<1>2. DOMAIN sources = {} /\ sources \in [{} -> Source]
  OBVIOUS
<1> HIDE DEF sources, merger
<1>3. /\ Fields(r) /\ r.use_pap = use_pap /\ r.sampling = TRUE /\ r.sources = sources
      /\ r.main = merger /\ r.samp = merger
  BY DEF NewMergeReceiver, Fields, sources, merger
<1> HIDE DEF r
<1>4. Placed(r)
  BY <1>1, <1>3 DEF Placed, TheMerger
<1>5. IsReceiver(r)
  BY <1>1, <1>2, <1>3, <1>4 DEF IsReceiver
<1>6. AllAgree(r, NothingToldYet, NothingLatest, NoneAstray)
  BY <1>2, <1>3, EmptyAgrees
<1> QED
  BY <1>5, <1>6 DEF r

(* Nothing is told, shown or sent yet.                                      *)
LEMMA Forgotten ==
    ASSUME told' = NothingToldYet, IsReceiver(merge'), status' \in {"none", "created", "failed"},
           late' \in {"no", "pending", "delivered"}, shown' = None, latest' = NothingLatest,
           astray' = NoneAstray,
           Undisturbed' => DOMAIN merge'.sources = {}
    PROVE  IInv'
<1>1. IsTold(told)' /\ told' = NothingToldYet
  BY NothingTold
<1>2. /\ latest' \in [Handles -> LevelValues \cup {<<>>}]
      /\ \A h \in Handles : latest'[h] = <<>>
      /\ astray' \in [dmx : SUBSET Handles, pap : SUBSET Handles]
  BY DEF NothingLatest, NoneAstray
<1>3. Typed'
  BY <1>1, <1>2 DEF Typed
<1>4. Idle'
  BY <1>1 DEF Idle
<1>5. Agree'
  BY <1>1, EmptyAgrees DEF Agree
<1>6. ShownIsCurrent'
  BY DEF ShownIsCurrent
<1> QED
  BY <1>3, <1>4, <1>5, <1>6 DEF IInv

(* The invariant holds initially.                                           *)
LEMMA InitHolds == Init => IInv
<1> SUFFICES ASSUME Init PROVE IInv
  OBVIOUS
<1>1. IsReceiver(merge) /\ AllAgree(merge, NothingToldYet, NothingLatest, NoneAstray)
  BY NewIs DEF Init
<1>2. told = NothingToldYet /\ shown = None /\ latest = NothingLatest
      /\ astray = NoneAstray
      /\ status = "none" /\ late = "no"
  BY DEF Init, ApiInit
<1>3. /\ latest \in [Handles -> LevelValues \cup {<<>>}]
      /\ \A h \in Handles : latest[h] = <<>>
      /\ astray \in [dmx : SUBSET Handles, pap : SUBSET Handles]
  BY <1>2 DEF NothingLatest, NoneAstray
<1>4. Typed
  BY <1>1, <1>2, <1>3, NothingTold DEF Typed
<1> QED
  BY <1>1, <1>2, <1>4 DEF IInv, Idle, Agree, ShownIsCurrent

(* sacn_merge_receiver_create keeps the invariant.                          *)
LEMMA CreateKeeps == ASSUME IInv, Create PROVE IInv'
<1>1. PICK use_pap \in BOOLEAN : merge' = NewMergeReceiver(use_pap)
  BY DEF Create
<1>2. IsReceiver(merge') /\ AllAgree(merge', NothingToldYet, NothingLatest, NoneAstray)
  BY <1>1, NewIs
<1>3. told' = NothingToldYet /\ shown' = None /\ late' = late /\ latest' = latest
      /\ astray' = NoneAstray
      /\ status' = "created"
  BY DEF IInv, Idle, Create
<1>4. latest = NothingLatest
  <2>1. told = NothingToldYet
    BY DEF IInv, Idle, Create
  <2>2. told.known = {}
    BY <2>1 DEF NothingToldYet
  <2> QED
    BY <2>2 DEF IInv, Typed, NothingLatest
<1>5. DOMAIN merge'.sources = {}
  BY <1>1 DEF NewMergeReceiver
<1> QED
  BY <1>2, <1>3, <1>4, <1>5, Forgotten DEF IInv, Typed

(* sacn_merge_receiver_destroy keeps the invariant.                         *)
LEMMA DestroyKeeps == ASSUME IInv, Destroy PROVE IInv'
<1>1. IsReceiver(merge') /\ DOMAIN merge'.sources = {}
  BY NewIs DEF Destroy, NewMergeReceiver
<1> QED
  BY <1>1, Forgotten DEF Destroy, ApiForget

(* sacn_merge_receiver_change_universe keeps the invariant: when it         *)
(* completes, no source is left.                                            *)
LEMMA ChangeUniverseKeeps == ASSUME IInv, ChangeUniverse PROVE IInv'
<1> DEFINE changed == UniverseChanged(merge)
<1>1. /\ IsReceiver(changed.merge) /\ changed.complete \in BOOLEAN
      /\ changed.complete => DOMAIN changed.merge.sources = {}
  BY UniverseChangedIs DEF IInv, Typed
<1>2. \/ merge' = changed.merge /\ status' = IF changed.complete THEN status ELSE "failed"
      \/ merge' = merge /\ status' = "failed"
  BY DEF ChangeUniverse
<1> HIDE DEF changed
<1>3. IsReceiver(merge') /\ status' \in {"none", "created", "failed"}
  BY <1>1, <1>2 DEF IInv, Typed
<1>4. Undisturbed' => DOMAIN merge'.sources = {}
  BY <1>1, <1>2 DEF Undisturbed
<1>5. /\ told' = NothingToldYet /\ shown' = None /\ latest' = NothingLatest
      /\ astray' = NoneAstray
      /\ late' \in {"no", "pending", "delivered"}
  BY DEF ChangeUniverse, ApiForget
<1> QED
  BY <1>3, <1>4, <1>5, Forgotten

-----------------------------------------------------------------------------
(* What changes no source.                                                  *)

(* Whether there is a sampling period is nothing to the sources.            *)
LEMMA PeriodAgrees ==
    ASSUME NEW r, IsReceiver(r), NEW sampling \in BOOLEAN, NEW t, NEW l, NEW a, AllAgree(r, t, l, a)
    PROVE  AllAgree(SetSampling(r, sampling), t, l, a)
<1> DEFINE n == SetSampling(r, sampling)
<1>1. /\ n.use_pap = r.use_pap
      /\ n.sources = r.sources /\ n.main = r.main /\ n.samp = r.samp
  BY SamplingSetIs
<1> HIDE DEF n
<1>2. ASSUME NEW h \in Handles PROVE SourceAgrees(n, t, l, a, h)
  BY <1>1 DEF AllAgree, SourceAgrees, TheMerger
<1> QED
  BY <1>2 DEF AllAgree, n

(* Nor is it to what the receiver told of them.                             *)
LEMMA ToldAgrees ==
    ASSUME NEW r, NEW t, NEW u, NEW l, NEW a, AllAgree(r, t, l, a),
           u.known = t.known, u.pap = t.pap, u.sampled = t.sampled
    PROVE  AllAgree(r, u, l, a)
  BY DEF AllAgree, SourceAgrees

(* merge_receiver_sampling_started keeps the invariant.                     *)
LEMMA SamplingStartedKeeps == ASSUME IInv, SamplingStarted PROVE IInv'
<1>1. merge' = SetSampling(merge, TRUE) /\ UNCHANGED <<status, shown, latest, astray, late>>
  BY DEF SamplingStarted, SetSampling
<1>2. IsReceiver(merge') /\ merge'.main = merge.main
  BY <1>1, SamplingSetIs DEF IInv, Typed
<1>3. /\ IsTold(told)' /\ told'.known = told.known /\ told'.pap = told.pap
      /\ told'.sampled = told.sampled
  BY PeriodTold DEF IInv, Typed, SamplingStarted, ApiSamplingStarted
<1>4. Typed'
  BY <1>1, <1>2, <1>3 DEF IInv, Typed
<1>5. Idle'
  BY <1>1 DEF SamplingStarted, Called, Idle
<1>6. Agree'
  <2> SUFFICES ASSUME Undisturbed' PROVE AllAgree(merge', told', latest', astray')
    BY DEF Agree
  <2>1. AllAgree(merge, told, latest, astray)
    BY <1>1 DEF IInv, Agree, Undisturbed
  <2>2. AllAgree(merge', told, latest, astray)
    BY <1>1, <2>1, PeriodAgrees DEF IInv, Typed
  <2>3. AllAgree(merge', told', latest, astray)
    BY <1>3, <2>2, ToldAgrees
  <2> QED
    BY <1>1, <2>3
<1>7. ShownIsCurrent'
  BY <1>1, <1>2 DEF IInv, ShownIsCurrent
<1> QED
  BY <1>4, <1>5, <1>6, <1>7 DEF IInv

(* A notification that comes late keeps the invariant.                      *)
LEMMA LateNoticeKeeps == ASSUME IInv, LateNotice PROVE IInv'
<1>1. merge' = merge \/ \E sampling \in BOOLEAN : merge' = SetSampling(merge, sampling)
  BY DEF LateNotice, SetSampling
<1>2. IsReceiver(merge') /\ merge'.main = merge.main
  BY <1>1, SamplingSetIs DEF IInv, Typed
<1>3. Typed'
  BY <1>2 DEF IInv, Typed, LateNotice
<1>4. Idle'
  BY DEF LateNotice, Idle
<1>5. Agree'
  <2>1. AllAgree(merge, told, latest, astray)
    BY DEF IInv, Agree, Undisturbed, LateNotice
  <2>2. AllAgree(merge', told, latest, astray)
    BY <1>1, <2>1, PeriodAgrees DEF IInv, Typed
  <2> QED
    BY <2>2 DEF Agree, LateNotice
<1>6. ShownIsCurrent'
  BY <1>2 DEF IInv, ShownIsCurrent, LateNotice
<1> QED
  BY <1>3, <1>4, <1>5, <1>6 DEF IInv

-----------------------------------------------------------------------------
(* A source loses its priorities.                                           *)

(* What is known of every source agrees when one lost its priorities.       *)
LEMMA PapLostAgrees ==
    ASSUME NEW r, IsReceiver(r), NEW t, NEW l, NEW a, AllAgree(r, t, l, a), NEW h \in DOMAIN r.sources,
           NEW u, u.known = t.known, u.pap = t.pap \ {h}, u.sampled = t.sampled,
           NEW b, b.dmx = a.dmx, b.pap = a.pap \ {h}
    PROVE  AllAgree(merge_receiver_pap_lost(r, h), u, l, b)
<1> DEFINE n == merge_receiver_pap_lost(r, h)
           sampling == r.sources[h].sampling
<1>1. PapForgotten(r, n, h) /\ h \in Handles /\ r.sources[h] \in Source
  BY PapLostIs DEF IsReceiver
<1> HIDE DEF n
<1>2. ASSUME NEW x \in Handles, x # h PROVE SourceAgrees(n, u, l, b, x)
  <2>1. SourceAgrees(r, t, l, a, x) /\ Only(r, n, {h})
    BY <1>1 DEF AllAgree, PapForgotten
  <2> QED
    BY <1>2, <2>1, AgreesElsewhere
<1>3. SourceAgrees(n, u, l, b, h)
  <2>1. SourceAgrees(r, t, l, a, h)
    BY <1>1 DEF AllAgree
  <2>2. sampling \in BOOLEAN
    BY <1>1 DEF Source
  <2>3. /\ DOMAIN n.sources = DOMAIN r.sources /\ n.use_pap = r.use_pap
        /\ n.sources[h].sampling = sampling
        /\ n.sources[h].per_address_priorities_active = FALSE
    BY <1>1 DEF PapForgotten, Only, Source
  <2>4. LET before == TheMerger(r, sampling)
            after == TheMerger(n, sampling) IN
        /\ DOMAIN after.sources = DOMAIN before.sources
        /\ h \in DOMAIN before.sources =>
              /\ after.sources[h].levels = before.sources[h].levels
              /\ after.sources[h].valid_level_count = before.sources[h].valid_level_count
              /\ after.sources[h].using_universe_priority = TRUE
    BY <1>1 DEF PapForgotten
  <2> HIDE DEF sampling
  <2>5. h \in t.known /\ h \in u.known /\ (h \notin Movers => (sampling <=> h \in u.sampled))
    BY <2>1, <2>2 DEF SourceAgrees, sampling
  <2>6. /\ h \in DOMAIN TheMerger(r, sampling).sources
        /\ h \in b.dmx => h \in Movers
        /\ h \notin b.dmx /\ l[h] # <<>> =>
              LET merged == TheMerger(r, sampling).sources[h] IN
              /\ merged.valid_level_count = Len(l[h])
              /\ SubSeq(merged.levels, 1, Len(l[h])) = l[h]
    BY <2>1, <2>5 DEF SourceAgrees, sampling
  <2> QED
    BY <2>2, <2>3, <2>4, <2>5, <2>6 DEF SourceAgrees
<1> QED
  BY <1>2, <1>3 DEF AllAgree, n

(* merge_receiver_pap_lost keeps the invariant.                             *)
LEMMA SourcePapLostKeeps == ASSUME IInv, NEW h \in Handles, SourcePapLost(h) PROVE IInv'
<1>1. /\ IsTold(told)' /\ told'.known = told.known /\ told'.pap = told.pap \ {h}
      /\ told'.sampled = told.sampled
  BY WithoutPrioritiesIs DEF IInv, Typed, SourcePapLost, ApiPapLost
<1>2. status = "created" /\ UNCHANGED <<status, latest, late>>
      /\ astray' \in [dmx : SUBSET Handles, pap : SUBSET Handles]
      /\ astray'.dmx = astray.dmx /\ astray'.pap = astray.pap \ {h}
  BY DEF SourcePapLost, Called, IInv, Typed
<1>3. IsReceiver(merge) /\ IsTold(told)
  BY DEF IInv, Typed
<1>4. /\ IsReceiver(merge') /\ ShownIsCurrent'
      /\ AllAgree(merge, told, latest, astray) => AllAgree(merge', told', latest, astray')
  <2>1. CASE merge.use_pap /\ h \in Sources
    <3> DEFINE n == merge_receiver_pap_lost(merge, h)
    <3>1. /\ merge' = n
          /\ shown' = IF merge.sources[h].sampling THEN shown ELSE Shown(merge')
      BY <2>1 DEF SourcePapLost
    <3>2. h \in DOMAIN merge.sources
      BY <2>1 DEF Sources
    <3>3. IsReceiver(n) /\ PapForgotten(merge, n, h)
      BY <1>3, <3>2, PapLostIs
    <3>4. AllAgree(merge, told, latest, astray) => AllAgree(n, told', latest, astray')
      BY <1>1, <1>2, <1>3, <3>2, PapLostAgrees
    <3> HIDE DEF n
    <3>5. ShownIsCurrent'
      <4>1. merge.sources[h].sampling \in BOOLEAN
        BY <1>3, <3>2 DEF IsReceiver, Source
      <4>2. CASE merge.sources[h].sampling = TRUE
        BY <3>1, <3>3, <4>2 DEF IInv, ShownIsCurrent, PapForgotten
      <4>3. CASE merge.sources[h].sampling = FALSE
        <5>1. shown'.out = merge'.main.out
          BY <3>1, <4>3 DEF Shown
        <5> QED
          BY <5>1 DEF ShownIsCurrent
      <4> QED
        BY <4>1, <4>2, <4>3
    <3> QED
      BY <3>1, <3>3, <3>4, <3>5
  <2>2. CASE ~(merge.use_pap /\ h \in Sources)
    <3>1. merge' = merge /\ shown' = shown
      BY <2>2 DEF SourcePapLost
    <3>2. AllAgree(merge, told, latest, astray) => AllAgree(merge, told', latest, astray')
      <4>1. CASE ~merge.use_pap
        BY <1>1, <1>2, <4>1 DEF AllAgree, SourceAgrees
      <4>2. CASE h \notin Sources
        <5> SUFFICES ASSUME AllAgree(merge, told, latest, astray) PROVE AllAgree(merge, told', latest, astray')
          OBVIOUS
        <5>1. h \notin told.known
          BY <4>2 DEF AllAgree, SourceAgrees, Sources
        <5>2. told'.pap = told.pap
          BY <1>1, <1>3, <5>1 DEF IsTold
        <5> QED
          BY <1>1, <1>2, <5>1, <5>2 DEF AllAgree, SourceAgrees
      <4> QED
        BY <2>2, <4>1, <4>2
    <3> QED
      BY <1>3, <3>1, <3>2 DEF IInv, ShownIsCurrent
  <2> QED
    BY <2>1, <2>2
<1>5. Typed'
  BY <1>1, <1>2, <1>4 DEF IInv, Typed
<1>6. Idle'
  BY <1>2 DEF Idle
<1>7. Agree'
  BY <1>2, <1>4 DEF IInv, Agree, Undisturbed
<1> QED
  BY <1>4, <1>5, <1>6, <1>7 DEF IInv

-----------------------------------------------------------------------------
(* Sources are lost.                                                        *)

(* What is known of every source agrees when some are lost.                 *)
LEMMA LostAgrees ==
    ASSUME NEW r, IsReceiver(r), NEW lost, NEW t, NEW l, NEW a, AllAgree(r, t, l, a),
           NEW u, u.known = t.known \ lost, u.pap = t.pap \ lost, u.sampled = t.sampled \ lost,
           NEW k, \A x \in Handles \ lost : k[x] = l[x],
           NEW b, b.dmx = a.dmx \ lost, b.pap = a.pap \ lost
    PROVE  AllAgree(merge_receiver_sources_lost(r, lost), u, k, b)
<1> DEFINE n == merge_receiver_sources_lost(r, lost)
           gone == lost \cap DOMAIN r.sources
<1>1. Only(r, n, gone) /\ DOMAIN n.sources = DOMAIN r.sources \ lost
  BY SourcesLostIs
<1> HIDE DEF n
<1>2. ASSUME NEW x \in Handles PROVE SourceAgrees(n, u, k, b, x)
  <2>1. CASE x \in lost
    BY <1>1, <2>1 DEF SourceAgrees
  <2>2. CASE x \notin lost
    <3>1. SourceAgrees(r, t, l, a, x) /\ x \notin gone /\ l[x] = k[x]
      BY <2>2 DEF AllAgree
    <3>2. /\ x \in t.known <=> x \in u.known
          /\ x \in t.pap <=> x \in u.pap
          /\ x \in t.sampled <=> x \in u.sampled
          /\ x \in a.dmx <=> x \in b.dmx
          /\ x \in a.pap <=> x \in b.pap
      BY <2>2
    <3> HIDE DEF gone
    <3> QED
      BY <1>1, <3>1, <3>2, AgreesElsewhere
  <2> QED
    BY <2>1, <2>2
<1> QED
  BY <1>2 DEF AllAgree, n

(* merge_receiver_sources_lost keeps the invariant.                         *)
LEMMA SourcesLostKeeps == ASSUME IInv, SourcesLost PROVE IInv'
<1>1. PICK lost \in SUBSET Handles :
        /\ Called /\ ApiSourcesLost(lost)
        /\ merge' = merge_receiver_sources_lost(merge, lost)
        /\ shown' = IF \E h \in lost \cap Sources : ~merge.sources[h].sampling
                    THEN Shown(merge') ELSE shown
        /\ latest' = [h \in Handles |-> IF h \in lost THEN NothingLatest[h] ELSE latest[h]]
        /\ astray' = [dmx |-> astray.dmx \ lost, pap |-> astray.pap \ lost]
        /\ UNCHANGED <<status, late>>
  BY DEF SourcesLost
<1>2. /\ IsTold(told)' /\ told'.known = told.known \ lost /\ told'.pap = told.pap \ lost
      /\ told'.sampled = told.sampled \ lost
  BY <1>1, LostIs DEF IInv, Typed, ApiSourcesLost
<1>3. /\ IsReceiver(merge')
      /\ (\A h \in lost \cap DOMAIN merge.sources : merge.sources[h].sampling) =>
            merge'.main = merge.main
  BY <1>1, SourcesLostIs DEF IInv, Typed
<1>4. /\ latest' \in [Handles -> LevelValues \cup {<<>>}]
      /\ \A x \in Handles \ lost : latest'[x] = latest[x]
      /\ \A x \in Handles \ told'.known : latest'[x] = <<>>
  BY <1>1, <1>2 DEF IInv, Typed, NothingLatest
<1>5. Typed'
  BY <1>1, <1>2, <1>3, <1>4 DEF IInv, Typed
<1>6. Idle'
  BY <1>1 DEF Called, Idle
<1>7. Agree'
  <2> SUFFICES ASSUME Undisturbed' PROVE AllAgree(merge', told', latest', astray')
    BY DEF Agree
  <2>1. AllAgree(merge, told, latest, astray) /\ IsReceiver(merge)
    BY <1>1 DEF IInv, Typed, Agree, Undisturbed
  <2>2. AllAgree(merge_receiver_sources_lost(merge, lost), told', latest', astray')
    BY <1>1, <1>2, <1>4, <2>1, LostAgrees
  <2> QED
    BY <1>1, <2>2
<1>8. ShownIsCurrent'
  <2>1. CASE \E h \in lost \cap Sources : ~merge.sources[h].sampling
    <3>1. shown'.out = merge'.main.out
      BY <1>1, <2>1 DEF Shown
    <3> QED
      BY <3>1 DEF ShownIsCurrent
  <2>2. CASE ~ \E h \in lost \cap Sources : ~merge.sources[h].sampling
    BY <1>1, <1>3, <2>2 DEF IInv, ShownIsCurrent, Sources
  <2> QED
    BY <2>1, <2>2
<1> QED
  BY <1>5, <1>6, <1>7, <1>8 DEF IInv

-----------------------------------------------------------------------------
(* The end of a sampling period.                                            *)

(* The main merger has room for every source the sampling one has.          *)
LEMMA RoomForAll ==
    ASSUME NEW r, IsReceiver(r), NEW t, IsTold(t), NEW l, NEW a, AllAgree(r, t, l, a)
    PROVE  Cardinality(DOMAIN r.main.sources \cup DOMAIN r.samp.sources) <= MaxSources
<1> DEFINE merged == DOMAIN r.main.sources \cup DOMAIN r.samp.sources
<1>1. merged \subseteq t.known
  <2>1. DOMAIN r.main.sources \subseteq DOMAIN r.sources
    BY DEF IsReceiver, Placed, TheMerger
  <2>2. DOMAIN r.samp.sources \subseteq DOMAIN r.sources
    BY DEF IsReceiver, Placed, TheMerger
  <2>3. DOMAIN r.sources \subseteq t.known
    BY DEF AllAgree, SourceAgrees, IsReceiver
  <2> QED
    BY <2>1, <2>2, <2>3
<1> HIDE DEF merged
<1>2. IsFiniteSet(t.known) /\ Cardinality(t.known) \in Nat
  BY MergeReceiverAssumption, FS_Subset, FS_CardinalityType DEF IsTold
<1>3. Cardinality(merged) \in Nat /\ Cardinality(merged) <= Cardinality(t.known)
  BY <1>1, <1>2, FS_Subset, FS_CardinalityType
<1>4. Cardinality(merged) <= MaxSources
  BY <1>2, <1>3, ApiAssumption DEF IsTold
<1> QED
  BY <1>4 DEF merged

(* Each of them counts in the main merger as it did in the sampling one.    *)
LEMMA AllTransferred ==
    ASSUME NEW r, IsReceiver(r), NEW t, IsTold(t), NEW l, NEW a, AllAgree(r, t, l, a)
    PROVE  LET n == merge_receiver_sampling_ended(r) IN
           \A h \in DOMAIN r.samp.sources :
               h \in DOMAIN n.main.sources /\ CountsAs(r.samp.sources[h], n.main.sources[h])
  BY RoomForAll, SamplingEndedIs

(* What is known of every source agrees when the period is over.            *)
LEMMA EndedAgrees ==
    ASSUME NEW r, IsReceiver(r), NEW t, IsTold(t), NEW l, NEW a, AllAgree(r, t, l, a),
           NEW u, u.known = t.known, u.pap = t.pap, u.sampled = {}
    PROVE  AllAgree(merge_receiver_sampling_ended(r), u, l, a)
<1> DEFINE n == merge_receiver_sampling_ended(r)
<1>1. /\ n.use_pap = r.use_pap /\ DOMAIN n.sources = DOMAIN r.sources
      /\ \A h \in DOMAIN r.sources : n.sources[h] = NotSampling(r.sources[h])
      /\ SameBut(r.main.sources, n.main.sources, DOMAIN r.samp.sources)
  BY SamplingEndedIs
<1>2. \A h \in DOMAIN r.samp.sources :
         h \in DOMAIN n.main.sources /\ CountsAs(r.samp.sources[h], n.main.sources[h])
  BY AllTransferred
<1> HIDE DEF n
<1>3. ASSUME NEW h \in Handles PROVE SourceAgrees(n, u, l, a, h)
  <2>1. SourceAgrees(r, t, l, a, h)
    BY DEF AllAgree
  <2>2. CASE h \notin t.known
    BY <1>1, <2>1, <2>2 DEF SourceAgrees
  <2>3. CASE h \in t.known
    <3> DEFINE sampling == r.sources[h].sampling
               before == TheMerger(r, sampling).sources[h]
               after == n.main.sources[h]
    <3>1. h \in DOMAIN r.sources /\ h \in DOMAIN n.sources
      BY <1>1, <2>1, <2>3 DEF SourceAgrees
    <3>2. r.sources[h] \in Source
      BY <3>1 DEF IsReceiver
    <3>3. /\ n.sources[h].sampling = FALSE
          /\ n.sources[h].per_address_priorities_active = r.sources[h].per_address_priorities_active
      BY <1>1, <3>1, <3>2 DEF NotSampling, Source
    <3>4. sampling \in BOOLEAN
      BY <3>2 DEF Source
    <3> HIDE DEF sampling
    <3>5. h \in DOMAIN TheMerger(r, sampling).sources
      BY <2>1, <2>3 DEF SourceAgrees, sampling
    <3>6. /\ h \in DOMAIN n.main.sources
          /\ after.levels = before.levels /\ after.valid_level_count = before.valid_level_count
          /\ after.using_universe_priority = before.using_universe_priority
      <4>1. CASE sampling = TRUE
        <5>1. h \in DOMAIN r.samp.sources /\ before = r.samp.sources[h]
          BY <3>5, <4>1 DEF TheMerger
        <5> HIDE DEF before
        <5> QED
          BY <1>2, <5>1 DEF CountsAs, SameIn
      <4>2. CASE sampling = FALSE
        <5>1. h \in DOMAIN r.main.sources /\ before = r.main.sources[h]
          BY <3>5, <4>2 DEF TheMerger
        <5>2. h \notin DOMAIN r.samp.sources
          BY <4>2 DEF IsReceiver, Placed, TheMerger, sampling
        <5>3. h \in DOMAIN n.main.sources /\ after = before
          BY <1>1, <5>1, <5>2 DEF SameBut
        <5> HIDE DEF before, after
        <5> QED
          BY <5>3
      <4> QED
        BY <3>4, <4>1, <4>2
    <3>7. /\ h \notin a.dmx /\ l[h] # <<>> =>
                /\ before.valid_level_count = Len(l[h])
                /\ SubSeq(before.levels, 1, Len(l[h])) = l[h]
          /\ r.use_pap =>
                /\ r.sources[h].per_address_priorities_active <=> h \in t.pap
                /\ h \notin a.pap => (before.using_universe_priority <=> h \notin t.pap)
          /\ h \in a.dmx => h \in Movers
          /\ h \in a.pap => h \in Movers
      BY <2>1, <2>3 DEF SourceAgrees, sampling
    <3>8. TheMerger(n, FALSE) = n.main
      BY DEF TheMerger
    <3> HIDE DEF before
    <3> QED
      BY <1>1, <2>3, <3>1, <3>3, <3>6, <3>7, <3>8 DEF SourceAgrees
  <2> QED
    BY <2>2, <2>3
<1> QED
  BY <1>3 DEF AllAgree, n

(* merge_receiver_sampling_ended keeps the invariant.                       *)
LEMMA SamplingEndedKeeps == ASSUME IInv, SamplingEnded PROVE IInv'
<1> DEFINE n == merge_receiver_sampling_ended(merge)
<1>1. /\ merge' = n /\ shown' = IF Sources = {} THEN shown ELSE Shown(merge')
      /\ status = "created" /\ UNCHANGED <<status, latest, astray, late>>
  BY DEF SamplingEnded, Called
<1>2. IsReceiver(n) /\ (DOMAIN merge.samp.sources = {} => n.main = merge.main)
  BY SamplingEndedIs DEF IInv, Typed
<1>3. /\ IsTold(told)' /\ told'.known = told.known /\ told'.pap = told.pap
      /\ told'.sampled = {}
  BY PeriodTold DEF IInv, Typed, SamplingEnded, ApiSamplingEnded
<1>4. Undisturbed' => AllAgree(n, told', latest, astray)
  <2> SUFFICES ASSUME Undisturbed' PROVE AllAgree(n, told', latest, astray)
    OBVIOUS
  <2>1. IsReceiver(merge) /\ IsTold(told) /\ AllAgree(merge, told, latest, astray)
    BY <1>1 DEF IInv, Typed, Agree, Undisturbed
  <2> QED
    BY <1>3, <2>1, EndedAgrees
<1> HIDE DEF n
<1>5. Typed'
  BY <1>1, <1>2, <1>3 DEF IInv, Typed
<1>6. Idle'
  BY <1>1 DEF Idle
<1>7. Agree'
  BY <1>1, <1>4 DEF Agree
<1>8. ShownIsCurrent'
  <2>1. CASE Sources = {}
    <3>1. DOMAIN merge.samp.sources = {}
      BY <2>1 DEF IInv, Typed, IsReceiver, Placed, TheMerger, Sources
    <3> QED
      BY <1>1, <1>2, <2>1, <3>1 DEF IInv, ShownIsCurrent
  <2>2. CASE Sources # {}
    <3>1. shown'.out = merge'.main.out
      BY <1>1, <2>2 DEF Shown
    <3> QED
      BY <3>1 DEF ShownIsCurrent
  <2> QED
    BY <2>1, <2>2
<1> QED
  BY <1>5, <1>6, <1>7, <1>8 DEF IInv

-----------------------------------------------------------------------------

(* Every step keeps the invariant.                                          *)
LEMMA NextKeeps == ASSUME IInv, [Next]_vars PROVE IInv'
<1>1. CASE Create
  BY <1>1, CreateKeeps
<1>2. CASE Destroy
  BY <1>2, DestroyKeeps
<1>3. CASE ChangeUniverse
  BY <1>3, ChangeUniverseKeeps
<1>4. ASSUME NEW h \in Handles, LevelData(h) PROVE IInv'
  BY <1>4, LevelDataKeeps
<1>5. ASSUME NEW h \in Handles, PriorityData(h) PROVE IInv'
  BY <1>5, PriorityDataKeeps
<1>6. ASSUME NEW h \in Handles, OtherData(h) PROVE IInv'
  BY <1>6, OtherDataKeeps
<1>7. ASSUME NEW h \in Handles, SourcePapLost(h) PROVE IInv'
  BY <1>7, SourcePapLostKeeps
<1>8. ASSUME NEW h \in Handles, LateData(h) PROVE IInv'
  BY <1>8, LateDataKeeps
<1>9. CASE SourcesLost
  BY <1>9, SourcesLostKeeps
<1>10. CASE SamplingStarted
  BY <1>10, SamplingStartedKeeps
<1>11. CASE SamplingEnded
  BY <1>11, SamplingEndedKeeps
<1>12. CASE LateNotice
  BY <1>12, LateNoticeKeeps
<1>13. CASE UNCHANGED vars
  BY <1>13 DEF IInv, Typed, Idle, Agree, ShownIsCurrent, Undisturbed, vars
<1> QED
  BY <1>1, <1>2, <1>3, <1>4, <1>5, <1>6, <1>7, <1>8, <1>9, <1>10, <1>11, <1>12, <1>13
  DEF Next

(* The inductive invariant holds of every behaviour of the merge receiver.  *)
THEOREM Invariant == Spec => []IInv
<1>1. Init => IInv
  BY InitHolds
<1>2. IInv /\ [Next]_vars => IInv'
  BY NextKeeps
<1> QED
  BY <1>1, <1>2, PTL DEF Spec

(* The invariant gives the type invariant.                                  *)
LEMMA Types == ASSUME IInv PROVE TypeOK
<1>1. IsReceiver(merge) /\ IsTold(told)
  BY DEF IInv, Typed
<1>2. \A merger \in {merge.main, merge.samp} :
         Merger!IsMerger(merger) /\ Cardinality(DOMAIN merger.sources) <= MaxSources
  <2>1. Good(merge.main) /\ Good(merge.samp)
    BY <1>1 DEF IsReceiver
  <2>2. ASSUME NEW m, Good(m) PROVE Merger!IsMerger(m) /\ Cardinality(DOMAIN m.sources) <= MaxSources
    BY <2>2, GoodFields, IsMergerSame DEF Good
  <2> QED
    BY <2>1, <2>2
<1> QED
  BY <1>1, <1>2 DEF IInv, Typed, TypeOK, IsReceiver, IsTold, Sources

(* Every source is in the merger that its own flag names, and nothing else  *)
(* is; only those that move have another flag than their data.              *)
LEMMA Places == ASSUME IInv PROVE MergersMatchSources
<1> SUFFICES ASSUME Undisturbed
             PROVE  /\ Sources = told.known
                    /\ DOMAIN merge.samp.sources = SamplingSources
                    /\ DOMAIN merge.main.sources = Sources \ SamplingSources
                    /\ SamplingSources \ Movers = told.sampled \ Movers
                    /\ astray.dmx \cup astray.pap \subseteq Movers
  BY DEF MergersMatchSources
<1>1. IsReceiver(merge) /\ IsTold(told) /\ AllAgree(merge, told, latest, astray)
  BY DEF IInv, Typed, Agree
<1>2. DOMAIN merge.sources = told.known
  BY <1>1 DEF AllAgree, SourceAgrees, IsReceiver, IsTold
<1>3. \A h \in told.known : merge.sources[h].sampling \in BOOLEAN
  BY <1>1, <1>2 DEF IsReceiver, Source
<1>4. \A h \in told.known :
         /\ h \notin Movers => (merge.sources[h].sampling <=> h \in told.sampled)
         /\ h \in DOMAIN TheMerger(merge, merge.sources[h].sampling).sources
  BY <1>1 DEF AllAgree, SourceAgrees, IsTold
<1>5. \A h \in told.known :
         IF merge.sources[h].sampling = TRUE THEN h \in DOMAIN merge.samp.sources
         ELSE h \in DOMAIN merge.main.sources
  BY <1>3, <1>4 DEF TheMerger
<1>6. /\ \A h \in DOMAIN merge.samp.sources : h \in told.known /\ merge.sources[h].sampling = TRUE
      /\ \A h \in DOMAIN merge.main.sources : h \in told.known /\ merge.sources[h].sampling = FALSE
  BY <1>1, <1>2 DEF IsReceiver, Placed, TheMerger
<1>7. SamplingSources = {h \in told.known : merge.sources[h].sampling = TRUE}
  BY <1>2, <1>3 DEF SamplingSources, Sources
<1>8. SamplingSources \ Movers = told.sampled \ Movers
  BY <1>1, <1>3, <1>4, <1>7 DEF IsTold
<1>9. astray.dmx \cup astray.pap \subseteq Movers
  <2>1. astray.dmx \subseteq Handles /\ astray.pap \subseteq Handles
    BY DEF IInv, Typed
  <2> QED
    BY <1>1, <2>1 DEF AllAgree, SourceAgrees
<1> QED
  BY <1>2, <1>5, <1>6, <1>7, <1>8, <1>9 DEF Sources

(* MergerSource is the merger's record of a source that SourceAgrees is of. *)
LEMMA TheirSource ==
    ASSUME IInv, Undisturbed, NEW h \in told.known
    PROVE  /\ SourceAgrees(merge, told, latest, astray, h)
           /\ TheMerger(merge, merge.sources[h].sampling).sources[h] = MergerSource(h)
<1>1. IsReceiver(merge) /\ h \in Handles /\ SourceAgrees(merge, told, latest, astray, h)
  BY DEF IInv, Typed, Agree, AllAgree, IsTold
<1>2. h \in DOMAIN merge.sources
  BY <1>1 DEF SourceAgrees
<1>3. merge.sources[h].sampling \in BOOLEAN
  BY <1>1, <1>2 DEF IsReceiver, Source
<1> QED
  BY <1>1, <1>2, <1>3 DEF MergerSource, SamplingSources, Sources, TheMerger

(* The records of whether a source has priorities of its own agree.         *)
LEMMA Paps == ASSUME IInv PROVE PapAgrees
<1> SUFFICES ASSUME Undisturbed, merge.use_pap, NEW h \in told.known
             PROVE  /\ sacn_merge_receiver_get_source(h).per_address_priorities_active
                         <=> h \in told.pap
                    /\ h \notin astray.pap =>
                         (MergerSource(h).using_universe_priority <=> h \notin told.pap)
  BY DEF PapAgrees
<1> QED
  BY TheirSource DEF SourceAgrees, sacn_merge_receiver_get_source

(* The mergers have the latest levels.                                      *)
LEMMA Levels == ASSUME IInv PROVE MergedIsLatest
<1> SUFFICES ASSUME Undisturbed, NEW h \in told.known \ astray.dmx, latest[h] # <<>>
             PROVE  /\ MergerSource(h).valid_level_count = Len(latest[h])
                    /\ SubSeq(MergerSource(h).levels, 1, Len(latest[h])) = latest[h]
  BY DEF MergedIsLatest, HasLatest
<1> QED
  BY TheirSource DEF SourceAgrees

(* The receiver's sources, the merge receiver's table of them and its two   *)
(* mergers agree in every behaviour: each source is in exactly one merger,  *)
(* the one its own flag names, and counts with priorities of its own when   *)
(* the receiver said so last (Consistent), whatever comes in between, until *)
(* late data of another universe does.  Any sources may move between what is*)
(* sampled and what is not: what they send with the other flag goes astray, *)
(* and nothing else does.                                                   *)
THEOREM ConsistentCorrect == Spec => []Consistent
<1>1. IInv => Consistent
  BY Types, Places, Paps DEF Consistent
<1> QED
  BY <1>1, Invariant, PTL

(* The mergers have the latest levels of every source, also across the end  *)
(* of a sampling period, unless it moved and they went astray, and the      *)
(* application was shown what the main merger makes of them: no handler that*)
(* changes its output forgets to show it.                                   *)
THEOREM LatestShownCorrect == Spec => []LatestShown
<1>1. IInv => LatestShown
  BY Levels DEF IInv, LatestShown
<1> QED
  BY <1>1, Invariant, PTL

(* The end of a sampling period moves every source it has to the main       *)
(* merger, where it counts, slot by slot, exactly as it did in the sampling *)
(* one: there is room for all of them, and no call of the mergers fails.    *)
THEOREM TransferExactCorrect == Spec => TransferExact
<1>1. ASSUME IInv, SamplingEnded, Undisturbed, NEW h \in SamplingSources
      PROVE  SameIn(merge.samp.sources[h], merge.main.sources'[h])
  <2>1. IsReceiver(merge) /\ IsTold(told) /\ AllAgree(merge, told, latest, astray)
    BY <1>1 DEF IInv, Typed, Agree
  <2>2. h \in DOMAIN merge.samp.sources
    BY <1>1, Places DEF MergersMatchSources
  <2>3. merge' = merge_receiver_sampling_ended(merge)
    BY <1>1 DEF SamplingEnded
  <2>4. CountsAs(merge.samp.sources[h], merge'.main.sources[h])
    BY <2>1, <2>2, <2>3, AllTransferred
  <2> QED
    BY <2>4 DEF CountsAs
<1>2. IInv => [SamplingEnded /\ Undisturbed => \A h \in SamplingSources :
                  SameIn(merge.samp.sources[h], merge.main.sources'[h])]_vars
  BY <1>1
<1> QED
  BY <1>2, Invariant, PTL DEF TransferExact

(* What merging from scratch gives.                                         *)
LEMMA MergedSame == ASSUME NEW m PROVE Calls!Merged(m) <=> Merger!Merged(m)
<1>1. ASSUME NEW slot PROVE Calls!SlotMerged(m, slot) <=> Merger!SlotMerged(m, slot)
  <2> DEFINE all == {Merger!Candidate(m, h, slot) : h \in DOMAIN m.sources}
  <2>1. {Calls!Candidate(m, h, slot) : h \in DOMAIN m.sources} = all
    BY CandidateSame
  <2> HIDE DEF all
  <2>2. Calls!SlotMerged(m, slot) <=>
           LET sourced == {c \in all : c.pap > 0} IN
           IF sourced = {} THEN m.out[slot] = Merger!Unowned
           ELSE m.out[slot] \in {c \in sourced : \A d \in sourced : ~Merger!Beats(d, c)}
    BY <2>1, DataSame DEF Calls!SlotMerged, Calls!Beats, Merger!Beats
  <2> QED
    BY <2>2 DEF Merger!SlotMerged, all
<1> QED
  BY <1>1, DataSame DEF Calls!Merged, Merger!Merged

(* Both mergers of a merge receiver always have what merging their sources  *)
(* from scratch gives, late data or not: what DmxMerger promises holds      *)
(* under the calls that merge_receiver.c makes.                             *)
THEOREM BothMergersMerged == Spec => [](Merger!Merged(merge.main) /\ Merger!Merged(merge.samp))
<1>1. IInv => Merger!Merged(merge.main) /\ Merger!Merged(merge.samp)
  BY MergedSame DEF IInv, Typed, IsReceiver, Good, Calls!UpToDate
<1> QED
  BY <1>1, Invariant, PTL
=============================================================================
