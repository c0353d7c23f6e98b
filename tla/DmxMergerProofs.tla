-------------------------- MODULE DmxMergerProofs --------------------------
(***************************************************************************)
(* Theorems of DmxMerger: for any number of slots and sources, and after   *)
(* any sequence of calls, what the merger keeps up to date call by call is *)
(* what a merge from scratch gives.                                        *)
(*                                                                         *)
(* Slot by slot, the argument is about one candidate per source and the    *)
(* present owner: Stands says that nobody beats the owner and that the     *)
(* owner is one of the candidates, or nobody.  One lemma per way a slot is *)
(* updated shows that it stands again after one candidate has changed.     *)
(***************************************************************************)
EXTENDS DmxMerger, FiniteSetTheorems, WellFoundedInduction, TLAPS

-----------------------------------------------------------------------------
(* The best of finitely many.                                               *)

(* A finite set has a first element in any total and transitive relation:  *)
(* the smallest set without one would have one.                             *)
LEMMA FirstExists ==
    ASSUME NEW S, IsFiniteSet(S), S # {}, NEW R,
           \A x, y \in S : <<x, y>> \in R \/ <<y, x>> \in R,
           \A x, y, z \in S : <<x, y>> \in R /\ <<y, z>> \in R => <<x, z>> \in R
    PROVE  \E x \in S : \A y \in S : <<x, y>> \in R
<1> DEFINE HasFirst(T) == \E x \in T : \A y \in T : <<x, y>> \in R
           Bad == {T \in FiniteSubsetsOf(S) : T # {} /\ ~HasFirst(T)}
<1> SUFFICES ASSUME ~HasFirst(S) PROVE FALSE
  OBVIOUS
<1>0. FiniteSubsetsOf(S) = SUBSET S
  BY FS_FiniteSubsetsOfFinite
<1>1. S \in Bad
  BY <1>0
<1>2. PICK T \in Bad : \A U \in Bad : ~(<<U, T>> \in StrictSubsetOrdering(S))
  <2>1. Bad \subseteq FiniteSubsetsOf(S) /\ Bad # {}
    BY <1>1
  <2> HIDE DEF Bad
  <2> QED
    BY <2>1, WFMin, FS_StrictSubsetOrderingWellFounded
<1>3. T \subseteq S /\ T # {} /\ ~HasFirst(T)
  BY <1>0
<1>4. PICK x \in T : TRUE
  BY <1>3
<1> DEFINE U == T \ {x}
<1>5. U \subseteq S /\ U # T /\ U \subseteq T
  BY <1>3, <1>4
<1>6. U \notin Bad
  BY <1>2, <1>3, <1>5 DEF StrictSubsetOrdering
<1>7. U = {} \/ HasFirst(U)
  BY <1>0, <1>5, <1>6
<1>8. CASE U = {}
  <2>1. T = {x}
    BY <1>4, <1>8
  <2> QED
    BY <1>3, <2>1
<1>9. CASE HasFirst(U)
  <2>1. PICK first \in U : \A y \in U : <<first, y>> \in R
    BY <1>9
  <2>2. CASE <<first, x>> \in R
    <3>1. \A y \in T : <<first, y>> \in R
      BY <2>1, <2>2
    <3> QED
      BY <1>3, <2>1, <3>1
  <2>3. CASE <<x, first>> \in R
    <3>1. \A y \in T : <<x, y>> \in R
      <4> TAKE y \in T
      <4>1. CASE y = x
        BY <1>3, <1>4, <4>1
      <4>2. CASE y # x
        BY <1>3, <1>4, <2>1, <2>3, <4>2
      <4> QED
        BY <4>1, <4>2
    <3> QED
      BY <1>3, <3>1
  <2> QED
    BY <1>3, <1>4, <2>1, <2>2, <2>3
<1> QED
  BY <1>7, <1>8, <1>9

(* A finite set of numbers has a greatest, which is what Max gives.         *)
LEMMA MaxOfFinite ==
    ASSUME NEW S, IsFiniteSet(S), S # {}, S \subseteq Nat
    PROVE  Max(S) \in S /\ \A y \in S : Max(S) >= y
<1> DEFINE R == {p \in S \X S : p[1] >= p[2]}
<1>1. \A x, y \in S : <<x, y>> \in R <=> x >= y
  OBVIOUS
<1> HIDE DEF R
<1>2. \A x, y \in S : <<x, y>> \in R \/ <<y, x>> \in R
  <2>1. \A x, y \in S : x >= y \/ y >= x
    OBVIOUS
  <2> QED
    BY <1>1, <2>1
<1>3. \A x, y, z \in S : <<x, y>> \in R /\ <<y, z>> \in R => <<x, z>> \in R
  BY <1>1
<1>4. \E x \in S : \A y \in S : <<x, y>> \in R
  BY <1>2, <1>3, FirstExists
<1>5. \E x \in S : \A y \in S : x >= y
  BY <1>1, <1>4
<1> QED
  BY <1>5 DEF Max

-----------------------------------------------------------------------------
(* Candidates for one slot.                                                 *)

Offer == [level : Nat, pap : Nat, owner : Handles \cup {NoOwner}]

(* Of some candidates, the one BestOf takes when one of them beats the      *)
(* present owner: nobody beats it, and it beats the present owner too.      *)
LEMMA BestExists ==
    ASSUME NEW C, C \subseteq Offer, IsFiniteSet(C), C # {}
    PROVE  \E c \in C : \A d \in C : ~Beats(d, c) /\ (Beats(c, d) \/ c.owner <= d.owner)
<1> DEFINE R == {p \in C \X C : ~Beats(p[2], p[1]) /\ (Beats(p[1], p[2]) \/ p[1].owner <= p[2].owner)}
<1>1. \A c, d \in C : <<c, d>> \in R <=> ~Beats(d, c) /\ (Beats(c, d) \/ c.owner <= d.owner)
  OBVIOUS
<1> HIDE DEF R
<1>2. \A c \in C : c.level \in Nat /\ c.pap \in Nat /\ c.owner \in Int
  <2>1. Handles \cup {NoOwner} \subseteq Int
    BY HandlesAssumption DEF NoOwner
  <2> QED
    BY <2>1 DEF Offer
<1>3. \A c, d \in C : <<c, d>> \in R \/ <<d, c>> \in R
  <2> TAKE c, d \in C
  <2>1. \/ ~Beats(d, c) /\ (Beats(c, d) \/ c.owner <= d.owner)
        \/ ~Beats(c, d) /\ (Beats(d, c) \/ d.owner <= c.owner)
    BY <1>2 DEF Beats
  <2> QED
    BY <1>1, <2>1
<1>4. \A c, d, e \in C : <<c, d>> \in R /\ <<d, e>> \in R => <<c, e>> \in R
  BY <1>1, <1>2 DEF Beats
<1>5. \E c \in C : \A d \in C : <<c, d>> \in R
  BY <1>3, <1>4, FirstExists
<1> QED
  BY <1>1, <1>5

(* What the owner of a slot has to be among the candidates for it.          *)
Stands(o, candidates) ==
    /\ \A c \in candidates : ~Beats(c, o)
    /\ o = Unowned \/ (o \in candidates /\ o.pap > 0)

(* Offered to the other candidates, a slot is theirs who beat all.          *)
LEMMA BestStands ==
    ASSUME NEW others, others \subseteq Offer, IsFiniteSet(others),
           NEW mine \in Offer, NEW o \in Offer,
           o = (IF mine.pap = 0 THEN Unowned ELSE mine)
    PROVE  /\ BestOf(others, o) \in Offer
           /\ Stands(BestOf(others, o), others \cup {mine})
<1> DEFINE best == BestOf(others, o)
<1>1. Unowned \in Offer /\ Unowned.pap = 0 /\ Unowned.level = 0
  BY DEF Unowned, Offer
<1>2. \A c \in Offer : c.level \in Nat /\ c.pap \in Nat
  BY DEF Offer
<1>3. ~Beats(mine, o) /\ (o = Unowned \/ (o = mine /\ o.pap > 0))
  BY <1>1, <1>2 DEF Beats
<1>4. CASE \A c \in others : ~Beats(c, o)
  <2>1. best = o
    BY <1>4 DEF BestOf
  <2> QED
    BY <1>3, <1>4, <2>1 DEF Stands
<1>5. CASE ~(\A c \in others : ~Beats(c, o))
  <2>1. PICK c \in others : Beats(c, o)
    BY <1>5
  <2>2. best = CHOOSE x \in others : \A d \in others :
                 ~Beats(d, x) /\ (Beats(x, d) \/ x.owner <= d.owner)
    BY <1>5 DEF BestOf
  <2>3. best \in others /\ \A d \in others : ~Beats(d, best)
    <3>1. \E x \in others : \A d \in others :
             ~Beats(d, x) /\ (Beats(x, d) \/ x.owner <= d.owner)
      BY <2>1, BestExists
    <3> QED
      BY <2>2, <3>1
  <2>4. best \in Offer /\ ~Beats(c, best)
    BY <2>1, <2>3
  <2>5. best.pap > 0 /\ ~Beats(mine, best)
    <3> HIDE DEF best
    <3> QED
      BY <1>1, <1>2, <2>1, <2>4 DEF Beats
  <2> QED
    BY <2>3, <2>4, <2>5 DEF Stands
<1> QED
  BY <1>4, <1>5
-----------------------------------------------------------------------------
(* One slot of a merger.                                                    *)

Candidates(m, slot) == {Candidate(m, h, slot) : h \in DOMAIN m.sources}

(* What a source offers for a slot.                                         *)
LEMMA CandidateOffer ==
    ASSUME NEW m, IsMerger(m), NEW slot \in Slots, NEW h \in DOMAIN m.sources
    PROVE  /\ Candidate(m, h, slot) \in Offer
           /\ Candidate(m, h, slot).level = m.sources[h].levels[slot]
           /\ Candidate(m, h, slot).pap = SourcePap(m.sources[h], slot)
           /\ Candidate(m, h, slot).owner = h
           /\ h \in Nat /\ h # NoOwner
<1>1. h \in Handles /\ h \in Nat
  BY HandlesAssumption DEF IsMerger
<1>2. m.sources[h] \in Source
  BY DEF IsMerger
<1>3. m.sources[h].levels[slot] \in Nat /\ m.sources[h].address_priority[slot] \in Nat
  BY <1>2 DEF Source
<1>4. SourcePap(m.sources[h], slot) \in Nat
  BY <1>3 DEF SourcePap
<1> QED
  BY <1>1, <1>3, <1>4 DEF Candidate, Offer, NoOwner

(* There are finitely many candidates to choose from.                       *)
LEMMA OthersFinite ==
    ASSUME NEW m, IsMerger(m), NEW slot \in Slots, NEW h \in DOMAIN m.sources
    PROVE  IsFiniteSet(Others(m, h, slot)) /\ Others(m, h, slot) \subseteq Offer
<1> DEFINE D == DOMAIN m.sources \ {h}
           f == [x \in D |-> Candidate(m, x, slot)]
<1>1. IsFiniteSet(D)
  <2>1. D \in SUBSET Handles
    BY DEF IsMerger
  <2> QED
    BY <2>1, HandlesAssumption, FS_Subset
<1>2. f \in Surjection(D, Others(m, h, slot))
  BY DEF Surjection, Others
<1>3. IsFiniteSet(Others(m, h, slot))
  <2> HIDE DEF D, f
  <2> QED
    BY <1>1, <1>2, FS_Surjection
<1>4. Others(m, h, slot) \subseteq Offer
  BY CandidateOffer DEF Others
<1> QED
  BY <1>3, <1>4

(* The two ways to say that a slot is merged.                               *)
LEMMA MergedStands ==
    ASSUME NEW m, IsMerger(m), NEW slot \in Slots
    PROVE  SlotMerged(m, slot) <=> Stands(m.out[slot], Candidates(m, slot))
<1> DEFINE all == Candidates(m, slot)
           sourced == {c \in all : c.pap > 0}
           o == m.out[slot]
<1>1. all \subseteq Offer
  BY CandidateOffer DEF Candidates
<1>2. \A c \in all : c.pap \in Nat /\ c.level \in Nat
  BY <1>1 DEF Offer
<1>3. Unowned.pap = 0 /\ Unowned.level = 0
  BY DEF Unowned
<1>4. SlotMerged(m, slot) <=>
        IF sourced = {} THEN o = Unowned
        ELSE o \in {c \in sourced : \A d \in sourced : ~Beats(d, c)}
  BY DEF SlotMerged, Candidates
<1>5. Stands(o, all) <=> (\A c \in all : ~Beats(c, o)) /\ (o = Unowned \/ (o \in all /\ o.pap > 0))
  BY DEF Stands
<1> SUFFICES SlotMerged(m, slot) <=> Stands(o, all)
  OBVIOUS
<1> HIDE DEF all, o
<1>6. CASE sourced = {}
  BY <1>2, <1>3, <1>4, <1>5, <1>6 DEF Beats
<1>7. CASE sourced # {}
  <2>1. PICK d \in all : d.pap > 0
    BY <1>7
  <2>2. ASSUME o \in sourced, \A x \in sourced : ~Beats(x, o) PROVE \A x \in all : ~Beats(x, o)
    BY <2>2, <1>2 DEF Beats
  <2>3. o = Unowned => Beats(d, o)
    BY <2>1, <1>2, <1>3 DEF Beats
  <2> QED
    BY <1>4, <1>5, <1>7, <2>1, <2>2, <2>3
<1> QED
  BY <1>6, <1>7

(* A slot stays as it was merged when no candidate has changed, or only     *)
(* ones without priority.                                                   *)
LEMMA StandsSame ==
    ASSUME NEW m, IsMerger(m), NEW n, IsMerger(n), NEW slot \in Slots,
           DOMAIN n.sources = DOMAIN m.sources,
           \A x \in DOMAIN m.sources :
              \/ Candidate(n, x, slot) = Candidate(m, x, slot)
              \/ Candidate(n, x, slot).pap = 0 /\ Candidate(m, x, slot).pap = 0,
           NEW o \in Offer, Stands(o, Candidates(m, slot))
    PROVE  Stands(o, Candidates(n, slot))
<1>1. \A x \in DOMAIN m.sources :
         /\ Candidate(n, x, slot) \in Offer /\ Candidate(m, x, slot) \in Offer
  BY CandidateOffer
<1>2. \A c \in Offer : c.pap \in Nat /\ c.level \in Nat
  BY DEF Offer
<1>3. ASSUME NEW x \in DOMAIN n.sources PROVE ~Beats(Candidate(n, x, slot), o)
  <2>1. ~Beats(Candidate(m, x, slot), o)
    BY DEF Stands, Candidates
  <2>2. Candidate(n, x, slot).pap = 0 => ~Beats(Candidate(n, x, slot), o)
    BY <1>1, <1>2 DEF Beats
  <2> QED
    BY <2>1, <2>2
<1>4. ASSUME o # Unowned PROVE o \in Candidates(n, slot) /\ o.pap > 0
  <2>1. PICK x \in DOMAIN m.sources : o = Candidate(m, x, slot) /\ o.pap > 0
    BY <1>4 DEF Stands, Candidates
  <2>2. o.pap # 0
    BY <2>1, <1>2
  <2>3. Candidate(n, x, slot) = o
    BY <2>1, <2>2
  <2> QED
    BY <2>1, <2>3 DEF Candidates
<1> QED
  BY <1>3, <1>4 DEF Stands, Candidates
-----------------------------------------------------------------------------
(* One way to update a slot after the other.                                *)

(* Mergers m and n are the same for a slot, but for what source h offers.   *)
OnlyOfferOf(h, m, n, slot) ==
    /\ IsMerger(m) /\ IsMerger(n) /\ h \in DOMAIN m.sources
    /\ DOMAIN n.sources = DOMAIN m.sources
    /\ \A x \in DOMAIN m.sources \ {h} : Candidate(n, x, slot) = Candidate(m, x, slot)

(* The other candidates are the same; together they are all there are.      *)
LEMMA OfferSplit ==
    ASSUME NEW m, NEW n, NEW slot \in Slots, NEW h, OnlyOfferOf(h, m, n, slot)
    PROVE  /\ Others(n, h, slot) = Others(m, h, slot)
           /\ Candidates(m, slot) = Others(n, h, slot) \cup {Candidate(m, h, slot)}
           /\ Candidates(n, slot) = Others(n, h, slot) \cup {Candidate(n, h, slot)}
           /\ \A c \in Others(n, h, slot) : c.owner # h
           /\ Others(n, h, slot) \subseteq Offer /\ IsFiniteSet(Others(n, h, slot))
           /\ Candidate(m, h, slot) \in Offer /\ Candidate(n, h, slot) \in Offer
<1>1. Others(n, h, slot) = Others(m, h, slot)
  BY DEF OnlyOfferOf, Others
<1>2. Candidates(m, slot) = Others(m, h, slot) \cup {Candidate(m, h, slot)}
  BY DEF OnlyOfferOf, Others, Candidates
<1>3. Candidates(n, slot) = Others(n, h, slot) \cup {Candidate(n, h, slot)}
  BY DEF OnlyOfferOf, Others, Candidates
<1>4. \A c \in Others(n, h, slot) : c.owner # h
  BY CandidateOffer DEF OnlyOfferOf, Others
<1>5. Others(n, h, slot) \subseteq Offer /\ IsFiniteSet(Others(n, h, slot))
  BY OthersFinite DEF OnlyOfferOf
<1>6. Candidate(m, h, slot) \in Offer /\ Candidate(n, h, slot) \in Offer
  BY CandidateOffer DEF OnlyOfferOf
<1> QED
  BY <1>1, <1>2, <1>3, <1>4, <1>5, <1>6

(* merge_new_priorities: the candidate of h has got another priority, its   *)
(* level is the same as long as it had and has a priority.                  *)
LEMMA RemergedStands ==
    ASSUME NEW m, NEW n, NEW slot \in Slots, NEW h, OnlyOfferOf(h, m, n, slot),
           Stands(n.out[slot], Candidates(m, slot)),
           Candidate(m, h, slot).pap > 0 /\ Candidate(n, h, slot).pap > 0 =>
               Candidate(n, h, slot).level = Candidate(m, h, slot).level
    PROVE  /\ Remerged(n, h, slot) \in Offer
           /\ Stands(Remerged(n, h, slot), Candidates(n, slot))
<1>1. Candidates(m, slot) = Others(n, h, slot) \cup {Candidate(m, h, slot)}
  BY DEF OnlyOfferOf, Others, Candidates
<1>2. Candidates(n, slot) = Others(n, h, slot) \cup {Candidate(n, h, slot)}
  BY OfferSplit
<1>3. \A c \in Others(n, h, slot) : c.owner # h
  BY OfferSplit
<1>4. Others(n, h, slot) \subseteq Offer /\ IsFiniteSet(Others(n, h, slot))
  BY OfferSplit
<1>5. Candidate(m, h, slot) \in Offer /\ Candidate(n, h, slot) \in Offer
  BY OfferSplit
<1> DEFINE o == n.out[slot]
           old == Candidate(m, h, slot)
           mine == Candidate(n, h, slot)
           others == Others(n, h, slot)
           result == Remerged(n, h, slot)
<1>6. /\ Candidates(m, slot) = others \cup {old} /\ Candidates(n, slot) = others \cup {mine}
      /\ \A c \in others : c.owner # h
      /\ others \subseteq Offer /\ IsFiniteSet(others) /\ old \in Offer /\ mine \in Offer
  BY <1>1, <1>2, <1>3, <1>4, <1>5
<1>7. o \in Offer /\ old.owner = h /\ mine.owner = h /\ h # NoOwner
  <2>1. IsMerger(m) /\ IsMerger(n) /\ h \in DOMAIN m.sources /\ h \in DOMAIN n.sources
    BY DEF OnlyOfferOf
  <2>2. o \in Offer
    BY <2>1 DEF IsMerger, Offer
  <2> QED
    BY <2>1, <2>2, CandidateOffer
<1>8. \A c \in Offer : c.level \in Nat /\ c.pap \in Nat
  BY DEF Offer
<1>9. Unowned.pap = 0 /\ Unowned.level = 0 /\ Unowned.owner = NoOwner
  BY DEF Unowned
<1>10. /\ \A c \in others : ~Beats(c, o)
       /\ ~Beats(old, o)
       /\ o = Unowned \/ (o \in others /\ o.pap > 0) \/ (o = old /\ o.pap > 0)
  BY <1>6 DEF Stands
<1>11. old.pap > 0 /\ mine.pap > 0 => mine.level = old.level
  OBVIOUS
<1>12. h = o.owner => o = old /\ o.pap > 0
  BY <1>6, <1>7, <1>9, <1>10
<1>13. result = IF mine.pap > o.pap \/ (h # o.owner /\ Beats(mine, o)) THEN mine
                ELSE IF h = o.owner /\ mine.pap < o.pap
                THEN BestOf(others, IF mine.pap = 0 THEN Unowned ELSE [o EXCEPT !.pap = mine.pap])
                ELSE o
  BY DEF Remerged, OfferLowered
<1> SUFFICES result \in Offer /\ Stands(result, others \cup {mine})
  BY <1>6
<1> HIDE DEF o, old, mine, others, result
<1>14. CASE mine.pap > o.pap \/ (h # o.owner /\ Beats(mine, o))
  <2>1. result = mine
    BY <1>13, <1>14
  <2>2. mine.pap > 0 /\ Beats(mine, o)
    BY <1>6, <1>7, <1>8, <1>14 DEF Beats
  <2>3. \A c \in others : ~Beats(c, mine)
    BY <1>6, <1>7, <1>8, <1>10, <2>2 DEF Beats
  <2>4. ~Beats(mine, mine)
    BY <1>6, <1>8 DEF Beats
  <2> QED
    BY <1>6, <2>1, <2>2, <2>3, <2>4 DEF Stands
<1>15. CASE ~(mine.pap > o.pap) /\ h = o.owner /\ mine.pap < o.pap
  <2> DEFINE lowered == IF mine.pap = 0 THEN Unowned ELSE [o EXCEPT !.pap = mine.pap]
  <2>1. result = BestOf(others, lowered)
    BY <1>13, <1>15
  <2>2. ASSUME mine.pap # 0 PROVE [o EXCEPT !.pap = mine.pap] = mine
    <3>1. o = old /\ mine.level = o.level /\ o.owner = mine.owner
      BY <1>6, <1>7, <1>8, <1>11, <1>12, <1>15, <2>2
    <3> QED
      BY <1>6, <1>7, <3>1 DEF Offer
  <2>3. lowered = (IF mine.pap = 0 THEN Unowned ELSE mine) /\ lowered \in Offer
    <3>1. Unowned \in Offer
      BY DEF Unowned, Offer
    <3> QED
      BY <1>6, <2>2, <3>1
  <2> HIDE DEF lowered
  <2> QED
    BY <1>6, <2>1, <2>3, BestStands
<1>16. CASE ~(mine.pap > o.pap) /\ ~(h # o.owner /\ Beats(mine, o)) /\ ~(h = o.owner /\ mine.pap < o.pap)
  <2>1. result = o
    BY <1>13, <1>16
  <2>2. CASE h = o.owner
    <3>1. o = old /\ o.pap > 0 /\ mine.pap = o.pap
      BY <1>6, <1>7, <1>8, <1>12, <1>16, <2>2
    <3>2. mine.level = o.level /\ mine.owner = o.owner
      BY <1>7, <1>11, <3>1
    <3>3. mine = o
      BY <1>6, <1>7, <3>1, <3>2 DEF Offer
    <3>4. ~Beats(mine, o)
      BY <1>8, <1>7, <3>3 DEF Beats
    <3> QED
      BY <1>6, <1>10, <2>1, <3>1, <3>3, <3>4 DEF Stands
  <2>3. CASE h # o.owner
    <3>1. o # old
      BY <1>7, <2>3
    <3> QED
      BY <1>7, <1>10, <1>16, <2>1, <2>3, <3>1 DEF Stands
  <2> QED
    BY <2>2, <2>3
<1> QED
  BY <1>14, <1>15, <1>16

(* update_levels_multi_source: the candidate of h keeps its priority, its   *)
(* level has changed.                                                       *)
LEMMA LevelMultiStands ==
    ASSUME NEW m, NEW n, NEW slot \in Slots, NEW h, OnlyOfferOf(h, m, n, slot),
           Stands(n.out[slot], Candidates(m, slot)),
           Candidate(m, h, slot).pap = n.sources[h].address_priority[slot],
           Candidate(n, h, slot).pap = n.sources[h].address_priority[slot]
    PROVE  /\ LevelMulti(n, h, slot) \in Offer
           /\ Stands(LevelMulti(n, h, slot), Candidates(n, slot))
<1>1. Candidates(m, slot) = Others(n, h, slot) \cup {Candidate(m, h, slot)}
  BY DEF OnlyOfferOf, Others, Candidates
<1>2. Candidates(n, slot) = Others(n, h, slot) \cup {Candidate(n, h, slot)}
  BY OfferSplit
<1>3. Others(n, h, slot) \subseteq Offer /\ IsFiniteSet(Others(n, h, slot))
  BY OfferSplit
<1>4. Candidate(m, h, slot) \in Offer /\ Candidate(n, h, slot) \in Offer
  BY OfferSplit
<1>5. \A c \in Others(n, h, slot) : c.owner # h
  BY DEF Others, Candidate
<1> DEFINE o == n.out[slot]
           old == Candidate(m, h, slot)
           mine == Candidate(n, h, slot)
           others == Others(n, h, slot)
           peers == {c \in others : c.pap = o.pap}
           result == LevelMulti(n, h, slot)
<1>6. /\ Candidates(m, slot) = others \cup {old} /\ Candidates(n, slot) = others \cup {mine}
      /\ \A c \in others : c.owner # h
      /\ others \subseteq Offer /\ IsFiniteSet(others) /\ old \in Offer /\ mine \in Offer
  BY <1>1, <1>2, <1>3, <1>4, <1>5
<1>7. o \in Offer /\ old.owner = h /\ mine.owner = h /\ h # NoOwner
  <2>1. IsMerger(m) /\ IsMerger(n) /\ h \in DOMAIN m.sources /\ h \in DOMAIN n.sources
    BY DEF OnlyOfferOf
  <2>2. o \in Offer
    BY <2>1 DEF IsMerger, Offer
  <2> QED
    BY <2>1, <2>2, CandidateOffer
<1>8. \A c \in Offer : c.level \in Nat /\ c.pap \in Nat
  BY DEF Offer
<1>9. Unowned.pap = 0 /\ Unowned.level = 0 /\ Unowned.owner = NoOwner
  BY DEF Unowned
<1>10. /\ \A c \in others : ~Beats(c, o)
       /\ ~Beats(old, o)
       /\ o = Unowned \/ (o \in others /\ o.pap > 0) \/ (o = old /\ o.pap > 0)
  BY <1>6 DEF Stands
<1>11. old.pap = mine.pap
  OBVIOUS
<1>12. h = o.owner => o = old /\ o.pap > 0
  BY <1>6, <1>7, <1>9, <1>10
<1>13. mine.pap = o.pap => [o EXCEPT !.level = n.sources[h].levels[slot], !.owner = h] = mine
  <2>1. mine.level = n.sources[h].levels[slot]
    BY DEF Candidate
  <2> QED
    BY <1>6, <1>7, <2>1 DEF Offer
<1>14. result = IF mine.pap # o.pap \/ mine.pap = 0 THEN o
                ELSE IF mine.level > o.level THEN mine
                ELSE IF h = o.owner /\ mine.level < o.level THEN BestOf(peers, mine)
                ELSE o
  BY <1>13 DEF LevelMulti
<1> SUFFICES result \in Offer /\ Stands(result, others \cup {mine})
  BY <1>6
<1>15. peers \subseteq others /\ \A c \in others : c \in peers <=> c.pap = o.pap
  OBVIOUS
<1> HIDE DEF o, old, mine, others, result, peers
<1>16. CASE mine.pap = 0
  <2>1. result = o /\ ~Beats(mine, o)
    BY <1>6, <1>7, <1>8, <1>14, <1>16 DEF Beats
  <2>2. o # old \/ o = Unowned
    BY <1>6, <1>8, <1>10, <1>11, <1>16
  <2> QED
    BY <1>7, <1>10, <2>1, <2>2 DEF Stands
<1>17. CASE mine.pap # 0 /\ mine.pap # o.pap
  <2>1. result = o /\ ~Beats(mine, o) /\ o # old
    BY <1>6, <1>7, <1>8, <1>10, <1>11, <1>14, <1>17 DEF Beats
  <2> QED
    BY <1>7, <1>10, <2>1 DEF Stands
<1>18. CASE mine.pap # 0 /\ mine.pap = o.pap /\ mine.level > o.level
  <2>1. result = mine /\ ~Beats(mine, mine) /\ mine.pap > 0
    BY <1>6, <1>8, <1>14, <1>18 DEF Beats
  <2>2. \A c \in others : ~Beats(c, mine)
    BY <1>6, <1>7, <1>8, <1>10, <1>18 DEF Beats
  <2> QED
    BY <1>6, <2>1, <2>2 DEF Stands
<1>19. CASE mine.pap # 0 /\ mine.pap = o.pap /\ mine.level < o.level /\ h = o.owner
  <2>1. ~(mine.level > o.level)
    BY <1>6, <1>7, <1>8, <1>19
  <2>2. result = BestOf(peers, mine)
    BY <1>14, <1>19, <2>1
  <2>3. peers \subseteq Offer /\ IsFiniteSet(peers)
    BY <1>6, <1>15, FS_Subset
  <2>4. result \in Offer /\ Stands(result, peers \cup {mine})
    BY <1>6, <1>19, <2>2, <2>3, BestStands
  <2>5. result # Unowned
    BY <1>6, <1>8, <1>9, <1>19, <2>4 DEF Stands, Beats
  <2>6. result \in peers \cup {mine} /\ result.pap = o.pap
    BY <1>15, <1>19, <2>4, <2>5 DEF Stands
  <2>7. ASSUME NEW c \in others PROVE ~Beats(c, result)
    <3>1. CASE c \in peers
      BY <2>4, <3>1 DEF Stands
    <3>2. CASE c \notin peers
      BY <1>6, <1>7, <1>8, <1>10, <1>15, <2>4, <2>6, <3>2 DEF Beats
    <3> QED
      BY <3>1, <3>2
  <2> QED
    BY <1>15, <2>4, <2>5, <2>6, <2>7 DEF Stands
<1>20. CASE /\ mine.pap # 0 /\ mine.pap = o.pap
            /\ ~(mine.level > o.level) /\ ~(mine.level < o.level /\ h = o.owner)
  <2>1. result = o
    BY <1>14, <1>20
  <2>2. ~Beats(mine, o)
    BY <1>6, <1>7, <1>8, <1>20 DEF Beats
  <2>3. CASE h = o.owner
    <3>1. mine.level = o.level
      BY <1>6, <1>7, <1>8, <1>20, <2>3
    <3>2. mine = o /\ o.pap > 0
      BY <1>6, <1>7, <1>12, <1>20, <2>3, <3>1 DEF Offer
    <3> QED
      BY <1>7, <1>10, <2>1, <2>2, <3>2 DEF Stands
  <2>4. CASE h # o.owner
    <3>1. o # old
      BY <1>7, <2>4
    <3> QED
      BY <1>7, <1>10, <2>1, <2>2, <3>1 DEF Stands
  <2> QED
    BY <2>3, <2>4
<1> QED
  BY <1>6, <1>7, <1>8, <1>16, <1>17, <1>18, <1>19, <1>20

(* A source on its own has the slots it has a priority for.                 *)
LEMMA AloneStands ==
    ASSUME NEW o \in Offer, NEW mine \in Offer
    PROVE  Stands(o, {mine}) <=> o = IF mine.pap = 0 THEN Unowned ELSE mine
<1>1. \A c \in Offer : c.level \in Nat /\ c.pap \in Nat
  BY DEF Offer
<1>2. Unowned.pap = 0 /\ Unowned.level = 0
  BY DEF Unowned
<1> QED
  BY <1>1, <1>2 DEF Stands, Beats

(* The only source of a merger.                                             *)
LEMMA SingleCandidate ==
    ASSUME NEW m, IsMerger(m), NEW h \in DOMAIN m.sources, Single(m), NEW slot \in Slots
    PROVE  DOMAIN m.sources = {h} /\ Candidates(m, slot) = {Candidate(m, h, slot)}
<1>1. IsFiniteSet(DOMAIN m.sources)
  BY HandlesAssumption, FS_Subset DEF IsMerger
<1>2. PICK x : DOMAIN m.sources = {x}
  BY <1>1, FS_Singleton DEF Single
<1> QED
  BY <1>2 DEF Candidates

(* update_levels_single_source: the levels of the only source h and their   *)
(* number have changed.                                                     *)
LEMMA LevelSingleStands ==
    ASSUME NEW m, NEW n, NEW slot \in Slots, NEW h, OnlyOfferOf(h, m, n, slot),
           Single(m), Stands(n.out[slot], Candidates(m, slot)),
           n.sources[h].address_priority = m.sources[h].address_priority
    PROVE  /\ LevelSingle(n, h, slot, m.sources[h].valid_level_count) \in Offer
           /\ Stands(LevelSingle(n, h, slot, m.sources[h].valid_level_count),
                     Candidates(n, slot))
<1>1. Single(n)
  BY DEF Single, OnlyOfferOf
<1>2. Candidates(m, slot) = {Candidate(m, h, slot)}
  BY SingleCandidate DEF OnlyOfferOf
<1>3. Candidates(n, slot) = {Candidate(n, h, slot)}
  BY <1>1, SingleCandidate DEF OnlyOfferOf
<1>4. Candidate(m, h, slot) \in Offer /\ Candidate(n, h, slot) \in Offer
  BY CandidateOffer DEF OnlyOfferOf
<1>5. n.out[slot] \in Offer /\ Unowned \in Offer
  BY DEF OnlyOfferOf, IsMerger, Offer, Unowned
<1>6. n.out[slot] = IF Candidate(m, h, slot).pap = 0 THEN Unowned ELSE Candidate(m, h, slot)
  BY <1>2, <1>4, <1>5, AloneStands
<1>7. /\ m.sources[h].valid_level_count \in Nat /\ n.sources[h].valid_level_count \in Nat
      /\ n.sources[h].address_priority[slot] \in Nat /\ slot \in Nat
  BY SlotsAssumption, SMTT(30) DEF OnlyOfferOf, IsMerger, Source, Slots
<1>8. LevelSingle(n, h, slot, m.sources[h].valid_level_count) =
        IF Candidate(n, h, slot).pap = 0 THEN Unowned ELSE Candidate(n, h, slot)
  BY <1>6, <1>7 DEF LevelSingle, Candidate, SourcePap, Unowned
<1> QED
  BY <1>3, <1>4, <1>5, <1>8, AloneStands

-----------------------------------------------------------------------------
(* Mergers.                                                                 *)

(* The fields of a merger, one by one.                                      *)
LEMMA MergerFields ==
    ASSUME NEW m, IsMerger(m)
    PROVE  /\ DOMAIN m.sources \subseteq Handles /\ IsFiniteSet(DOMAIN m.sources)
           /\ m.sources \in [DOMAIN m.sources -> Source]
           /\ m.out \in [Slots -> Offer]
           /\ m.per_address_priorities_active \in BOOLEAN
           /\ m.universe_priority \in Nat
<1>1. DOMAIN m.sources \subseteq Handles
  BY DEF IsMerger
<1>2. IsFiniteSet(DOMAIN m.sources)
  BY <1>1, HandlesAssumption, FS_Subset
<1> QED
  BY <1>1, <1>2 DEF IsMerger, Offer

(* A merger as its four fields.                                             *)
LEMMA MadeOf ==
    ASSUME NEW D \in SUBSET Handles, NEW sources \in [D -> Source],
           NEW out \in [Slots -> Offer], NEW flag \in BOOLEAN, NEW priority \in Nat,
           NEW m,
           m = [sources |-> sources, out |-> out, universe_priority |-> priority,
                per_address_priorities_active |-> flag]
    PROVE  IsMerger(m)
BY DEF IsMerger, Offer

(* The same sources offer the same.                                         *)
LEMMA SameCandidates ==
    ASSUME NEW m, NEW n, n.sources = m.sources, NEW slot, NEW h
    PROVE  /\ Candidate(n, h, slot) = Candidate(m, h, slot)
           /\ Others(n, h, slot) = Others(m, h, slot)
           /\ Candidates(n, slot) = Candidates(m, slot)
BY DEF Candidate, Others, Candidates

(* Merger n is merger m, but for what source h is.                          *)
OnlySourceOf(h, m, n) ==
    /\ IsMerger(m) /\ IsMerger(n) /\ h \in DOMAIN m.sources
    /\ DOMAIN n.sources = DOMAIN m.sources
    /\ \A x \in DOMAIN m.sources \ {h} : n.sources[x] = m.sources[x]

(* Then that is the only offer that may be another one.                     *)
LEMMA OnlySourceOffers ==
    ASSUME NEW m, NEW n, NEW h, OnlySourceOf(h, m, n), NEW slot \in Slots
    PROVE  OnlyOfferOf(h, m, n, slot)
BY DEF OnlySourceOf, OnlyOfferOf, Candidate

(* A merger with another record for source h.                               *)
LEMMA SourceChanged ==
    ASSUME NEW m, IsMerger(m), NEW h \in DOMAIN m.sources, NEW source \in Source,
           NEW n, n = [m EXCEPT !.sources = [m.sources EXCEPT ![h] = source]]
    PROVE  /\ OnlySourceOf(h, m, n)
           /\ n.sources[h] = source
           /\ n.out = m.out
           /\ n.universe_priority = m.universe_priority
           /\ n.per_address_priorities_active = m.per_address_priorities_active
<1> DEFINE sources == [m.sources EXCEPT ![h] = source]
<1>1. m = [sources |-> m.sources, out |-> m.out, universe_priority |-> m.universe_priority,
           per_address_priorities_active |-> m.per_address_priorities_active]
  BY DEF IsMerger
<1>2. n = [sources |-> sources, out |-> m.out, universe_priority |-> m.universe_priority,
           per_address_priorities_active |-> m.per_address_priorities_active]
  BY <1>1
<1>3. /\ sources \in [DOMAIN m.sources -> Source]
      /\ sources[h] = source
      /\ \A x \in DOMAIN m.sources \ {h} : sources[x] = m.sources[x]
  BY MergerFields
<1>4. IsMerger(n)
  <2>1. /\ DOMAIN m.sources \in SUBSET Handles /\ m.out \in [Slots -> Offer]
        /\ m.per_address_priorities_active \in BOOLEAN /\ m.universe_priority \in Nat
    BY MergerFields
  <2>2. sources \in [DOMAIN m.sources -> Source]
    BY <1>3
  <2> HIDE DEF sources
  <2>3. /\ n.sources = sources /\ n.out = m.out /\ n.universe_priority = m.universe_priority
        /\ n.per_address_priorities_active = m.per_address_priorities_active
    BY <1>2
  <2>4. n = [sources |-> n.sources, out |-> n.out, universe_priority |-> n.universe_priority,
             per_address_priorities_active |-> n.per_address_priorities_active]
    BY <1>2, <2>3
  <2>5. DOMAIN sources = DOMAIN m.sources
    BY <2>2
  <2> QED
    BY <2>1, <2>2, <2>3, <2>4, <2>5 DEF IsMerger, Offer
<1>5. n.sources = sources /\ DOMAIN sources = DOMAIN m.sources
  BY <1>2, <1>3
<1> HIDE DEF sources
<1> QED
  BY <1>2, <1>3, <1>4, <1>5 DEF OnlySourceOf

(* A merger with another result for the slots.                              *)
LEMMA OutChanged ==
    ASSUME NEW m, IsMerger(m), NEW out \in [Slots -> Offer],
           NEW n, n = [m EXCEPT !.out = out]
    PROVE  /\ IsMerger(n)
           /\ n.out = out
           /\ n.sources = m.sources
           /\ n.universe_priority = m.universe_priority
           /\ n.per_address_priorities_active = m.per_address_priorities_active
<1>1. m = [sources |-> m.sources, out |-> m.out, universe_priority |-> m.universe_priority,
           per_address_priorities_active |-> m.per_address_priorities_active]
  BY DEF IsMerger
<1>2. n = [sources |-> m.sources, out |-> out, universe_priority |-> m.universe_priority,
           per_address_priorities_active |-> m.per_address_priorities_active]
  BY <1>1
<1>3. IsMerger(n)
  BY <1>2, MergerFields, MadeOf
<1> QED
  BY <1>2, <1>3

(* A merger with another flag for per-address priorities.                   *)
LEMMA FlagChanged ==
    ASSUME NEW m, IsMerger(m), NEW flag \in BOOLEAN,
           NEW n, n = [m EXCEPT !.per_address_priorities_active = flag]
    PROVE  /\ IsMerger(n)
           /\ n.out = m.out
           /\ n.sources = m.sources
           /\ n.universe_priority = m.universe_priority
           /\ n.per_address_priorities_active = flag
<1>1. m = [sources |-> m.sources, out |-> m.out, universe_priority |-> m.universe_priority,
           per_address_priorities_active |-> m.per_address_priorities_active]
  BY DEF IsMerger
<1>2. n = [sources |-> m.sources, out |-> m.out, universe_priority |-> m.universe_priority,
           per_address_priorities_active |-> flag]
  BY <1>1
<1>3. IsMerger(n)
  BY <1>2, MergerFields, MadeOf
<1> QED
  BY <1>2, <1>3

(* A merger with another priority.                                          *)
LEMMA PriorityChanged ==
    ASSUME NEW m, IsMerger(m), NEW priority \in Nat,
           NEW n, n = [m EXCEPT !.universe_priority = priority]
    PROVE  /\ IsMerger(n)
           /\ n.out = m.out
           /\ n.sources = m.sources
           /\ n.universe_priority = priority
           /\ n.per_address_priorities_active = m.per_address_priorities_active
<1>1. m = [sources |-> m.sources, out |-> m.out, universe_priority |-> m.universe_priority,
           per_address_priorities_active |-> m.per_address_priorities_active]
  BY DEF IsMerger
<1>2. n = [sources |-> m.sources, out |-> m.out, universe_priority |-> priority,
           per_address_priorities_active |-> m.per_address_priorities_active]
  BY <1>1
<1>3. IsMerger(n)
  BY <1>2, MergerFields, MadeOf
<1> QED
  BY <1>2, <1>3

(* A merger is merged slot by slot.                                         *)
LEMMA MergedSlots ==
    ASSUME NEW m, IsMerger(m)
    PROVE  Merged(m) <=> \A slot \in Slots : Stands(m.out[slot], Candidates(m, slot))
BY MergedStands DEF Merged

(* Beyond the levels of a source it has no priority.                        *)
LEMMA BeyondLevels ==
    ASSUME NEW m, NEW h, NEW slot \in Slots, m.sources[h].valid_level_count \in Nat,
           slot > m.sources[h].valid_level_count
    PROVE  Candidate(m, h, slot).pap = 0
BY DEF Candidate, SourcePap, Slots

(* What MergeNewPriorities merges, and what it leaves alone.                *)
LEMMA MergeNewPrioritiesFields ==
    ASSUME NEW n, IsMerger(n), NEW h \in DOMAIN n.sources, NEW range,
           \A slot \in Slots : slot \in range => Remerged(n, h, slot) \in Offer
    PROVE  LET result == MergeNewPriorities(n, h, range) IN
           /\ IsMerger(result)
           /\ result.sources = n.sources
           /\ result.universe_priority = n.universe_priority
           /\ result.per_address_priorities_active = n.per_address_priorities_active
           /\ \A slot \in Slots :
                 result.out[slot] = IF slot \in range THEN Remerged(n, h, slot)
                                    ELSE n.out[slot]
<1> DEFINE out == [slot \in Slots |-> IF slot \in range THEN Remerged(n, h, slot)
                                      ELSE n.out[slot]]
           result == MergeNewPriorities(n, h, range)
<1>1. out \in [Slots -> Offer]
  BY MergerFields
<1>2. result = [n EXCEPT !.out = out]
  BY DEF MergeNewPriorities
<1>3. \A slot \in Slots : out[slot] = IF slot \in range THEN Remerged(n, h, slot)
                                      ELSE n.out[slot]
  OBVIOUS
<1> SUFFICES /\ IsMerger(result)
             /\ result.sources = n.sources
             /\ result.universe_priority = n.universe_priority
             /\ result.per_address_priorities_active = n.per_address_priorities_active
             /\ \A slot \in Slots :
                   result.out[slot] = IF slot \in range THEN Remerged(n, h, slot)
                                      ELSE n.out[slot]
  OBVIOUS
<1> HIDE DEF out, result
<1>4. /\ IsMerger(result) /\ result.out = out /\ result.sources = n.sources
      /\ result.universe_priority = n.universe_priority
      /\ result.per_address_priorities_active = n.per_address_priorities_active
  BY <1>1, <1>2, OutChanged
<1> QED
  BY <1>3, <1>4

(* Other priorities for a source are merged by merging the slots it has a   *)
(* level for.                                                               *)
LEMMA NewPrioritiesMerged ==
    ASSUME NEW m, NEW n, NEW h, OnlySourceOf(h, m, n), Merged(m), n.out = m.out,
           n.sources[h].levels = m.sources[h].levels,
           n.sources[h].valid_level_count = m.sources[h].valid_level_count,
           NEW range,
           \A slot \in Slots : slot <= m.sources[h].valid_level_count => slot \in range,
           NEW result, result = MergeNewPriorities(n, h, range)
    PROVE  /\ IsMerger(result) /\ Merged(result)
           /\ result.sources = n.sources
           /\ result.universe_priority = n.universe_priority
           /\ result.per_address_priorities_active = n.per_address_priorities_active
<1>1. IsMerger(m) /\ IsMerger(n) /\ h \in DOMAIN m.sources /\ h \in DOMAIN n.sources
  BY DEF OnlySourceOf
<1>2. \A slot \in Slots : OnlyOfferOf(h, m, n, slot)
  BY OnlySourceOffers
<1>3. \A slot \in Slots : Stands(m.out[slot], Candidates(m, slot))
  BY <1>1, MergedSlots
<1>4. \A slot \in Slots : Candidate(n, h, slot).level = Candidate(m, h, slot).level
  BY DEF Candidate
<1>5. \A slot \in Slots : /\ Remerged(n, h, slot) \in Offer
                          /\ Stands(Remerged(n, h, slot), Candidates(n, slot))
  <2> TAKE slot \in Slots
  <2>1. OnlyOfferOf(h, m, n, slot) /\ Stands(n.out[slot], Candidates(m, slot))
    BY <1>2, <1>3
  <2> QED
    BY <1>4, <2>1, RemergedStands
<1>6. m.sources[h].valid_level_count \in Nat /\ \A slot \in Slots : slot \in Nat
  BY <1>1, MergerFields, SlotsAssumption DEF Source, Slots
<1>7. \A slot \in Slots : slot \notin range => Stands(n.out[slot], Candidates(n, slot))
  <2> SUFFICES ASSUME NEW slot \in Slots, slot \notin range
               PROVE  Stands(n.out[slot], Candidates(n, slot))
    OBVIOUS
  <2>1. slot > m.sources[h].valid_level_count
    BY <1>6
  <2>2. Candidate(n, h, slot).pap = 0 /\ Candidate(m, h, slot).pap = 0
    BY <1>6, <2>1, BeyondLevels
  <2>3. \A x \in DOMAIN m.sources : \/ Candidate(n, x, slot) = Candidate(m, x, slot)
                                    \/ Candidate(n, x, slot).pap = 0 /\ Candidate(m, x, slot).pap = 0
    BY <1>2, <2>2 DEF OnlyOfferOf
  <2>4. n.out[slot] \in Offer /\ DOMAIN n.sources = DOMAIN m.sources
    BY <1>1, MergerFields DEF OnlySourceOf
  <2> QED
    BY <1>1, <1>3, <2>3, <2>4, StandsSame
<1>8. /\ IsMerger(result) /\ result.sources = n.sources
      /\ result.universe_priority = n.universe_priority
      /\ result.per_address_priorities_active = n.per_address_priorities_active
      /\ \A slot \in Slots : result.out[slot] = IF slot \in range THEN Remerged(n, h, slot)
                                                ELSE n.out[slot]
  BY <1>1, <1>5, MergeNewPrioritiesFields
<1>9. \A slot \in Slots : Candidates(result, slot) = Candidates(n, slot)
  BY <1>8, SameCandidates
<1>10. \A slot \in Slots : Stands(result.out[slot], Candidates(result, slot))
  BY <1>5, <1>7, <1>8, <1>9
<1> QED
  BY <1>8, <1>10, MergedSlots

-----------------------------------------------------------------------------
(* The calls of the merger.                                                 *)

(* The fields of a source, one by one.                                      *)
LEMMA SourceFields ==
    ASSUME NEW m, IsMerger(m), NEW h \in DOMAIN m.sources
    PROVE  /\ m.sources[h] \in Source
           /\ m.sources[h].levels \in [Slots -> Nat]
           /\ m.sources[h].valid_level_count \in 0 .. MaxSlots
           /\ m.sources[h].valid_level_count \in Nat
           /\ m.sources[h].address_priority \in [Slots -> Nat]
           /\ m.sources[h].universe_priority \in Nat
           /\ m.sources[h].using_universe_priority \in BOOLEAN
           /\ m.sources[h].pap_count \in 0 .. MaxSlots
<1>1. m.sources[h] \in Source
  BY MergerFields
<1> QED
  BY <1>1, SlotsAssumption DEF Source

(* update_pap_single_source, for one slot.                                  *)
LEMMA TakeSlotStands ==
    ASSUME NEW m, NEW n, NEW slot \in Slots, NEW h, OnlyOfferOf(h, m, n, slot),
           Single(m), Stands(n.out[slot], Candidates(m, slot)),
           n.sources[h].valid_level_count = m.sources[h].valid_level_count,
           NEW o,
           o = IF slot > n.sources[h].valid_level_count THEN n.out[slot]
               ELSE IF n.sources[h].address_priority[slot] = 0 THEN Unowned
               ELSE Candidate(n, h, slot)
    PROVE  o \in Offer /\ Stands(o, Candidates(n, slot))
<1>0. IsMerger(m) /\ IsMerger(n) /\ h \in DOMAIN m.sources /\ h \in DOMAIN n.sources
  BY DEF OnlyOfferOf
<1>1. Single(n)
  BY DEF Single, OnlyOfferOf
<1>2. Candidates(m, slot) = {Candidate(m, h, slot)}
  BY <1>0, SingleCandidate
<1>3. Candidates(n, slot) = {Candidate(n, h, slot)}
  BY <1>0, <1>1, SingleCandidate
<1>4. Candidate(m, h, slot) \in Offer /\ Candidate(n, h, slot) \in Offer
  BY <1>0, CandidateOffer
<1>5. n.out[slot] \in Offer /\ Unowned \in Offer
  BY <1>0, MergerFields DEF Offer, Unowned
<1>6. n.out[slot] = IF Candidate(m, h, slot).pap = 0 THEN Unowned ELSE Candidate(m, h, slot)
  BY <1>2, <1>4, <1>5, AloneStands
<1>7. n.sources[h].valid_level_count \in Nat /\ slot \in Nat
  BY <1>0, SourceFields, SlotsAssumption DEF Slots
<1>8. o = IF Candidate(n, h, slot).pap = 0 THEN Unowned ELSE Candidate(n, h, slot)
  <2>1. CASE slot > n.sources[h].valid_level_count
    BY <1>6, <1>7, <2>1, BeyondLevels
  <2>2. CASE ~(slot > n.sources[h].valid_level_count)
    <3>1. Candidate(n, h, slot).pap = n.sources[h].address_priority[slot]
      BY <1>7, <2>2 DEF Candidate, SourcePap
    <3> QED
      BY <2>2, <3>1
  <2> QED
    BY <2>1, <2>2
<1> QED
  BY <1>3, <1>4, <1>5, <1>8, AloneStands

(* update_pap and update_universe_priority give a source priorities.        *)
LEMMA WithPapsMerged ==
    ASSUME NEW m, IsMerger(m), Merged(m), NEW h \in DOMAIN m.sources,
           NEW paps \in [Slots -> Nat]
    PROVE  LET result == WithPaps(m, h, paps) IN
           /\ OnlySourceOf(h, m, result) /\ Merged(result)
           /\ result.sources[h] = [m.sources[h] EXCEPT !.address_priority = paps]
           /\ result.universe_priority = m.universe_priority
           /\ result.per_address_priorities_active = m.per_address_priorities_active
<1> DEFINE source == [m.sources[h] EXCEPT !.address_priority = paps]
           told == [m EXCEPT !.sources[h].address_priority = paps]
           result == WithPaps(m, h, paps)
<1>1. /\ source \in Source /\ source.levels = m.sources[h].levels
      /\ source.valid_level_count = m.sources[h].valid_level_count
      /\ source.address_priority = paps
  BY SourceFields DEF Source
<1>2. told = [m EXCEPT !.sources = [m.sources EXCEPT ![h] = source]]
  OBVIOUS
<1>3. result = IF Single(m) THEN TakeSlots(told, h)
               ELSE MergeNewPriorities(told, h, 1 .. m.sources[h].valid_level_count)
  <2>1. DOMAIN told.sources = DOMAIN m.sources
    BY DEF IsMerger
  <2>2. Single(told) <=> Single(m)
    BY <2>1 DEF Single
  <2> QED
    BY <2>2 DEF WithPaps
<1> SUFFICES /\ OnlySourceOf(h, m, result) /\ Merged(result)
             /\ result.sources[h] = source
             /\ result.universe_priority = m.universe_priority
             /\ result.per_address_priorities_active = m.per_address_priorities_active
  OBVIOUS
<1> HIDE DEF source, told, result
<1>4. /\ OnlySourceOf(h, m, told) /\ told.sources[h] = source /\ told.out = m.out
      /\ told.universe_priority = m.universe_priority
      /\ told.per_address_priorities_active = m.per_address_priorities_active
  BY <1>1, <1>2, SourceChanged
<1>5. IsMerger(told) /\ h \in DOMAIN told.sources
  BY <1>4 DEF OnlySourceOf
<1>6. ASSUME IsMerger(result), result.sources = told.sources
      PROVE  OnlySourceOf(h, m, result) /\ result.sources[h] = source
  BY <1>4, <1>6 DEF OnlySourceOf
<1>7. CASE ~Single(m)
  <2> DEFINE range == 1 .. m.sources[h].valid_level_count
  <2>1. \A slot \in Slots : slot <= m.sources[h].valid_level_count => slot \in range
    BY SourceFields, SlotsAssumption DEF Slots
  <2>2. /\ IsMerger(result) /\ Merged(result) /\ result.sources = told.sources
        /\ result.universe_priority = told.universe_priority
        /\ result.per_address_priorities_active = told.per_address_priorities_active
    <3>1. told.sources[h].levels = m.sources[h].levels
      BY <1>1, <1>4
    <3>2. told.sources[h].valid_level_count = m.sources[h].valid_level_count
      BY <1>1, <1>4
    <3>3. result = MergeNewPriorities(told, h, range)
      BY <1>3, <1>7
    <3>4. OnlySourceOf(h, m, told) /\ told.out = m.out
      BY <1>4
    <3> HIDE DEF range
    <3> QED
      BY <2>1, <3>1, <3>2, <3>3, <3>4, NewPrioritiesMerged
  <2> QED
    BY <1>4, <1>6, <2>2
<1>8. CASE Single(m)
  <2> DEFINE out == [slot \in Slots |->
                IF slot > told.sources[h].valid_level_count THEN told.out[slot]
                ELSE IF told.sources[h].address_priority[slot] = 0 THEN Unowned
                ELSE Candidate(told, h, slot)]
  <2>1. result = [told EXCEPT !.out = out]
    BY <1>3, <1>8 DEF TakeSlots
  <2>2. \A slot \in Slots : out[slot] =
                IF slot > told.sources[h].valid_level_count THEN told.out[slot]
                ELSE IF told.sources[h].address_priority[slot] = 0 THEN Unowned
                ELSE Candidate(told, h, slot)
    OBVIOUS
  <2>3. DOMAIN out = Slots /\ out = [slot \in Slots |-> out[slot]]
    OBVIOUS
  <2> HIDE DEF out
  <2>4. \A slot \in Slots : Stands(m.out[slot], Candidates(m, slot))
    BY MergedSlots
  <2>5. \A slot \in Slots : OnlyOfferOf(h, m, told, slot)
    BY <1>4, OnlySourceOffers
  <2>6. \A slot \in Slots : out[slot] \in Offer /\ Stands(out[slot], Candidates(told, slot))
    <3> TAKE slot \in Slots
    <3>1. told.sources[h].valid_level_count = m.sources[h].valid_level_count
      BY <1>1, <1>4
    <3>2. OnlyOfferOf(h, m, told, slot) /\ Stands(told.out[slot], Candidates(m, slot))
      BY <1>4, <2>4, <2>5
    <3> QED
      BY <1>8, <2>2, <3>1, <3>2, TakeSlotStands
  <2>7. out \in [Slots -> Offer]
    BY <2>3, <2>6
  <2>8. /\ IsMerger(result) /\ result.sources = told.sources /\ result.out = out
        /\ result.universe_priority = told.universe_priority
        /\ result.per_address_priorities_active = told.per_address_priorities_active
    BY <1>5, <2>1, <2>7, OutChanged
  <2>9. \A slot \in Slots : Candidates(result, slot) = Candidates(told, slot)
    BY <2>8, SameCandidates
  <2>10. Merged(result)
    BY <2>6, <2>8, <2>9, MergedSlots
  <2> QED
    BY <1>4, <1>6, <2>8, <2>10
<1> QED
  BY <1>7, <1>8

-----------------------------------------------------------------------------
(* What is kept by hand beside the buffers.                                 *)

(* The highest of the priorities of the sources, and 0.                     *)
IsHighest(m, p) ==
    /\ p \in Nat
    /\ \A h \in DOMAIN m.sources : m.sources[h].universe_priority <= p
    /\ p = 0 \/ \E h \in DOMAIN m.sources : m.sources[h].universe_priority = p

(* recalculate_universe_priority finds it.                                  *)
LEMMA HighestIs ==
    ASSUME NEW m, IsMerger(m), NEW p
    PROVE  p = HighestPriority(m) <=> IsHighest(m, p)
<1> DEFINE of == [h \in DOMAIN m.sources |-> m.sources[h].universe_priority]
           all == {m.sources[h].universe_priority : h \in DOMAIN m.sources}
           S == all \cup {0}
<1>1. IsFiniteSet(all)
  <2>1. of \in Surjection(DOMAIN m.sources, all)
    BY DEF Surjection
  <2>2. IsFiniteSet(DOMAIN m.sources)
    BY MergerFields
  <2> HIDE DEF of, all
  <2> QED
    BY <2>1, <2>2, FS_Surjection
<1>2. \A h \in DOMAIN m.sources : m.sources[h].universe_priority \in Nat
  BY SourceFields
<1>3. S \subseteq Nat /\ S # {} /\ IsFiniteSet(S)
  <2>1. IsFiniteSet({0})
    BY FS_Singleton
  <2>2. S \subseteq Nat /\ S # {}
    BY <1>2
  <2>3. IsFiniteSet(S)
    <3> HIDE DEF all
    <3> QED
      BY <1>1, <2>1, FS_Union
  <2> QED
    BY <2>2, <2>3
<1>4. HighestPriority(m) = Max(S)
  BY DEF HighestPriority
<1>5. Max(S) \in S /\ \A y \in S : Max(S) >= y
  <2> HIDE DEF S
  <2> QED
    BY <1>3, MaxOfFinite
<1>6. \A x : x \in S <=> x = 0 \/ \E h \in DOMAIN m.sources : m.sources[h].universe_priority = x
  OBVIOUS
<1>7. IsHighest(m, p) <=> p \in S /\ \A y \in S : y <= p
  <2>1. ASSUME IsHighest(m, p) PROVE p \in S /\ \A y \in S : y <= p
    BY <1>6, <2>1 DEF IsHighest
  <2>2. ASSUME p \in S, \A y \in S : y <= p PROVE IsHighest(m, p)
    BY <1>3, <1>6, <2>2 DEF IsHighest
  <2> QED
    BY <2>1, <2>2
<1> HIDE DEF S
<1>8. ASSUME p \in S, \A y \in S : y <= p PROVE p = Max(S)
  <2>1. p <= Max(S) /\ Max(S) <= p /\ p \in Nat /\ Max(S) \in Nat
    BY <1>3, <1>5, <1>8
  <2> QED
    BY <2>1
<1>9. ASSUME p = Max(S) PROVE p \in S /\ \A y \in S : y <= p
  BY <1>3, <1>5, <1>9
<1> QED
  BY <1>4, <1>7, <1>8, <1>9

(* The sources' universe priorities and flags are all that counts for them. *)
SameFlags(m, n) ==
    /\ DOMAIN n.sources = DOMAIN m.sources
    /\ \A x \in DOMAIN m.sources :
          /\ n.sources[x].universe_priority = m.sources[x].universe_priority
          /\ n.sources[x].using_universe_priority = m.sources[x].using_universe_priority

(* A merger that is up to date.                                             *)
UpToDate(m) ==
    /\ IsMerger(m)
    /\ Merged(m)
    /\ m.universe_priority = HighestPriority(m)
    /\ m.per_address_priorities_active = AnyPap(m)

(* A call that changes none of the priorities of sources keeps those of the *)
(* result.                                                                  *)
LEMMA SameFlagsUpToDate ==
    ASSUME NEW m, UpToDate(m), NEW n, IsMerger(n), Merged(n), SameFlags(m, n),
           n.universe_priority = m.universe_priority,
           n.per_address_priorities_active = m.per_address_priorities_active
    PROVE  UpToDate(n)
<1>1. IsMerger(m) /\ IsHighest(m, m.universe_priority)
  BY HighestIs DEF UpToDate
<1>2. IsHighest(n, m.universe_priority)
  BY <1>1 DEF IsHighest, SameFlags
<1>3. n.universe_priority = HighestPriority(n)
  BY <1>2, HighestIs
<1>4. AnyPap(n) = AnyPap(m)
  BY DEF AnyPap, SameFlags
<1> QED
  BY <1>3, <1>4 DEF UpToDate

(* A merger as it is created.                                               *)
LEMMA NewMergerUpToDate == UpToDate(NewMerger)
<1>1. NewMerger.sources = [h \in {} |-> NewSource] /\ DOMAIN NewMerger.sources = {}
  BY DEF NewMerger
<1>2. IsMerger(NewMerger)
  BY <1>1 DEF NewMerger, IsMerger, Unowned
<1>3. Merged(NewMerger)
  <2>1. \A slot \in Slots : NewMerger.out[slot] = Unowned /\ Candidates(NewMerger, slot) = {}
    BY <1>1 DEF NewMerger, Candidates
  <2>2. \A slot \in Slots : Stands(NewMerger.out[slot], Candidates(NewMerger, slot))
    BY <2>1 DEF Stands
  <2> QED
    BY <1>2, <2>2, MergedSlots
<1>4. NewMerger.universe_priority = HighestPriority(NewMerger)
  <2>1. NewMerger.universe_priority = 0
    BY DEF NewMerger
  <2>2. IsHighest(NewMerger, 0)
    BY <1>1 DEF IsHighest
  <2> QED
    BY <1>2, <2>1, <2>2, HighestIs
<1>5. NewMerger.per_address_priorities_active = AnyPap(NewMerger)
  BY <1>1 DEF NewMerger, AnyPap
<1> QED
  BY <1>2, <1>3, <1>4, <1>5 DEF UpToDate

(* add_sacn_dmx_merger_source: a source without levels offers nothing.      *)
LEMMA AddSourceUpToDate ==
    ASSUME NEW m, UpToDate(m), NEW h \in Handles, CanAdd(m, h)
    PROVE  UpToDate(AddSource(m, h))
<1> DEFINE n == AddSource(m, h)
           sources == [x \in DOMAIN m.sources \cup {h} |->
                         IF x = h THEN NewSource ELSE m.sources[x]]
<1>1. IsMerger(m) /\ Merged(m) /\ h \notin DOMAIN m.sources
  BY DEF UpToDate, CanAdd
<1>2. NewSource \in Source
  <2>1. NewSource.levels \in [Slots -> Nat] /\ NewSource.address_priority \in [Slots -> Nat]
    BY DEF NewSource
  <2>2. 0 \in 0 .. MaxSlots
    BY SlotsAssumption
  <2> QED
    BY <2>1, <2>2 DEF NewSource, Source
<1>3. n = [m EXCEPT !.sources = sources]
  BY DEF AddSource
<1>4. m = [sources |-> m.sources, out |-> m.out, universe_priority |-> m.universe_priority,
           per_address_priorities_active |-> m.per_address_priorities_active]
  BY <1>1 DEF IsMerger
<1>5. n = [sources |-> sources, out |-> m.out, universe_priority |-> m.universe_priority,
           per_address_priorities_active |-> m.per_address_priorities_active]
  BY <1>3, <1>4
<1>6. sources \in [DOMAIN m.sources \cup {h} -> Source]
  BY <1>1, <1>2, MergerFields
<1>7. sources[h] = NewSource /\ \A x \in DOMAIN m.sources : sources[x] = m.sources[x]
  BY <1>1
<1>8. DOMAIN sources = DOMAIN m.sources \cup {h}
  OBVIOUS
<1> SUFFICES UpToDate(n)
  OBVIOUS
<1> HIDE DEF n, sources
<1>9. /\ n.sources = sources /\ n.out = m.out /\ n.universe_priority = m.universe_priority
      /\ n.per_address_priorities_active = m.per_address_priorities_active
  BY <1>5
<1>10. IsMerger(n)
  <2>1. n = [sources |-> n.sources, out |-> n.out, universe_priority |-> n.universe_priority,
             per_address_priorities_active |-> n.per_address_priorities_active]
    BY <1>5, <1>9
  <2>2. DOMAIN n.sources \subseteq Handles /\ n.sources \in [DOMAIN n.sources -> Source]
    BY <1>1, <1>6, <1>8, <1>9, MergerFields
  <2> QED
    BY <1>1, <1>9, <2>1, <2>2, MergerFields DEF IsMerger, Offer
<1>11. Merged(n)
  <2> SUFFICES ASSUME NEW slot \in Slots PROVE Stands(n.out[slot], Candidates(n, slot))
    BY <1>10, MergedSlots
  <2>1. Stands(m.out[slot], Candidates(m, slot))
    BY <1>1, MergedSlots
  <2>2. Candidate(n, h, slot).pap = 0
    <3>1. NewSource.valid_level_count = 0
      BY DEF NewSource
    <3> QED
      BY <1>7, <1>9, <3>1, BeyondLevels DEF Slots
  <2>3. Candidates(n, slot) = Candidates(m, slot) \cup {Candidate(n, h, slot)}
    BY <1>7, <1>8, <1>9 DEF Candidates, Candidate
  <2>4. m.out[slot] \in Offer
    BY <1>1, MergerFields
  <2>5. ~Beats(Candidate(n, h, slot), m.out[slot])
    BY <2>2, <2>4 DEF Beats, Offer
  <2> QED
    BY <1>9, <2>1, <2>3, <2>5 DEF Stands
<1>12. n.universe_priority = HighestPriority(n)
  <2>1. IsHighest(m, m.universe_priority)
    BY <1>1, HighestIs DEF UpToDate
  <2>2. NewSource.universe_priority = 0
    BY DEF NewSource
  <2>3. IsHighest(n, m.universe_priority)
    BY <1>7, <1>8, <1>9, <2>1, <2>2 DEF IsHighest
  <2> QED
    BY <1>9, <1>10, <2>3, HighestIs
<1>13. n.per_address_priorities_active = AnyPap(n)
  BY <1>7, <1>8, <1>9 DEF UpToDate, AnyPap, NewSource
<1> QED
  BY <1>10, <1>11, <1>12, <1>13 DEF UpToDate

(* A universe priority as a per-address priority is one.                    *)
LEMMA AsPapNat == ASSUME NEW p \in Nat PROVE AsPap(p) \in Nat /\ AsPap(p) > 0
BY DEF AsPap

(* update_sacn_dmx_merger_pap.                                              *)
LEMMA UpdatePapUpToDate ==
    ASSUME NEW m, UpToDate(m), NEW h \in DOMAIN m.sources,
           NEW paps \in Seq(Nat), Len(paps) \in 0 .. MaxSlots
    PROVE  UpToDate(UpdatePap(m, h, paps))
<1> DEFINE source == [m.sources[h] EXCEPT !.using_universe_priority = FALSE,
                                          !.pap_count = Len(paps)]
           named == [m EXCEPT !.sources = [m.sources EXCEPT ![h] = source]]
           told == [named EXCEPT !.per_address_priorities_active = TRUE]
           table == [slot \in Slots |-> IF slot <= Len(paps) THEN paps[slot]
                                ELSE IF slot <= m.sources[h].pap_count THEN 0
                                ELSE m.sources[h].address_priority[slot]]
           n == UpdatePap(m, h, paps)
<1>1. IsMerger(m) /\ Merged(m)
  BY DEF UpToDate
<1>2. /\ source \in Source
      /\ source.universe_priority = m.sources[h].universe_priority
      /\ source.using_universe_priority = FALSE
      /\ source.levels = m.sources[h].levels
      /\ source.valid_level_count = m.sources[h].valid_level_count
      /\ source.address_priority = m.sources[h].address_priority
  <2>1. m.sources[h] \in Source /\ Len(paps) \in 0 .. MaxSlots
    BY <1>1, SourceFields
  <2> QED
    BY <2>1 DEF Source
<1>3. n = told \/ n = WithPaps(told, h, table)
  <2>1. [m EXCEPT !.sources[h].using_universe_priority = FALSE,
                  !.sources[h].pap_count = Len(paps),
                  !.per_address_priorities_active = TRUE] = told
    OBVIOUS
  <2> QED
    BY <2>1 DEF UpdatePap
<1>4. table \in [Slots -> Nat]
  <2>1. m.sources[h].address_priority \in [Slots -> Nat] /\ m.sources[h].pap_count \in Nat
    BY <1>1, SourceFields, SlotsAssumption
  <2>2. \A slot \in Slots : slot \in Nat /\ (slot <= Len(paps) => paps[slot] \in Nat)
    BY SlotsAssumption DEF Slots
  <2> QED
    BY <2>1, <2>2
<1> SUFFICES UpToDate(n)
  OBVIOUS
<1> HIDE DEF source, n, table
<1>5. /\ OnlySourceOf(h, m, named) /\ named.sources[h] = source /\ named.out = m.out
      /\ named.universe_priority = m.universe_priority
  BY <1>1, <1>2, SourceChanged
<1> HIDE DEF named
<1>6. IsMerger(named)
  BY <1>5 DEF OnlySourceOf
<1>7. /\ IsMerger(told) /\ told.sources = named.sources /\ told.out = named.out
      /\ told.universe_priority = named.universe_priority
      /\ told.per_address_priorities_active = TRUE
  BY <1>6, FlagChanged
<1> HIDE DEF told
<1>8. OnlySourceOf(h, m, told) /\ told.sources[h] = source /\ h \in DOMAIN told.sources
  BY <1>5, <1>7 DEF OnlySourceOf
<1>9. Merged(told)
  <2> SUFFICES ASSUME NEW slot \in Slots PROVE Stands(told.out[slot], Candidates(told, slot))
    BY <1>7, MergedSlots
  <2>1. Stands(m.out[slot], Candidates(m, slot))
    BY <1>1, MergedSlots
  <2>2. \A x \in DOMAIN m.sources : Candidate(told, x, slot) = Candidate(m, x, slot)
    BY <1>2, <1>8 DEF OnlySourceOf, Candidate, SourcePap
  <2>3. Candidates(told, slot) = Candidates(m, slot)
    BY <1>8, <2>2 DEF OnlySourceOf, Candidates
  <2> QED
    BY <1>5, <1>7, <2>1, <2>3
<1>10. /\ IsMerger(n) /\ Merged(n) /\ OnlySourceOf(h, m, n)
       /\ n.sources[h].universe_priority = m.sources[h].universe_priority
       /\ n.sources[h].using_universe_priority = FALSE
       /\ n.universe_priority = m.universe_priority
       /\ n.per_address_priorities_active = TRUE
  <2>1. CASE n = told
    BY <1>2, <1>5, <1>7, <1>8, <1>9, <2>1
  <2>2. CASE n = WithPaps(told, h, table)
    <3>1. /\ OnlySourceOf(h, told, n) /\ Merged(n)
          /\ n.sources[h] = [told.sources[h] EXCEPT !.address_priority = table]
          /\ n.universe_priority = told.universe_priority
          /\ n.per_address_priorities_active = told.per_address_priorities_active
      BY <1>4, <1>7, <1>8, <1>9, <2>2, WithPapsMerged
    <3>2. IsMerger(n) /\ OnlySourceOf(h, m, n)
      BY <1>8, <3>1 DEF OnlySourceOf
    <3>3. /\ n.sources[h].universe_priority = source.universe_priority
          /\ n.sources[h].using_universe_priority = source.using_universe_priority
      BY <1>2, <1>8, <3>1 DEF Source
    <3> QED
      BY <1>2, <1>5, <1>7, <3>1, <3>2, <3>3
  <2> QED
    BY <1>3, <2>1, <2>2
<1>11. n.universe_priority = HighestPriority(n)
  <2>1. IsHighest(m, m.universe_priority)
    BY <1>1, HighestIs DEF UpToDate
  <2>2. IsHighest(n, m.universe_priority)
    BY <1>10, <2>1 DEF IsHighest, OnlySourceOf
  <2> QED
    BY <1>10, <2>2, HighestIs
<1>12. AnyPap(n) = TRUE
  BY <1>10 DEF AnyPap, OnlySourceOf
<1> QED
  BY <1>10, <1>11, <1>12 DEF UpToDate

(* remove_sacn_dmx_merger_pap: the source goes back to its universe         *)
(* priority.                                                                *)
LEMMA RemovePapUpToDate ==
    ASSUME NEW m, UpToDate(m), NEW h \in DOMAIN m.sources
    PROVE  UpToDate(RemovePap(m, h))
<1> DEFINE paps == [slot \in Slots |-> AsPap(m.sources[h].universe_priority)]
           source == [m.sources[h] EXCEPT !.using_universe_priority = TRUE,
                                          !.address_priority = paps]
           told == [m EXCEPT !.sources = [m.sources EXCEPT ![h] = source]]
           range == 1 .. m.sources[h].valid_level_count
           merged == MergeNewPriorities(told, h, range)
           n == RemovePap(m, h)
<1>1. IsMerger(m) /\ Merged(m)
  BY DEF UpToDate
<1>2. /\ source \in Source
      /\ source.universe_priority = m.sources[h].universe_priority
      /\ source.using_universe_priority = TRUE
      /\ source.levels = m.sources[h].levels
      /\ source.valid_level_count = m.sources[h].valid_level_count
  <2>1. m.sources[h] \in Source /\ m.sources[h].universe_priority \in Nat
    BY <1>1, SourceFields
  <2>2. paps \in [Slots -> Nat]
    BY <2>1, AsPapNat
  <2> HIDE DEF paps
  <2> QED
    BY <2>1, <2>2 DEF Source
<1>3. n = [merged EXCEPT !.per_address_priorities_active = PapStillActive(m, h)]
  <2>1. [m EXCEPT !.sources[h].using_universe_priority = TRUE,
                  !.sources[h].address_priority = paps] = told
    OBVIOUS
  <2> HIDE DEF told
  <2> QED
    BY <2>1 DEF RemovePap
<1>4. \A slot \in Slots : slot <= m.sources[h].valid_level_count => slot \in range
  BY <1>1, SourceFields, SlotsAssumption DEF Slots
<1> SUFFICES UpToDate(n)
  OBVIOUS
<1> HIDE DEF paps, source, told, range, n
<1>5. /\ OnlySourceOf(h, m, told) /\ told.sources[h] = source /\ told.out = m.out
      /\ told.universe_priority = m.universe_priority
  BY <1>1, <1>2, SourceChanged DEF told
<1>6. /\ IsMerger(merged) /\ Merged(merged) /\ merged.sources = told.sources
      /\ merged.universe_priority = told.universe_priority
  <2>1. told.sources[h].levels = m.sources[h].levels
    BY <1>2, <1>5
  <2>2. told.sources[h].valid_level_count = m.sources[h].valid_level_count
    BY <1>2, <1>5
  <2> HIDE DEF merged
  <2>3. merged = MergeNewPriorities(told, h, range)
    BY DEF merged
  <2> QED
    BY <1>1, <1>4, <1>5, <2>1, <2>2, <2>3, NewPrioritiesMerged
<1> HIDE DEF merged
<1>7. PapStillActive(m, h) \in BOOLEAN
  BY <1>1, MergerFields DEF PapStillActive
<1>8. /\ IsMerger(n) /\ n.out = merged.out /\ n.sources = merged.sources
      /\ n.universe_priority = merged.universe_priority
      /\ n.per_address_priorities_active = PapStillActive(m, h)
  BY <1>3, <1>6, <1>7, FlagChanged
<1>9. OnlySourceOf(h, m, n) /\ n.sources[h] = source
  BY <1>5, <1>6, <1>8 DEF OnlySourceOf
<1>10. Merged(n)
  <2>1. \A slot \in Slots : Stands(merged.out[slot], Candidates(merged, slot))
    BY <1>6, MergedSlots
  <2>2. \A slot \in Slots : Candidates(n, slot) = Candidates(merged, slot)
    BY <1>8, SameCandidates
  <2> QED
    BY <1>8, <2>1, <2>2, MergedSlots
<1>11. n.universe_priority = HighestPriority(n)
  <2>1. IsHighest(m, m.universe_priority)
    BY <1>1, HighestIs DEF UpToDate
  <2>2. IsHighest(n, m.universe_priority)
    BY <1>2, <1>9, <2>1 DEF IsHighest, OnlySourceOf
  <2> QED
    BY <1>5, <1>6, <1>8, <2>2, HighestIs
<1>12. PapStillActive(m, h) <=> AnyPap(n)
  <2>1. m.per_address_priorities_active <=> AnyPap(m)
    BY DEF UpToDate
  <2>2. AnyPap(n) <=> \E x \in DOMAIN m.sources \ {h} : ~m.sources[x].using_universe_priority
    BY <1>2, <1>9 DEF AnyPap, OnlySourceOf
  <2>3. AnyPap(m) <=> \/ ~m.sources[h].using_universe_priority
                      \/ \E x \in DOMAIN m.sources \ {h} : ~m.sources[x].using_universe_priority
    BY DEF AnyPap
  <2> QED
    BY <2>1, <2>2, <2>3 DEF PapStillActive
<1>13. n.per_address_priorities_active = AnyPap(n)
  BY <1>7, <1>8, <1>12 DEF AnyPap
<1> QED
  BY <1>8, <1>10, <1>11, <1>13 DEF UpToDate

(* remove_sacn_dmx_merger_source: the slots of a source without priorities  *)
(* are those of others or nobody's.                                         *)
LEMMA RemoveSourceUpToDate ==
    ASSUME NEW m, UpToDate(m), NEW h \in DOMAIN m.sources
    PROVE  UpToDate(RemoveSource(m, h))
<1> DEFINE none == [slot \in Slots |-> 0]
           source == [m.sources[h] EXCEPT !.address_priority = none]
           told == [m EXCEPT !.sources = [m.sources EXCEPT ![h] = source]]
           merged == MergeNewPriorities(told, h, Slots)
           sources == [x \in DOMAIN merged.sources \ {h} |-> merged.sources[x]]
           rest == [merged EXCEPT !.sources = sources]
           priority == IF m.sources[h].universe_priority >= rest.universe_priority
                       THEN HighestPriority(rest) ELSE rest.universe_priority
           flagged == [rest EXCEPT !.per_address_priorities_active = PapStillActive(m, h)]
           n == RemoveSource(m, h)
<1>1. IsMerger(m) /\ Merged(m)
  BY DEF UpToDate
<1>2. /\ source \in Source
      /\ source.levels = m.sources[h].levels
      /\ source.valid_level_count = m.sources[h].valid_level_count
      /\ source.address_priority = none
  <2>1. m.sources[h] \in Source /\ none \in [Slots -> Nat]
    BY <1>1, SourceFields
  <2> HIDE DEF none
  <2> QED
    BY <2>1 DEF Source
<1>3. n = [flagged EXCEPT !.universe_priority = priority]
  <2>1. [m EXCEPT !.sources[h].address_priority = none] = told
    OBVIOUS
  <2> HIDE DEF told
  <2> QED
    BY <2>1 DEF RemoveSource
<1> SUFFICES UpToDate(n)
  OBVIOUS
<1>4. /\ OnlySourceOf(h, m, told) /\ told.sources[h] = source /\ told.out = m.out
      /\ told.universe_priority = m.universe_priority
      /\ told.per_address_priorities_active = m.per_address_priorities_active
  <2> HIDE DEF source
  <2> QED
    BY <1>1, <1>2, SourceChanged
<1>5. /\ IsMerger(merged) /\ Merged(merged) /\ merged.sources = told.sources
      /\ merged.universe_priority = told.universe_priority
      /\ merged.per_address_priorities_active = told.per_address_priorities_active
  <2> HIDE DEF source, told
  <2>1. told.sources[h].levels = m.sources[h].levels
    BY <1>2, <1>4
  <2>2. told.sources[h].valid_level_count = m.sources[h].valid_level_count
    BY <1>2, <1>4
  <2> HIDE DEF merged
  <2>3. merged = MergeNewPriorities(told, h, Slots)
    BY DEF merged
  <2>4. \A slot \in Slots : slot <= m.sources[h].valid_level_count => slot \in Slots
    OBVIOUS
  <2> QED
    BY <1>1, <1>4, <2>1, <2>2, <2>3, <2>4, NewPrioritiesMerged
<1>6. \A slot \in Slots : Candidate(merged, h, slot).pap = 0
  <2> HIDE DEF told, merged, source
  <2>1. \A slot \in Slots : source.address_priority[slot] = 0
    BY <1>2
  <2> QED
    BY <1>4, <1>5, <2>1 DEF Candidate, SourcePap
<1> HIDE DEF merged, told, source, none
<1>7. DOMAIN merged.sources = DOMAIN m.sources
  BY <1>4, <1>5 DEF OnlySourceOf
<1>8. /\ sources \in [DOMAIN m.sources \ {h} -> Source]
      /\ DOMAIN sources = DOMAIN m.sources \ {h}
      /\ \A x \in DOMAIN m.sources \ {h} : sources[x] = merged.sources[x]
      /\ \A x \in DOMAIN m.sources \ {h} : sources[x] = m.sources[x]
  BY <1>4, <1>5, <1>7, MergerFields DEF OnlySourceOf
<1>9. rest = [sources |-> sources, out |-> merged.out,
              universe_priority |-> m.universe_priority,
              per_address_priorities_active |-> m.per_address_priorities_active]
  <2>1. merged = [sources |-> merged.sources, out |-> merged.out,
                  universe_priority |-> merged.universe_priority,
                  per_address_priorities_active |-> merged.per_address_priorities_active]
    BY <1>5 DEF IsMerger
  <2> HIDE DEF sources
  <2> QED
    BY <1>4, <1>5, <2>1
<1> HIDE DEF sources, rest
<1>10. /\ rest.sources = sources /\ rest.out = merged.out
       /\ rest.universe_priority = m.universe_priority
       /\ rest.per_address_priorities_active = m.per_address_priorities_active
  BY <1>9
<1>11. IsMerger(rest)
  <2>1. rest = [sources |-> rest.sources, out |-> rest.out,
                universe_priority |-> rest.universe_priority,
                per_address_priorities_active |-> rest.per_address_priorities_active]
    BY <1>9, <1>10
  <2>2. rest.out \in [Slots -> Offer]
    BY <1>5, <1>10, MergerFields
  <2>3. DOMAIN rest.sources \subseteq Handles /\ rest.sources \in [DOMAIN rest.sources -> Source]
    BY <1>1, <1>8, <1>10, MergerFields
  <2> QED
    BY <1>1, <1>10, <2>1, <2>2, <2>3, MergerFields DEF IsMerger, Offer
<1>12. PapStillActive(m, h) \in BOOLEAN
  BY <1>1, MergerFields DEF PapStillActive
<1>13. priority \in Nat /\ IsHighest(rest, priority)
  <2>1. IsHighest(rest, HighestPriority(rest))
    BY <1>11, HighestIs
  <2>2. IsHighest(m, m.universe_priority)
    BY <1>1, HighestIs DEF UpToDate
  <2>3. m.sources[h].universe_priority \in Nat
    BY <1>1, SourceFields
  <2>4. ASSUME ~(m.sources[h].universe_priority >= m.universe_priority)
        PROVE  IsHighest(rest, m.universe_priority)
    BY <1>8, <1>10, <2>2, <2>3, <2>4 DEF IsHighest
  <2> QED
    BY <1>10, <2>1, <2>4 DEF IsHighest
<1> HIDE DEF priority
<1>14. /\ IsMerger(flagged) /\ flagged.out = rest.out /\ flagged.sources = rest.sources
       /\ flagged.per_address_priorities_active = PapStillActive(m, h)
  BY <1>11, <1>12, FlagChanged
<1> HIDE DEF flagged, n
<1>15. /\ IsMerger(n) /\ n.out = merged.out /\ n.sources = sources
       /\ n.universe_priority = priority
       /\ n.per_address_priorities_active = PapStillActive(m, h)
  BY <1>3, <1>10, <1>13, <1>14, PriorityChanged
<1>16. Merged(n)
  <2> SUFFICES ASSUME NEW slot \in Slots PROVE Stands(n.out[slot], Candidates(n, slot))
    BY <1>15, MergedSlots
  <2>1. Stands(merged.out[slot], Candidates(merged, slot))
    BY <1>5, MergedSlots
  <2>2. Candidates(merged, slot) = Candidates(n, slot) \cup {Candidate(merged, h, slot)}
    BY <1>7, <1>8, <1>15 DEF Candidates, Candidate
  <2>3. Candidate(merged, h, slot).pap = 0
    BY <1>6
  <2>4. merged.out[slot] # Candidate(merged, h, slot) \/ merged.out[slot] = Unowned
    BY <2>1, <2>3 DEF Stands
  <2> QED
    BY <1>15, <2>1, <2>2, <2>4 DEF Stands
<1>17. n.universe_priority = HighestPriority(n)
  <2>1. IsHighest(n, priority)
    BY <1>10, <1>13, <1>15 DEF IsHighest
  <2> QED
    BY <1>15, <2>1, HighestIs
<1>18. PapStillActive(m, h) <=> AnyPap(n)
  <2>1. m.per_address_priorities_active <=> AnyPap(m)
    BY DEF UpToDate
  <2>2. AnyPap(n) <=> \E x \in DOMAIN m.sources \ {h} : ~m.sources[x].using_universe_priority
    BY <1>8, <1>15 DEF AnyPap
  <2>3. AnyPap(m) <=> \/ ~m.sources[h].using_universe_priority
                      \/ \E x \in DOMAIN m.sources \ {h} : ~m.sources[x].using_universe_priority
    BY DEF AnyPap
  <2> QED
    BY <2>1, <2>2, <2>3 DEF PapStillActive
<1>19. n.per_address_priorities_active = AnyPap(n)
  BY <1>12, <1>15, <1>18 DEF AnyPap
<1> QED
  BY <1>15, <1>16, <1>17, <1>19 DEF UpToDate

(* update_sacn_dmx_merger_universe_priority: for a source with priorities   *)
(* of its own it is one for the output only.                                *)
LEMMA UpdateUniversePriorityUpToDate ==
    ASSUME NEW m, UpToDate(m), NEW h \in DOMAIN m.sources, NEW priority \in Nat
    PROVE  UpToDate(UpdateUniversePriority(m, h, priority))
<1> DEFINE old == m.sources[h]
           source == [old EXCEPT !.universe_priority_uninitialized = FALSE,
                                 !.universe_priority = priority]
           told == [m EXCEPT !.sources[h].universe_priority_uninitialized = FALSE,
                             !.sources[h].universe_priority = priority]
           filled == [source EXCEPT !.pap_count = MaxSlots]
           wide == [told EXCEPT !.sources[h].pap_count = MaxSlots]
           paps == [slot \in Slots |-> AsPap(priority)]
           merged == IF ~old.using_universe_priority THEN told ELSE WithPaps(wide, h, paps)
           highest == NewUniversePriority(merged, m, old.universe_priority, priority)
           n == UpdateUniversePriority(m, h, priority)
<1>1. IsMerger(m) /\ Merged(m)
  BY DEF UpToDate
<1>2. /\ source \in Source
      /\ source.universe_priority = priority
      /\ source.using_universe_priority = old.using_universe_priority
      /\ source.levels = old.levels
      /\ source.valid_level_count = old.valid_level_count
      /\ source.address_priority = old.address_priority
      /\ filled \in Source
      /\ filled.universe_priority = priority
      /\ filled.using_universe_priority = old.using_universe_priority
      /\ filled.levels = old.levels
      /\ filled.valid_level_count = old.valid_level_count
      /\ filled.address_priority = old.address_priority
  <2>1. old \in Source /\ MaxSlots \in 0 .. MaxSlots
    BY <1>1, SourceFields, SlotsAssumption
  <2> HIDE DEF old
  <2> QED
    BY <2>1 DEF Source
<1>3. n = m \/ n = [merged EXCEPT !.universe_priority = highest]
  BY DEF UpdateUniversePriority
<1>4. told = [m EXCEPT !.sources = [m.sources EXCEPT ![h] = source]]
  OBVIOUS
<1>5. /\ OnlySourceOf(h, m, told) /\ told.sources[h] = source /\ told.out = m.out
      /\ told.universe_priority = m.universe_priority
      /\ told.per_address_priorities_active = m.per_address_priorities_active
  <2> HIDE DEF source, told
  <2> QED
    BY <1>1, <1>2, <1>4, SourceChanged
<1>6. wide = [told EXCEPT !.sources = [told.sources EXCEPT ![h] = filled]]
  <2> HIDE DEF source, told
  <2>1. filled = [told.sources[h] EXCEPT !.pap_count = MaxSlots]
    BY <1>5
  <2> HIDE DEF filled
  <2> QED
    BY <2>1
<1>7. paps \in [Slots -> Nat]
  BY AsPapNat
<1> SUFFICES UpToDate(n)
  OBVIOUS
<1> HIDE DEF old, source, filled, told, paps, wide, n
<1>8. IsMerger(told) /\ h \in DOMAIN told.sources
  BY <1>5 DEF OnlySourceOf
<1>9. /\ OnlySourceOf(h, told, wide) /\ wide.sources[h] = filled /\ wide.out = told.out
      /\ wide.universe_priority = told.universe_priority
      /\ wide.per_address_priorities_active = told.per_address_priorities_active
  BY <1>2, <1>8, <1>6, SourceChanged
<1>10. OnlySourceOf(h, m, wide)
  BY <1>5, <1>9 DEF OnlySourceOf
<1>11. ASSUME NEW x, OnlySourceOf(h, m, x), x.out = m.out,
              x.sources[h].levels = old.levels,
              x.sources[h].valid_level_count = old.valid_level_count,
              x.sources[h].address_priority = old.address_priority
      PROVE  Merged(x)
  <2> SUFFICES ASSUME NEW slot \in Slots PROVE Stands(x.out[slot], Candidates(x, slot))
    BY <1>11, MergedSlots DEF OnlySourceOf
  <2>1. Stands(m.out[slot], Candidates(m, slot))
    BY <1>1, MergedSlots
  <2>2. \A y \in DOMAIN m.sources : Candidate(x, y, slot) = Candidate(m, y, slot)
    BY <1>11 DEF OnlySourceOf, Candidate, SourcePap, old
  <2>3. Candidates(x, slot) = Candidates(m, slot)
    BY <1>11, <2>2 DEF OnlySourceOf, Candidates
  <2> QED
    BY <1>11, <2>1, <2>3
<1>12. Merged(told) /\ Merged(wide)
  <2>1. Merged(told)
    BY <1>2, <1>5, <1>11
  <2>2. Merged(wide)
    BY <1>2, <1>5, <1>9, <1>10, <1>11
  <2> QED
    BY <2>1, <2>2
<1>13. /\ OnlySourceOf(h, m, merged) /\ Merged(merged)
       /\ merged.sources[h].universe_priority = priority
       /\ merged.sources[h].using_universe_priority = old.using_universe_priority
       /\ merged.per_address_priorities_active = m.per_address_priorities_active
  <2>1. CASE ~old.using_universe_priority
    BY <1>2, <1>5, <1>12, <2>1
  <2>2. CASE old.using_universe_priority
    <3>1. merged = WithPaps(wide, h, paps)
      BY <2>2
    <3> HIDE DEF merged
    <3>2. IsMerger(wide) /\ h \in DOMAIN wide.sources
      BY <1>10 DEF OnlySourceOf
    <3>3. /\ OnlySourceOf(h, wide, merged) /\ Merged(merged)
          /\ merged.sources[h] = [filled EXCEPT !.address_priority = paps]
          /\ merged.per_address_priorities_active = wide.per_address_priorities_active
      BY <1>7, <1>9, <1>12, <3>1, <3>2, WithPapsMerged
    <3>4. OnlySourceOf(h, m, merged)
      BY <1>10, <3>3 DEF OnlySourceOf
    <3>5. /\ merged.sources[h].universe_priority = priority
          /\ merged.sources[h].using_universe_priority = old.using_universe_priority
      BY <1>2, <3>3 DEF Source
    <3> QED
      BY <1>5, <1>9, <3>3, <3>4, <3>5
  <2> QED
    BY <2>1, <2>2
<1> HIDE DEF merged
<1>14. IsMerger(merged) /\ DOMAIN merged.sources = DOMAIN m.sources
  BY <1>13 DEF OnlySourceOf
<1>15. IsHighest(merged, highest)
  <2>1. IsHighest(m, m.universe_priority)
    BY <1>1, HighestIs DEF UpToDate
  <2>2. IsHighest(merged, HighestPriority(merged))
    BY <1>14, HighestIs
  <2>3. old.universe_priority = m.sources[h].universe_priority /\ old.universe_priority \in Nat
    BY <1>1, SourceFields DEF old
  <2>4. \A x \in DOMAIN m.sources \ {h} :
           merged.sources[x].universe_priority = m.sources[x].universe_priority
    BY <1>13 DEF OnlySourceOf
  <2>5. \A x \in DOMAIN m.sources : m.sources[x].universe_priority \in Nat
    BY <1>1, SourceFields
  <2>6. CASE Single(merged)
    <3>1. DOMAIN merged.sources = {h}
      <4>1. IsFiniteSet(DOMAIN merged.sources)
        BY <1>14, MergerFields
      <4>2. PICK x : DOMAIN merged.sources = {x}
        BY <2>6, <4>1, FS_Singleton DEF Single
      <4> QED
        BY <1>14, <4>2
    <3>2. highest = priority
      BY <2>6 DEF NewUniversePriority
    <3> QED
      BY <1>13, <3>1, <3>2 DEF IsHighest
  <2>7. CASE ~Single(merged) /\ priority >= m.universe_priority
    <3>1. highest = priority
      BY <2>7 DEF NewUniversePriority
    <3>2. \A x \in DOMAIN m.sources : merged.sources[x].universe_priority <= priority
      <4> TAKE x \in DOMAIN m.sources
      <4>1. CASE x = h
        BY <1>13, <4>1
      <4>2. CASE x # h
        <5>1. /\ merged.sources[x].universe_priority = m.sources[x].universe_priority
              /\ m.sources[x].universe_priority <= m.universe_priority
              /\ m.sources[x].universe_priority \in Nat /\ m.universe_priority \in Nat
          BY <2>1, <2>4, <2>5, <4>2 DEF IsHighest
        <5> QED
          BY <2>7, <5>1
      <4> QED
        BY <4>1, <4>2
    <3> QED
      BY <1>13, <1>14, <3>1, <3>2 DEF IsHighest
  <2>8. CASE ~Single(merged) /\ ~(priority >= m.universe_priority)
               /\ old.universe_priority >= m.universe_priority
    BY <2>2, <2>8 DEF NewUniversePriority
  <2>9. CASE ~Single(merged) /\ ~(priority >= m.universe_priority)
               /\ ~(old.universe_priority >= m.universe_priority)
    <3>1. highest = m.universe_priority
      BY <2>9 DEF NewUniversePriority
    <3>2. m.universe_priority \in Nat /\ priority <= m.universe_priority /\ m.universe_priority # 0
      BY <2>1, <2>9 DEF IsHighest
    <3>3. PICK x \in DOMAIN m.sources : m.sources[x].universe_priority = m.universe_priority
      BY <2>1, <3>2 DEF IsHighest
    <3>4. x # h
      BY <2>3, <2>9, <3>2, <3>3
    <3>5. \A y \in DOMAIN m.sources : merged.sources[y].universe_priority <= m.universe_priority
      BY <1>13, <2>1, <2>4, <3>2 DEF IsHighest
    <3>6. merged.sources[x].universe_priority = m.universe_priority
      BY <2>4, <3>3, <3>4
    <3> QED
      BY <1>14, <3>1, <3>2, <3>5, <3>6 DEF IsHighest
  <2> QED
    BY <2>6, <2>7, <2>8, <2>9
<1> HIDE DEF highest
<1>16. CASE n = [merged EXCEPT !.universe_priority = highest]
  <2>1. highest \in Nat
    BY <1>15 DEF IsHighest
  <2>2. /\ IsMerger(n) /\ n.out = merged.out /\ n.sources = merged.sources
        /\ n.universe_priority = highest
        /\ n.per_address_priorities_active = m.per_address_priorities_active
    BY <1>13, <1>14, <1>16, <2>1, PriorityChanged
  <2>3. Merged(n)
    <3>1. \A slot \in Slots : Stands(merged.out[slot], Candidates(merged, slot))
      BY <1>13, <1>14, MergedSlots
    <3>2. \A slot \in Slots : Candidates(n, slot) = Candidates(merged, slot)
      BY <2>2, SameCandidates
    <3> QED
      BY <2>2, <3>1, <3>2, MergedSlots
  <2>4. n.universe_priority = HighestPriority(n)
    <3>1. IsHighest(n, highest)
      BY <1>15, <2>2 DEF IsHighest
    <3> QED
      BY <2>2, <3>1, HighestIs
  <2>5. AnyPap(n) = AnyPap(m)
    <3>1. \A x \in DOMAIN m.sources :
             n.sources[x].using_universe_priority = m.sources[x].using_universe_priority
      BY <1>13, <2>2 DEF OnlySourceOf, old
    <3> QED
      BY <1>14, <2>2, <3>1 DEF AnyPap
  <2> QED
    BY <2>2, <2>3, <2>4, <2>5 DEF UpToDate
<1> QED
  BY <1>3, <1>16

(* The lower and the higher of two numbers of levels.                       *)
LEMMA MinMaxOfTwo ==
    ASSUME NEW a \in Nat, NEW b \in Nat
    PROVE  /\ Min({a, b}) = IF a <= b THEN a ELSE b
           /\ Max({a, b}) = IF a <= b THEN b ELSE a
<1>1. \A x \in {a, b} : x = a \/ x = b
  OBVIOUS
<1>2. Min({a, b}) = IF a <= b THEN a ELSE b
  <2> DEFINE least == IF a <= b THEN a ELSE b
  <2>1. least \in {a, b} /\ \A y \in {a, b} : least <= y
    OBVIOUS
  <2>2. \A x \in {a, b} : (\A y \in {a, b} : x <= y) => x = least
    OBVIOUS
  <2> HIDE DEF least
  <2> QED
    BY <2>1, <2>2 DEF Min, least
<1>3. Max({a, b}) = IF a <= b THEN b ELSE a
  <2> DEFINE greatest == IF a <= b THEN b ELSE a
  <2>1. greatest \in {a, b} /\ \A y \in {a, b} : greatest >= y
    OBVIOUS
  <2>2. \A x \in {a, b} : (\A y \in {a, b} : x >= y) => x = greatest
    OBVIOUS
  <2> HIDE DEF greatest
  <2> QED
    BY <2>1, <2>2 DEF Max, greatest
<1> QED
  BY <1>2, <1>3

(* update_sacn_dmx_merger_levels: the slots the source had and has a level  *)
(* for by their levels, the ones it has gained or lost by their priorities. *)
LEMMA UpdateLevelsUpToDate ==
    ASSUME NEW m, UpToDate(m), NEW h \in DOMAIN m.sources,
           NEW levels \in Seq(Nat), Len(levels) \in 0 .. MaxSlots
    PROVE  UpToDate(UpdateLevels(m, h, levels))
<1> DEFINE old == m.sources[h]
           old_count == old.valid_level_count
           padded == [slot \in Slots |-> IF slot <= Len(levels) THEN levels[slot] ELSE 0]
           source == [old EXCEPT !.levels = padded, !.valid_level_count = Len(levels)]
           told == [m EXCEPT !.sources[h].levels = padded,
                             !.sources[h].valid_level_count = Len(levels)]
           kept == Min({old_count, Len(levels)})
           most == Max({old_count, Len(levels)})
           alone == [slot \in Slots |-> LevelSingle(told, h, slot, old_count)]
           several == [slot \in Slots |-> IF slot <= kept THEN LevelMulti(told, h, slot)
                                          ELSE m.out[slot]]
           range == kept + 1 .. most
           mid == [told EXCEPT !.out = several]
           n == UpdateLevels(m, h, levels)
<1>1. IsMerger(m) /\ Merged(m)
  BY DEF UpToDate
<1>2. /\ source \in Source
      /\ source.levels = padded
      /\ source.valid_level_count = Len(levels)
      /\ source.universe_priority = old.universe_priority
      /\ source.using_universe_priority = old.using_universe_priority
      /\ source.address_priority = old.address_priority
      /\ old_count \in Nat /\ Len(levels) \in Nat
  <2>1. old \in Source /\ Len(levels) \in 0 .. MaxSlots /\ old_count \in Nat /\ Len(levels) \in Nat
    BY <1>1, SourceFields
  <2>2. padded \in [Slots -> Nat]
    <3>1. \A slot \in Slots : slot \in Nat /\ slot >= 1
      BY SlotsAssumption DEF Slots
    <3>2. \A slot \in Slots : slot <= Len(levels) => levels[slot] \in Nat
      BY <3>1
    <3> QED
      BY <3>2
  <2> HIDE DEF padded, old
  <2> QED
    BY <2>1, <2>2 DEF Source
<1>3. \/ n = m
      \/ Single(m) /\ n = [told EXCEPT !.out = alone]
      \/ ~Single(m) /\ n = MergeNewPriorities(mid, h, range)
  BY DEF UpdateLevels
<1>4. told = [m EXCEPT !.sources = [m.sources EXCEPT ![h] = source]]
  OBVIOUS
<1>5. /\ kept <= old_count /\ kept <= Len(levels) /\ kept \in Nat
      /\ most >= old_count /\ most >= Len(levels) /\ most \in Nat
      /\ most = old_count \/ most = Len(levels)
      /\ kept = old_count \/ kept = Len(levels)
  <2> HIDE DEF old_count
  <2>1. /\ kept = IF old_count <= Len(levels) THEN old_count ELSE Len(levels)
        /\ most = IF old_count <= Len(levels) THEN Len(levels) ELSE old_count
    BY <1>2, MinMaxOfTwo
  <2> HIDE DEF kept, most
  <2> QED
    BY <1>2, <2>1
<1> SUFFICES UpToDate(n)
  OBVIOUS
<1> HIDE DEF padded, source, told, n, kept, most
<1>6. /\ OnlySourceOf(h, m, told) /\ told.sources[h] = source /\ told.out = m.out
      /\ told.universe_priority = m.universe_priority
      /\ told.per_address_priorities_active = m.per_address_priorities_active
  BY <1>1, <1>2, <1>4, SourceChanged
<1>7. IsMerger(told) /\ h \in DOMAIN told.sources
  BY <1>6 DEF OnlySourceOf
<1>8. \A slot \in Slots : Stands(told.out[slot], Candidates(m, slot))
  BY <1>1, <1>6, MergedSlots
<1>9. \A slot \in Slots : OnlyOfferOf(h, m, told, slot)
  BY <1>6, OnlySourceOffers
<1>10. ASSUME IsMerger(n), Merged(n), n.sources = told.sources,
              n.universe_priority = m.universe_priority,
              n.per_address_priorities_active = m.per_address_priorities_active
       PROVE  UpToDate(n)
  <2>1. SameFlags(m, n)
    BY <1>2, <1>6, <1>10 DEF SameFlags, OnlySourceOf
  <2> QED
    BY <1>10, <2>1, SameFlagsUpToDate
<1>11. CASE n = m
  BY <1>11
<1>12. CASE Single(m) /\ n = [told EXCEPT !.out = alone]
  <2>1. \A slot \in Slots : alone[slot] = LevelSingle(told, h, slot, old_count)
    OBVIOUS
  <2>2. \A slot \in Slots : alone[slot] \in Offer /\ Stands(alone[slot], Candidates(told, slot))
    <3> TAKE slot \in Slots
    <3>1. told.sources[h].address_priority = m.sources[h].address_priority
      BY <1>2, <1>6
    <3>2. OnlyOfferOf(h, m, told, slot) /\ Stands(told.out[slot], Candidates(m, slot))
      BY <1>8, <1>9
    <3> QED
      BY <1>12, <2>1, <3>1, <3>2, LevelSingleStands
  <2>3. alone \in [Slots -> Offer]
    BY <2>2
  <2> HIDE DEF alone
  <2>4. /\ IsMerger(n) /\ n.out = alone /\ n.sources = told.sources
        /\ n.universe_priority = told.universe_priority
        /\ n.per_address_priorities_active = told.per_address_priorities_active
    BY <1>7, <1>12, <2>3, OutChanged
  <2>5. Merged(n)
    <3>1. \A slot \in Slots : Candidates(n, slot) = Candidates(told, slot)
      BY <2>4, SameCandidates
    <3> QED
      BY <2>2, <2>4, <3>1, MergedSlots
  <2> QED
    BY <1>6, <1>10, <2>4, <2>5
<1>13. CASE ~Single(m) /\ n = MergeNewPriorities(mid, h, range)
  <2>1. \A slot \in Slots : slot \in Nat /\ slot >= 1
    BY SlotsAssumption DEF Slots
  <2>2. ASSUME NEW slot \in Slots, slot <= kept
        PROVE  /\ LevelMulti(told, h, slot) \in Offer
               /\ Stands(LevelMulti(told, h, slot), Candidates(told, slot))
    <3>1. OnlyOfferOf(h, m, told, slot) /\ Stands(told.out[slot], Candidates(m, slot))
      BY <1>8, <1>9
    <3>2. slot <= told.sources[h].valid_level_count /\ slot <= m.sources[h].valid_level_count
      BY <1>2, <1>5, <1>6, <2>1, <2>2
    <3>3. told.sources[h].address_priority = m.sources[h].address_priority
      BY <1>2, <1>6
    <3>4. /\ Candidate(m, h, slot).pap = told.sources[h].address_priority[slot]
          /\ Candidate(told, h, slot).pap = told.sources[h].address_priority[slot]
      BY <3>2, <3>3 DEF Candidate, SourcePap
    <3> QED
      BY <3>1, <3>4, LevelMultiStands
  <2>3. several \in [Slots -> Offer]
    BY <1>7, <1>6, <2>2, MergerFields
  <2>4. \A slot \in Slots : several[slot] = IF slot <= kept THEN LevelMulti(told, h, slot)
                                            ELSE m.out[slot]
    OBVIOUS
  <2> HIDE DEF several
  <2>5. /\ IsMerger(mid) /\ mid.out = several /\ mid.sources = told.sources
        /\ mid.universe_priority = told.universe_priority
        /\ mid.per_address_priorities_active = told.per_address_priorities_active
    BY <1>7, <2>3, OutChanged
  <2> HIDE DEF mid
  <2>6. \A slot \in Slots : /\ Candidates(mid, slot) = Candidates(told, slot)
                            /\ Candidate(mid, h, slot) = Candidate(told, h, slot)
    BY <2>5, SameCandidates
  <2>7. OnlySourceOf(h, m, mid)
    BY <1>6, <2>5 DEF OnlySourceOf
  <2>8. ASSUME NEW slot \in Slots, slot > kept
        PROVE  Candidate(m, h, slot).pap = 0 \/ Candidate(mid, h, slot).pap = 0
    <3>1. slot > m.sources[h].valid_level_count \/ slot > mid.sources[h].valid_level_count
      BY <1>2, <1>5, <1>6, <2>1, <2>5, <2>8
    <3> QED
      BY <1>2, <1>6, <2>5, <3>1, BeyondLevels
  <2>9. ASSUME NEW slot \in Slots, slot > most
        PROVE  Candidate(m, h, slot).pap = 0 /\ Candidate(mid, h, slot).pap = 0
    <3>1. slot > m.sources[h].valid_level_count /\ slot > mid.sources[h].valid_level_count
      BY <1>2, <1>5, <1>6, <2>1, <2>5, <2>9
    <3> QED
      BY <1>2, <1>6, <2>5, <3>1, BeyondLevels
  <2>10. ASSUME NEW slot \in Slots, slot > kept
         PROVE  /\ Remerged(mid, h, slot) \in Offer
                /\ Stands(Remerged(mid, h, slot), Candidates(mid, slot))
    <3>1. OnlyOfferOf(h, m, mid, slot)
      BY <2>7, OnlySourceOffers
    <3>2. ~(slot <= kept)
      BY <1>5, <2>1, <2>10
    <3>3. Stands(mid.out[slot], Candidates(m, slot))
      BY <1>6, <1>8, <2>4, <2>5, <3>2
    <3>4. Candidate(m, h, slot).pap > 0 /\ Candidate(mid, h, slot).pap > 0 =>
             Candidate(mid, h, slot).level = Candidate(m, h, slot).level
      BY <2>8, <2>10
    <3> QED
      BY <3>1, <3>3, <3>4, RemergedStands
  <2>11. \A slot \in Slots : /\ slot \in range <=> slot > kept /\ slot <= most
                             /\ slot > most => slot > kept
    BY <1>2, <1>5, <2>1
  <2>12. \A slot \in Slots : slot \in range => Remerged(mid, h, slot) \in Offer
    BY <2>10, <2>11
  <2> HIDE DEF range
  <2>13. IsMerger(mid) /\ h \in DOMAIN mid.sources
    BY <2>7 DEF OnlySourceOf
  <2>14. /\ IsMerger(n) /\ n.sources = mid.sources
         /\ n.universe_priority = mid.universe_priority
         /\ n.per_address_priorities_active = mid.per_address_priorities_active
         /\ \A slot \in Slots : n.out[slot] = IF slot \in range THEN Remerged(mid, h, slot)
                                              ELSE mid.out[slot]
    BY <1>13, <2>12, <2>13, MergeNewPrioritiesFields
  <2>15. Merged(n)
    <3> SUFFICES ASSUME NEW slot \in Slots PROVE Stands(n.out[slot], Candidates(mid, slot))
      <4>1. \A slot \in Slots : Candidates(n, slot) = Candidates(mid, slot)
        BY <2>14, SameCandidates
      <4> QED
        BY <2>14, <4>1, MergedSlots
    <3>1. CASE slot \in range
      BY <2>10, <2>11, <2>14, <3>1
    <3>2. CASE slot <= kept
      <4>1. slot \notin range
        BY <1>5, <2>1, <2>11, <3>2
      <4> QED
        BY <2>2, <2>4, <2>5, <2>6, <2>14, <3>2, <4>1
    <3>3. CASE slot > most
      <4>1. slot \notin range /\ ~(slot <= kept)
        BY <1>5, <2>1, <2>11, <3>3
      <4>2. n.out[slot] = m.out[slot] /\ m.out[slot] \in Offer
        BY <1>1, <2>4, <2>5, <2>14, <4>1, MergerFields
      <4>3. Stands(m.out[slot], Candidates(m, slot))
        BY <1>6, <1>8
      <4>4. \A x \in DOMAIN m.sources :
               \/ Candidate(mid, x, slot) = Candidate(m, x, slot)
               \/ Candidate(mid, x, slot).pap = 0 /\ Candidate(m, x, slot).pap = 0
        BY <2>7, <2>9, <3>3, OnlySourceOffers DEF OnlyOfferOf
      <4>5. DOMAIN mid.sources = DOMAIN m.sources
        BY <2>7 DEF OnlySourceOf
      <4> QED
        BY <1>1, <2>13, <4>2, <4>3, <4>4, <4>5, StandsSame
    <3> QED
      BY <1>5, <2>1, <2>11, <3>1, <3>2, <3>3
  <2> QED
    BY <1>6, <1>10, <2>5, <2>14, <2>15
<1> QED
  BY <1>3, <1>11, <1>12, <1>13

-----------------------------------------------------------------------------
(* What the calls make of the sources, whatever they make of the output: for*)
(* users that have mergers beside state of their own.                       *)

(* The tables of merger n are those of m, but for source h.                 *)
SourceBecomes(m, n, h, source) ==
    /\ DOMAIN n.sources = DOMAIN m.sources
    /\ n.sources[h] = source
    /\ \A x \in DOMAIN m.sources \ {h} : n.sources[x] = m.sources[x]

(* Writing the output changes no table.                                     *)
LEMMA OutputApart ==
    ASSUME NEW m, IsMerger(m), NEW out
    PROVE  [m EXCEPT !.out = out].sources = m.sources
<1> DEFINE sources == m.sources
           priority == m.universe_priority
           flag == m.per_address_priorities_active
           n == [m EXCEPT !.out = out]
<1>1. m = [sources |-> sources, out |-> m.out, universe_priority |-> priority,
           per_address_priorities_active |-> flag]
  BY DEF IsMerger
<1> HIDE DEF sources, priority, flag
<1>2. n.sources = sources
  BY <1>1
<1> QED
  BY <1>2 DEF sources

(* add_sacn_dmx_merger_source.                                              *)
LEMMA AddSourceSources ==
    ASSUME NEW m, IsMerger(m), NEW h
    PROVE  LET n == AddSource(m, h) IN
           /\ n.sources = [x \in DOMAIN m.sources \cup {h} |->
                              IF x = h THEN NewSource ELSE m.sources[x]]
           /\ n.out = m.out
<1> DEFINE sources == [x \in DOMAIN m.sources \cup {h} |->
                         IF x = h THEN NewSource ELSE m.sources[x]]
           n == [m EXCEPT !.sources = sources]
<1>1. AddSource(m, h) = n
  BY DEF AddSource
<1>2. m = [sources |-> m.sources, out |-> m.out, universe_priority |-> m.universe_priority,
           per_address_priorities_active |-> m.per_address_priorities_active]
  BY DEF IsMerger
<1> HIDE DEF sources
<1>3. n.sources = sources /\ n.out = m.out
  BY <1>2
<1> QED
  BY <1>1, <1>3 DEF sources

(* update_sacn_dmx_merger_levels: zeros follow the levels given.            *)
LEMMA UpdateLevelsSources ==
    ASSUME NEW m, IsMerger(m), NEW h \in DOMAIN m.sources,
           NEW levels \in Seq(Nat), Len(levels) \in 0 .. MaxSlots
    PROVE  SourceBecomes(m, UpdateLevels(m, h, levels), h,
              [m.sources[h] EXCEPT
                 !.levels = [slot \in Slots |-> IF slot <= Len(levels) THEN levels[slot] ELSE 0],
                 !.valid_level_count = Len(levels)])
<1> DEFINE old == m.sources[h]
           padded == [slot \in Slots |-> IF slot <= Len(levels) THEN levels[slot] ELSE 0]
           source == [old EXCEPT !.levels = padded, !.valid_level_count = Len(levels)]
           told == [m EXCEPT !.sources[h].levels = padded,
                             !.sources[h].valid_level_count = Len(levels)]
           alone == [slot \in Slots |-> LevelSingle(told, h, slot, old.valid_level_count)]
           kept == Min({old.valid_level_count, Len(levels)})
           several == [slot \in Slots |-> IF slot <= kept THEN LevelMulti(told, h, slot)
                                          ELSE m.out[slot]]
           range == kept + 1 .. Max({old.valid_level_count, Len(levels)})
           mid == [told EXCEPT !.out = several]
           n == UpdateLevels(m, h, levels)
<1>1. old \in Source /\ padded \in [Slots -> Nat]
  <2>1. old \in Source
    BY SourceFields
  <2>2. \A slot \in Slots : slot \in Nat /\ slot >= 1
    BY SlotsAssumption DEF Slots
  <2>3. \A slot \in Slots : slot <= Len(levels) => levels[slot] \in Nat
    BY <2>2
  <2> QED
    BY <2>1, <2>3
<1>2. \/ padded = old.levels /\ Len(levels) = old.valid_level_count /\ n = m
      \/ n = [told EXCEPT !.out = alone]
      \/ n = MergeNewPriorities(mid, h, range)
  BY DEF UpdateLevels
<1>3. told = [m EXCEPT !.sources = [m.sources EXCEPT ![h] = source]]
  OBVIOUS
<1>4. source \in Source
  <2> HIDE DEF old, padded
  <2> QED
    BY <1>1 DEF Source
<1>5. IsMerger(told) /\ SourceBecomes(m, told, h, source)
  <2> HIDE DEF source, told
  <2> QED
    BY <1>3, <1>4, SourceChanged DEF OnlySourceOf, SourceBecomes
<1>6. ASSUME padded = old.levels, Len(levels) = old.valid_level_count, n = m
      PROVE  SourceBecomes(m, n, h, source)
  <2> HIDE DEF padded, old, n
  <2>1. source = old
    BY <1>1, <1>6 DEF Source
  <2> HIDE DEF source
  <2> QED
    BY <1>6, <2>1 DEF SourceBecomes, old
<1> HIDE DEF told, source
<1>7. [told EXCEPT !.out = alone].sources = told.sources
  <2> HIDE DEF alone
  <2> QED
    BY <1>5, OutputApart
<1>8. mid.sources = told.sources
  <2> HIDE DEF several
  <2> QED
    BY <1>5, OutputApart
<1>9. MergeNewPriorities(mid, h, range).sources = mid.sources
  <2>1. MergeNewPriorities(mid, h, range) =
          [told EXCEPT !.out = [slot \in Slots |->
              IF slot \in range THEN Remerged(mid, h, slot) ELSE mid.out[slot]]]
    <3> DEFINE out == [slot \in Slots |->
              IF slot \in range THEN Remerged(mid, h, slot) ELSE mid.out[slot]]
    <3>1. MergeNewPriorities(mid, h, range) = [mid EXCEPT !.out = out]
      BY DEF MergeNewPriorities
    <3> HIDE DEF out, several
    <3>2. [mid EXCEPT !.out = out] = [told EXCEPT !.out = out]
      BY <1>5 DEF IsMerger
    <3> QED
      BY <3>1, <3>2 DEF out
  <2> DEFINE out == [slot \in Slots |->
              IF slot \in range THEN Remerged(mid, h, slot) ELSE mid.out[slot]]
  <2> HIDE DEF out, mid
  <2> QED
    BY <1>5, <1>8, <2>1, OutputApart DEF out
<1> HIDE DEF n, mid, alone, range
<1>10. n.sources = told.sources => SourceBecomes(m, n, h, source)
  BY <1>5 DEF SourceBecomes
<1> QED
  BY <1>2, <1>6, <1>7, <1>8, <1>9, <1>10 DEF source, n

(* Giving a source priorities.                                              *)
LEMMA WithPapsSources ==
    ASSUME NEW m, IsMerger(m), NEW h \in DOMAIN m.sources, NEW paps \in [Slots -> Nat]
    PROVE  /\ SourceBecomes(m, WithPaps(m, h, paps), h,
                 [m.sources[h] EXCEPT !.address_priority = paps])
           /\ DOMAIN WithPaps(m, h, paps) = DOMAIN m
<1> DEFINE source == [m.sources[h] EXCEPT !.address_priority = paps]
           told == [m EXCEPT !.sources = [m.sources EXCEPT ![h] = source]]
           range == 1 .. m.sources[h].valid_level_count
           taken == [slot \in Slots |->
                       IF slot > told.sources[h].valid_level_count THEN told.out[slot]
                       ELSE IF told.sources[h].address_priority[slot] = 0 THEN Unowned
                       ELSE Candidate(told, h, slot)]
           merged == [slot \in Slots |-> IF slot \in range THEN Remerged(told, h, slot)
                                         ELSE told.out[slot]]
           n == WithPaps(m, h, paps)
<1>1. source \in Source
  <2>1. m.sources[h] \in Source
    BY SourceFields
  <2> QED
    BY <2>1 DEF Source
<1>2. IsMerger(told) /\ SourceBecomes(m, told, h, source)
  <2> HIDE DEF source
  <2> QED
    BY <1>1, SourceChanged DEF OnlySourceOf, SourceBecomes
<1>3. n = [told EXCEPT !.out = taken] \/ n = [told EXCEPT !.out = merged]
  BY DEF WithPaps, TakeSlots, MergeNewPriorities
<1>4. DOMAIN told = DOMAIN m
  OBVIOUS
<1> HIDE DEF taken, merged, told, n, source
<1>5. DOMAIN n = DOMAIN m
  BY <1>3, <1>4
<1>6. n.sources = told.sources
  BY <1>2, <1>3, OutputApart
<1>7. SourceBecomes(m, n, h, source)
  BY <1>2, <1>6 DEF SourceBecomes
<1> QED
  BY <1>7, <1>5 DEF n, source

(* update_sacn_dmx_merger_pap.                                              *)
PapTable(source, paps) ==
    [slot \in Slots |-> IF slot <= Len(paps) THEN paps[slot]
                        ELSE IF slot <= source.pap_count THEN 0
                        ELSE source.address_priority[slot]]

(* A source has the priorities it was given, and no universe priority.     *)
LEMMA UpdatePapSources ==
    ASSUME NEW m, IsMerger(m), NEW h \in DOMAIN m.sources,
           NEW paps \in Seq(Nat), Len(paps) \in 0 .. MaxSlots
    PROVE  SourceBecomes(m, UpdatePap(m, h, paps), h,
              [m.sources[h] EXCEPT !.using_universe_priority = FALSE, !.pap_count = Len(paps),
                                   !.address_priority = PapTable(m.sources[h], paps)])
<1> DEFINE old == m.sources[h]
           table == PapTable(old, paps)
           counted == [old EXCEPT !.using_universe_priority = FALSE, !.pap_count = Len(paps)]
           source == [old EXCEPT !.using_universe_priority = FALSE, !.pap_count = Len(paps),
                                 !.address_priority = table]
           named == [m EXCEPT !.sources[h].using_universe_priority = FALSE,
                              !.sources[h].pap_count = Len(paps)]
           told == [m EXCEPT !.sources[h].using_universe_priority = FALSE,
                             !.sources[h].pap_count = Len(paps),
                             !.per_address_priorities_active = TRUE]
           n == UpdatePap(m, h, paps)
<1>1. old \in Source /\ old.address_priority \in [Slots -> Nat]
  BY SourceFields
<1>2. counted \in Source /\ counted.address_priority = old.address_priority
  <2> HIDE DEF old
  <2> QED
    BY <1>1 DEF Source
<1>3. table \in [Slots -> Nat]
  <2>1. \A slot \in Slots : slot \in Nat /\ slot >= 1
    BY SlotsAssumption DEF Slots
  <2>2. \A slot \in Slots : slot <= Len(paps) => paps[slot] \in Nat
    BY <2>1
  <2> HIDE DEF old
  <2> QED
    BY <1>1, <2>2 DEF PapTable
<1>4. \/ /\ Len(paps) = old.pap_count
         /\ \A slot \in DOMAIN paps : paps[slot] = old.address_priority[slot]
         /\ n = told
      \/ n = WithPaps(told, h, table)
  BY DEF UpdatePap, PapTable
<1>5. named = [m EXCEPT !.sources = [m.sources EXCEPT ![h] = counted]]
  OBVIOUS
<1>6. told = [named EXCEPT !.per_address_priorities_active = TRUE]
  OBVIOUS
<1>7. source = [counted EXCEPT !.address_priority = table]
  OBVIOUS
<1> HIDE DEF counted, named, told, table, n
<1>8. IsMerger(named) /\ SourceBecomes(m, named, h, counted)
  BY <1>2, <1>5, SourceChanged DEF OnlySourceOf, SourceBecomes
<1>9. IsMerger(told) /\ SourceBecomes(m, told, h, counted)
  <2>1. IsMerger(told) /\ told.sources = named.sources
    BY <1>6, <1>8, FlagChanged
  <2> QED
    BY <1>8, <2>1 DEF SourceBecomes
<1>10. ASSUME n = WithPaps(told, h, table) PROVE SourceBecomes(m, n, h, source)
  <2>1. SourceBecomes(told, n, h, [told.sources[h] EXCEPT !.address_priority = table])
    BY <1>3, <1>9, <1>10, WithPapsSources DEF SourceBecomes
  <2>2. [told.sources[h] EXCEPT !.address_priority = table] = source
    BY <1>7, <1>9 DEF SourceBecomes
  <2> HIDE DEF source
  <2> QED
    BY <1>9, <2>1, <2>2 DEF SourceBecomes
<1>11. ASSUME Len(paps) = old.pap_count, n = told,
              \A slot \in DOMAIN paps : paps[slot] = old.address_priority[slot]
       PROVE  SourceBecomes(m, n, h, source)
  <2>1. \A slot \in Slots : slot <= Len(paps) => slot \in DOMAIN paps
    <3>1. \A slot \in Slots : slot \in Nat /\ slot >= 1
      BY SlotsAssumption DEF Slots
    <3> QED
      BY <3>1
  <2>2. table = old.address_priority
    <3> HIDE DEF old
    <3>1. \A slot \in Slots : table[slot] = old.address_priority[slot]
      BY <1>11, <2>1 DEF table, PapTable
    <3> QED
      BY <1>1, <1>3, <3>1
  <2>3. source = counted
    <3> HIDE DEF source, old
    <3>1. [counted EXCEPT !.address_priority = old.address_priority] = counted
      BY <1>2 DEF Source
    <3> QED
      BY <1>7, <2>2, <3>1
  <2> QED
    BY <1>9, <1>11, <2>3
<1> HIDE DEF source
<1>12. SourceBecomes(m, n, h, source)
  BY <1>4, <1>10, <1>11
<1> QED
  BY <1>12 DEF source, n, table

(* update_sacn_dmx_merger_universe_priority: nothing when it is the one the *)
(* source was given before.                                                 *)
LEMMA UpdateUniversePrioritySources ==
    ASSUME NEW m, IsMerger(m), NEW h \in DOMAIN m.sources, NEW priority \in Nat
    PROVE  LET old == m.sources[h]
               n == UpdateUniversePriority(m, h, priority) IN
           IF priority = old.universe_priority /\ ~old.universe_priority_uninitialized
           THEN n = m
           ELSE SourceBecomes(m, n, h,
                   IF old.using_universe_priority
                   THEN [old EXCEPT !.universe_priority_uninitialized = FALSE,
                                    !.universe_priority = priority, !.pap_count = MaxSlots,
                                    !.address_priority = [slot \in Slots |-> AsPap(priority)]]
                   ELSE [old EXCEPT !.universe_priority_uninitialized = FALSE,
                                    !.universe_priority = priority])
<1> DEFINE old == m.sources[h]
           paps == [slot \in Slots |-> AsPap(priority)]
           given == [old EXCEPT !.universe_priority_uninitialized = FALSE,
                                !.universe_priority = priority]
           filled == [given EXCEPT !.pap_count = MaxSlots]
           source == [old EXCEPT !.universe_priority_uninitialized = FALSE,
                                 !.universe_priority = priority, !.pap_count = MaxSlots,
                                 !.address_priority = paps]
           told == [m EXCEPT !.sources[h].universe_priority_uninitialized = FALSE,
                             !.sources[h].universe_priority = priority]
           wide == [told EXCEPT !.sources[h].pap_count = MaxSlots]
           merged == IF ~old.using_universe_priority THEN told ELSE WithPaps(wide, h, paps)
           highest == NewUniversePriority(merged, m, old.universe_priority, priority)
           n == UpdateUniversePriority(m, h, priority)
<1>1. IF priority = old.universe_priority /\ ~old.universe_priority_uninitialized
      THEN n = m ELSE n = [merged EXCEPT !.universe_priority = highest]
  BY DEF UpdateUniversePriority
<1>2. old \in Source /\ paps \in [Slots -> Nat] /\ MaxSlots \in 0 .. MaxSlots
  BY SourceFields, AsPapNat, SlotsAssumption
<1>3. given \in Source /\ filled \in Source
  <2> HIDE DEF old
  <2> QED
    BY <1>2 DEF Source
<1>4. told = [m EXCEPT !.sources = [m.sources EXCEPT ![h] = given]]
  OBVIOUS
<1>5. IsMerger(told) /\ SourceBecomes(m, told, h, given)
  <2> HIDE DEF given, told
  <2> QED
    BY <1>3, <1>4, SourceChanged DEF OnlySourceOf, SourceBecomes
<1>6. wide = [told EXCEPT !.sources = [told.sources EXCEPT ![h] = filled]]
  <2> HIDE DEF given, told
  <2>1. filled = [told.sources[h] EXCEPT !.pap_count = MaxSlots]
    BY <1>5 DEF SourceBecomes
  <2> HIDE DEF filled
  <2> QED
    BY <2>1
<1>7. IsMerger(wide) /\ SourceBecomes(m, wide, h, filled)
  <2> HIDE DEF given, filled, told, wide
  <2>1. IsMerger(wide) /\ SourceBecomes(told, wide, h, filled)
    BY <1>3, <1>5, <1>6, SourceChanged DEF OnlySourceOf, SourceBecomes
  <2> QED
    BY <1>5, <2>1 DEF SourceBecomes
<1>8. source = [filled EXCEPT !.address_priority = paps]
  OBVIOUS
<1> HIDE DEF old, given, filled, source, told, paps, wide, n
<1>9. SourceBecomes(m, WithPaps(wide, h, paps), h, source)
  <2>1. SourceBecomes(wide, WithPaps(wide, h, paps), h,
           [wide.sources[h] EXCEPT !.address_priority = paps])
    BY <1>2, <1>7, WithPapsSources DEF SourceBecomes
  <2>2. [wide.sources[h] EXCEPT !.address_priority = paps] = source
    BY <1>7, <1>8 DEF SourceBecomes
  <2> QED
    BY <1>7, <2>1, <2>2 DEF SourceBecomes
<1>10. SourceBecomes(m, merged, h, IF old.using_universe_priority THEN source ELSE given)
  BY <1>5, <1>9
<1>11. "sources" \in DOMAIN merged
  <2>1. IsMerger(wide) /\ h \in DOMAIN wide.sources /\ paps \in [Slots -> Nat]
    BY <1>2, <1>7 DEF SourceBecomes
  <2>2. DOMAIN WithPaps(wide, h, paps) = DOMAIN wide
    BY <2>1, WithPapsSources
  <2>3. "sources" \in DOMAIN told /\ "sources" \in DOMAIN wide
    BY <1>5, <1>7 DEF IsMerger
  <2> QED
    BY <2>2, <2>3
<1> HIDE DEF merged, highest
<1>12. [merged EXCEPT !.universe_priority = highest].sources = merged.sources
  BY <1>11
<1>13. n = [merged EXCEPT !.universe_priority = highest] =>
          SourceBecomes(m, n, h, IF old.using_universe_priority THEN source ELSE given)
  BY <1>10, <1>12 DEF SourceBecomes
<1>14. IF priority = old.universe_priority /\ ~old.universe_priority_uninitialized
       THEN n = m
       ELSE SourceBecomes(m, n, h, IF old.using_universe_priority THEN source ELSE given)
  BY <1>1, <1>13
<1> QED
  BY <1>14 DEF old, n, source, given, paps

(* remove_sacn_dmx_merger_pap.                                              *)
LEMMA RemovePapSources ==
    ASSUME NEW m, IsMerger(m), NEW h \in DOMAIN m.sources
    PROVE  SourceBecomes(m, RemovePap(m, h), h,
              [m.sources[h] EXCEPT !.using_universe_priority = TRUE,
                                   !.address_priority = [slot \in Slots |->
                                       AsPap(m.sources[h].universe_priority)]])
<1> DEFINE paps == [slot \in Slots |-> AsPap(m.sources[h].universe_priority)]
           source == [m.sources[h] EXCEPT !.using_universe_priority = TRUE,
                                          !.address_priority = paps]
           told == [m EXCEPT !.sources = [m.sources EXCEPT ![h] = source]]
           range == 1 .. m.sources[h].valid_level_count
           out == [slot \in Slots |-> IF slot \in range THEN Remerged(told, h, slot)
                                      ELSE told.out[slot]]
           named == [told EXCEPT !.out = out]
           flag == PapStillActive(m, h)
           n == RemovePap(m, h)
<1>1. source \in Source
  <2>1. m.sources[h] \in Source /\ paps \in [Slots -> Nat]
    BY SourceFields, AsPapNat
  <2> HIDE DEF paps
  <2> QED
    BY <2>1 DEF Source
<1>2. n = [named EXCEPT !.per_address_priorities_active = flag]
  <2>1. [m EXCEPT !.sources[h].using_universe_priority = TRUE,
                  !.sources[h].address_priority = paps] = told
    OBVIOUS
  <2> HIDE DEF told
  <2>2. n = [MergeNewPriorities(told, h, range) EXCEPT !.per_address_priorities_active = flag]
    BY <2>1 DEF RemovePap
  <2>3. MergeNewPriorities(told, h, range) = named
    BY DEF MergeNewPriorities
  <2> HIDE DEF named, n, flag
  <2> QED
    BY <2>2, <2>3
<1>3. IsMerger(told) /\ SourceBecomes(m, told, h, source)
  <2> HIDE DEF source
  <2> QED
    BY <1>1, SourceChanged DEF OnlySourceOf, SourceBecomes
<1> HIDE DEF source, told, out
<1>4. n.sources = told.sources
  <2>1. told = [sources |-> told.sources, out |-> told.out,
                universe_priority |-> told.universe_priority,
                per_address_priorities_active |-> told.per_address_priorities_active]
    BY <1>3 DEF IsMerger
  <2> HIDE DEF flag, n
  <2>2. named = [sources |-> told.sources, out |-> out,
                 universe_priority |-> told.universe_priority,
                 per_address_priorities_active |-> told.per_address_priorities_active]
    BY <2>1
  <2> HIDE DEF named
  <2> QED
    BY <1>2, <2>2
<1> HIDE DEF n
<1>5. SourceBecomes(m, n, h, source)
  BY <1>3, <1>4 DEF SourceBecomes
<1> QED
  BY <1>5 DEF n, source

(* remove_sacn_dmx_merger_source.                                           *)
LEMMA RemoveSourceSources ==
    ASSUME NEW m, IsMerger(m), NEW h \in DOMAIN m.sources
    PROVE  RemoveSource(m, h).sources = [x \in DOMAIN m.sources \ {h} |-> m.sources[x]]
<1> DEFINE none == [slot \in Slots |-> 0]
           source == [m.sources[h] EXCEPT !.address_priority = none]
           told == [m EXCEPT !.sources = [m.sources EXCEPT ![h] = source]]
           merged == MergeNewPriorities(told, h, Slots)
           sources == [x \in DOMAIN merged.sources \ {h} |-> merged.sources[x]]
           rest == [merged EXCEPT !.sources = sources]
           priority == IF m.sources[h].universe_priority >= rest.universe_priority
                       THEN HighestPriority(rest) ELSE rest.universe_priority
           n == RemoveSource(m, h)
<1>1. source \in Source
  <2>1. m.sources[h] \in Source /\ none \in [Slots -> Nat]
    BY SourceFields
  <2> HIDE DEF none
  <2> QED
    BY <2>1 DEF Source
<1>2. n = [[rest EXCEPT !.per_address_priorities_active = PapStillActive(m, h)]
             EXCEPT !.universe_priority = priority]
  <2>1. [m EXCEPT !.sources[h].address_priority = none] = told
    OBVIOUS
  <2> HIDE DEF told
  <2> QED
    BY <2>1 DEF RemoveSource
<1>3. IsMerger(told) /\ SourceBecomes(m, told, h, source)
  <2> HIDE DEF source
  <2> QED
    BY <1>1, SourceChanged DEF OnlySourceOf, SourceBecomes
<1> HIDE DEF source, told, none
<1>4. merged.sources = told.sources /\ DOMAIN merged = DOMAIN told
  <2> DEFINE out == [slot \in Slots |-> IF slot \in Slots THEN Remerged(told, h, slot)
                                        ELSE told.out[slot]]
  <2>1. merged = [told EXCEPT !.out = out]
    BY DEF MergeNewPriorities
  <2> HIDE DEF out, merged
  <2>2. DOMAIN merged = DOMAIN told
    BY <2>1
  <2> QED
    BY <1>3, <2>1, <2>2, OutputApart
<1> HIDE DEF merged
<1>5. {"sources", "universe_priority", "per_address_priorities_active"} \subseteq DOMAIN merged
  BY <1>3, <1>4 DEF IsMerger
<1>6. sources = [x \in DOMAIN m.sources \ {h} |-> m.sources[x]]
  BY <1>3, <1>4 DEF SourceBecomes
<1> HIDE DEF sources
<1>7. rest.sources = sources /\ DOMAIN rest = DOMAIN merged
  BY <1>5
<1> HIDE DEF rest, priority, n
<1>8. n.sources = rest.sources
  BY <1>2, <1>7
<1> QED
  BY <1>6, <1>7, <1>8 DEF n

-----------------------------------------------------------------------------
(* One merger, called in any order.                                         *)

(* The invariant that the calls keep.                                       *)
AlwaysUpToDate == UpToDate(merger)

(* Every call leaves an up-to-date merger up to date.                       *)
LEMMA CallsUpToDate == UpToDate(merger) /\ [Next]_merger => UpToDate(merger')
<1> SUFFICES ASSUME UpToDate(merger), [Next]_merger PROVE UpToDate(merger')
  OBVIOUS
<1>1. CASE Recreated
  BY <1>1, NewMergerUpToDate DEF Recreated
<1>2. ASSUME NEW h \in Handles, AddsSource(h) PROVE UpToDate(merger')
  BY <1>2, AddSourceUpToDate DEF AddsSource
<1>3. ASSUME NEW h \in Handles, RemovesSource(h) PROVE UpToDate(merger')
  BY <1>3, RemoveSourceUpToDate DEF RemovesSource, Known
<1>4. ASSUME NEW h \in Handles, UpdatesLevels(h) PROVE UpToDate(merger')
  BY <1>4, UpdateLevelsUpToDate, ValuesAssumption DEF UpdatesLevels, Known
<1>5. ASSUME NEW h \in Handles, UpdatesPap(h) PROVE UpToDate(merger')
  BY <1>5, UpdatePapUpToDate, ValuesAssumption DEF UpdatesPap, Known
<1>6. ASSUME NEW h \in Handles, UpdatesUniversePriority(h) PROVE UpToDate(merger')
  BY <1>6, UpdateUniversePriorityUpToDate, ValuesAssumption
  DEF UpdatesUniversePriority, Known
<1>7. ASSUME NEW h \in Handles, RemovesPap(h) PROVE UpToDate(merger')
  BY <1>7, RemovePapUpToDate DEF RemovesPap, Known
<1>8. CASE UNCHANGED merger
  BY <1>8
<1> QED
  BY <1>1, <1>2, <1>3, <1>4, <1>5, <1>6, <1>7, <1>8 DEF Next

(* After any sequence of calls the output buffers are those of a merge from *)
(* scratch, although update_levels, update_pap and merge_new_priorities     *)
(* only touch the slots a call is about.                                    *)
THEOREM MergedFromScratchCorrect == Spec => []MergedFromScratch
<1>1. Init => AlwaysUpToDate
  BY NewMergerUpToDate DEF Init, AlwaysUpToDate
<1>2. AlwaysUpToDate /\ [Next]_merger => AlwaysUpToDate'
  BY CallsUpToDate DEF AlwaysUpToDate
<1>3. AlwaysUpToDate => MergedFromScratch
  BY DEF AlwaysUpToDate, UpToDate, MergedFromScratch
<1> QED
  BY <1>1, <1>2, <1>3, PTL DEF Spec

(* The tables of the sources are well formed, and the output priority and   *)
(* the flag for per-address priorities, kept by recalculate_* where sources *)
(* come, change and go, are those of the sources there are.                 *)
THEOREM ConsistentCorrect == Spec => []Consistent
<1>1. Init => AlwaysUpToDate
  BY NewMergerUpToDate DEF Init, AlwaysUpToDate
<1>2. AlwaysUpToDate /\ [Next]_merger => AlwaysUpToDate'
  BY CallsUpToDate DEF AlwaysUpToDate
<1>3. AlwaysUpToDate => Consistent
  BY DEF AlwaysUpToDate, UpToDate, Consistent, TypeOK, OutputPriorityExact, OutputPapExact
<1> QED
  BY <1>1, <1>2, <1>3, PTL DEF Spec

=============================================================================
