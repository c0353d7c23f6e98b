------------------------ MODULE SourceDetectorProofs ------------------------
(***************************************************************************)
(* For any components, lists of pages and limits: the handles the source   *)
(* detector shares with the receivers are counted exactly, a page is put   *)
(* inside the list it belongs to, and a list whose pages came in order is  *)
(* told, whatever came before.                                             *)
(*                                                                         *)
(* The handles come first, with their invariant.  Then what the pages of a *)
(* list are together, what a page makes of a source that follows the list, *)
(* and the invariant of what is heard and told, one action at a time.      *)
(***************************************************************************)
EXTENDS SourceDetector, WellFoundedInduction, TLAPS

-----------------------------------------------------------------------------
(* Sequences.                                                               *)

(* Two sequences, one after the other.                                      *)
LEMMA JoinedIs ==
    ASSUME NEW a \in Seq(Nat), NEW b \in Seq(Nat)
    PROVE  /\ a \o b \in Seq(Nat) /\ Len(a \o b) = Len(a) + Len(b)
           /\ \A j \in 1 .. Len(a) : (a \o b)[j] = a[j]
           /\ \A j \in 1 .. Len(b) : (a \o b)[Len(a) + j] = b[j]
<1>1. a \o b \in Seq(Nat) /\ Len(a \o b) = Len(a) + Len(b)
  OBVIOUS
<1>2. \A j \in 1 .. Len(a) : (a \o b)[j] = a[j]
  OBVIOUS
<1>3. \A j \in 1 .. Len(b) : (a \o b)[Len(a) + j] = b[j]
  <2> TAKE j \in 1 .. Len(b)
  <2> DEFINE k == Len(a) + j
  <2>1. k \in 1 .. Len(a) + Len(b) /\ k > Len(a) /\ k - Len(a) = j
    OBVIOUS
  <2> HIDE DEF k
  <2>2. (a \o b)[k] = b[k - Len(a)]
    BY <2>1
  <2> QED
    BY <2>1, <2>2 DEF k
<1> QED
  BY <1>1, <1>2, <1>3

(* A part of a sequence.                                                    *)
LEMMA PartIs ==
    ASSUME NEW a \in Seq(Nat), NEW from \in Nat, NEW count \in Nat, from + count <= Len(a)
    PROVE  LET part == SubSeq(a, from + 1, from + count) IN
           /\ part \in Seq(Nat) /\ Len(part) = count
           /\ \A j \in 1 .. count : part[j] = a[from + j]
<1>1. SubSeq(a, from + 1, from + count) =
        [j \in 1 .. from + count - (from + 1) + 1 |-> a[from + 1 + j - 1]]
  OBVIOUS
<1>2. from + count - (from + 1) + 1 = count
  OBVIOUS
<1> QED
  BY <1>1, <1>2

(* Sequences as long as each other that hold the same are the same.         *)
LEMMA SameIs ==
    ASSUME NEW a \in Seq(Nat), NEW b \in Seq(Nat), Len(a) = Len(b),
           \A j \in 1 .. Len(b) : a[j] = b[j]
    PROVE  a = b
<1>1. a = [j \in 1 .. Len(a) |-> a[j]] /\ b = [j \in 1 .. Len(b) |-> b[j]]
  OBVIOUS
<1> QED
  BY <1>1

USE DetectorAssumption

-----------------------------------------------------------------------------
(* The invariant: what the handles' counting and the pages' places need.    *)

SourcesTyped ==
    /\ DOMAIN sources \subseteq HandleNumbers
    /\ sources \in [DOMAIN sources -> Source]

RemoteTyped ==
    /\ DOMAIN remote \subseteq Cids
    /\ remote \in [DOMAIN remote -> [handle : HandleNumbers, refcount : Nat \ {0}]]

ToldTyped ==
    /\ told \in [Cids -> Seq(Numbers) \cup {Untold}]
    /\ tracked \subseteq Cids /\ recreated \in BOOLEAN
    /\ detector.universes_per_source_max \in Nat

(* No two components share a handle.                                        *)
OneEach ==
    \A c \in DOMAIN remote : \A d \in DOMAIN remote : HandleOf(c) = HandleOf(d) => c = d

SourceHandles ==
    \A h \in DOMAIN sources : IsRemote(sources[h].cid) /\ HandleOf(sources[h].cid) = h

(* The detector and the receivers that hold a component's handle.           *)
Holders(c) == (IF IsFound(c) THEN 1 ELSE 0) + (IF c \in tracked THEN 1 ELSE 0)

Counted ==
    \A c \in Cids : IF IsRemote(c) THEN remote[c].refcount = Holders(c) ELSE Holders(c) = 0

Handles == RemoteTyped /\ OneEach /\ SourceHandles /\ Counted

(* Until a detector was made after another, there are no sources without    *)
(* one, and without a limit the next page is compared inside the list.      *)
PlacedIn(source) == source.next_universe_index <= Len(source.universes)

Placed ==
    ~recreated =>
        /\ ~detector.created => DOMAIN sources = {}
        /\ detector.universes_per_source_max = 0 =>
              \A h \in DOMAIN sources : PlacedIn(sources[h])

Inv == SourcesTyped /\ ToldTyped /\ Handles /\ Placed

-----------------------------------------------------------------------------
(* What a page does to a source.                                            *)

(* A page of a list, as it comes.                                           *)
IsPage(page) ==
    /\ page.page \in Nat /\ page.last_page \in Nat
    /\ page.universes \in Seq(Numbers)

(* Every page a source sends is one.                                        *)
LEMMA PagesAre ==
    ASSUME NEW list \in Lists, NEW i \in DOMAIN list
    PROVE  IsPage(PageOf(list, i))
<1>1. list \in Seq(Seq(Nat)) /\ Len(list) > 0 /\ i \in 1 .. Len(list)
  OBVIOUS
<1>2. list[i] \in Seq(Nat)
  BY <1>1
<1>3. Range(list[i]) \subseteq Numbers
  <2> DEFINE Ranges(l) == {Range(l[j]) : j \in DOMAIN l}
             All == {UNION Ranges(l) : l \in Lists}
  <2>1. Range(list[i]) \in Ranges(list)
    OBVIOUS
  <2>2. UNION Ranges(list) \in All
    OBVIOUS
  <2>3. Universes = UNION All
    BY DEF Universes
  <2> HIDE DEF Ranges, All
  <2> QED
    BY <2>1, <2>2, <2>3 DEF Numbers
<1>4. \A j \in DOMAIN list[i] : list[i][j] \in Range(list[i])
  BY DEF Range
<1>5. list[i] \in Seq(Numbers)
  BY <1>2, <1>3, <1>4
<1>6. PageOf(list, i).page = i - 1 /\ PageOf(list, i).last_page = Len(list) - 1
  BY DEF PageOf
<1>7. PageOf(list, i).universes = list[i]
  BY DEF PageOf
<1> QED
  BY <1>1, <1>5, <1>6, <1>7 DEF IsPage

(* A difference of sizes is a size.                                         *)
LEMMA SizeMinusIs ==
    ASSUME NEW a \in Nat, NEW b \in Nat
    PROVE  SizeMinus(a, b) \in Nat /\ (b <= a => SizeMinus(a, b) <= a - b)
BY DEF SizeMinus

(* A list that starts anew is the same list.                                *)
LEMMA StartedIs ==
    ASSUME NEW source \in Source
    PROVE  /\ FromTheStart(source) \in Source
           /\ FromTheStart(source).cid = source.cid
           /\ FromTheStart(source).universes = source.universes
           /\ FromTheStart(source).next_universe_index = 0
BY DEF FromTheStart, Source

(* A page is put in where it belongs, and ends the list.                    *)
LEMMA ReplacedIs ==
    ASSUME NEW source \in Source, NEW page, IsPage(page), NEW count \in Nat,
           count <= Len(page.universes), NEW gap \in Garbage
    PROVE  LET new == Replaced(source, page, count, gap) IN
           /\ new \in Source /\ new.cid = source.cid
           /\ new.next_universe_index = source.next_universe_index
           /\ Len(new.universes) = source.next_universe_index + count
<1> DEFINE from == source.next_universe_index
           list == [i \in 1 .. from + count |->
                       IF i > from THEN page.universes[i - from]
                       ELSE IF i <= Len(source.universes) THEN source.universes[i] ELSE gap]
<1>1. from \in Nat /\ source.universes \in Seq(Numbers)
  BY DEF Source
<1>2. page.universes \in Seq(Numbers)
  BY DEF IsPage
<1>3. gap \in Numbers
  BY DEF Numbers
<1>4. \A i \in 1 .. from + count : list[i] \in Numbers
  BY <1>1, <1>2, <1>3
<1>5. list \in Seq(Numbers) /\ Len(list) = from + count
  <2> DEFINE all == from + count
  <2>1. all \in Nat
    BY <1>1
  <2>2. list \in [1 .. all -> Numbers]
    BY <1>4, Zenon
  <2> HIDE DEF list, all
  <2>3. list \in Seq(Numbers) /\ Len(list) = all
    BY <2>1, <2>2
  <2> QED
    BY <2>3 DEF all
<1>6. Replaced(source, page, count, gap) = [source EXCEPT !.universes = list]
  BY DEF Replaced
<1> HIDE DEF list
<1> QED
  BY <1>5, <1>6 DEF Source

(* What Modified leaves, and when there is no limit, puts in.               *)
LEMMA ModifiedIs ==
    ASSUME NEW source \in Source, NEW page, IsPage(page), NEW limit \in Nat,
           NEW gap \in Garbage
    PROVE  LET new == Modified(source, page, limit, gap) IN
           /\ new \in Source /\ new.cid = source.cid
           /\ new.next_universe_index = source.next_universe_index
           /\ limit = 0 => Len(new.universes) =
                              source.next_universe_index + Len(page.universes)
<1> DEFINE fits == Fitting(source, page, limit)
           count == Len(page.universes)
           dirty == [source EXCEPT !.universes_dirty = TRUE]
           full == [dirty EXCEPT !.suppress_universe_limit_exceeded_notification = TRUE]
           new == Modified(source, page, limit, gap)
<1>1. count \in Nat
  BY DEF IsPage
<1>2. source.next_universe_index \in Nat
  BY DEF Source
<1>3. fits \in Nat /\ (limit = 0 => fits = count)
  BY <1>1, <1>2, SizeMinusIs DEF Fitting
<1>4. /\ dirty \in Source /\ dirty.cid = source.cid
      /\ dirty.next_universe_index = source.next_universe_index
  BY DEF Source
<1>5. /\ full \in Source /\ full.cid = source.cid
      /\ full.next_universe_index = source.next_universe_index
  BY DEF Source
<1>6. new = CASE fits > count -> dirty
              [] fits = count -> Replaced(dirty, page, count, gap)
              [] fits < count /\ fits > 0 -> Replaced(full, page, fits, gap)
              [] fits < count /\ fits = 0 -> full
  BY DEF Modified
<1> HIDE DEF fits, count, dirty, full, new
<1>7. CASE fits > count
  BY <1>1, <1>3, <1>4, <1>6, <1>7 DEF new
<1>8. CASE fits = count
  <2>1. new = Replaced(dirty, page, count, gap)
    BY <1>1, <1>6, <1>8
  <2> QED
    BY <1>1, <1>4, <2>1, ReplacedIs DEF new, count
<1>9. CASE fits < count /\ fits > 0
  <2>1. new = Replaced(full, page, fits, gap)
    BY <1>1, <1>3, <1>6, <1>9
  <2>2. limit # 0 /\ fits <= count
    BY <1>1, <1>3, <1>9
  <2> QED
    BY <1>3, <1>5, <2>1, <2>2, ReplacedIs DEF new, count
<1>10. CASE fits < count /\ fits = 0
  BY <1>1, <1>3, <1>5, <1>6, <1>10 DEF new
<1> QED
  BY <1>1, <1>3, <1>7, <1>8, <1>9, <1>10

(* A page that is compared inside the list leaves the next one's place      *)
(* inside it, when there is no limit.                                       *)
LEMMA AfterPageIs ==
    ASSUME NEW source \in Source, NEW page, IsPage(page), NEW limit \in Nat,
           NEW differs \in BOOLEAN, NEW gap \in Garbage
    PROVE  LET result == AfterPage(source, page, limit, differs, gap) IN
           /\ result.source \in Source /\ result.source.cid = source.cid
           /\ limit = 0 /\ PlacedIn(source) => PlacedIn(result.source)
<1> DEFINE result == AfterPage(source, page, limit, differs, gap)
           count == Len(page.universes)
           at == IF page.page = 0 THEN FromTheStart(source) ELSE source
           changed == IF page_modifies_universe_list(at, page, differs)
                      THEN Modified(at, page, limit, gap) ELSE at
           tells == changed.universes_dirty /\ IsAscending(changed.universes)
           fewer == Len(changed.universes) < changed.last_notified_universe_count
           complete == FromTheStart(changed)
           last == [complete EXCEPT
                      !.universes_dirty = FALSE,
                      !.last_notified_universe_count =
                          IF tells THEN Len(changed.universes) ELSE @,
                      !.suppress_universe_limit_exceeded_notification =
                          @ /\ ~(tells /\ fewer)]
           next == [changed EXCEPT !.next_universe_index = @ + count, !.next_page = @ + 1]
<1>1. count \in Nat
  BY DEF IsPage
<1>2. at \in Source /\ at.cid = source.cid
  BY StartedIs
<1>3. PlacedIn(source) => PlacedIn(at)
  <2>1. source.universes \in Seq(Numbers)
    BY DEF Source
  <2>2. Len(source.universes) \in Nat
    BY <2>1
  <2> QED
    BY <2>2, StartedIs DEF PlacedIn
<1> HIDE DEF at
<1>4. changed \in Source /\ changed.cid = source.cid
  BY <1>2, ModifiedIs
<1>5. limit = 0 /\ PlacedIn(at) =>
        changed.next_universe_index + count <= Len(changed.universes)
  <2>1. /\ at.next_universe_index \in Nat /\ at.universes \in Seq(Numbers)
        /\ Len(at.universes) \in Nat
    BY <1>2 DEF Source
  <2>2. CASE page_modifies_universe_list(at, page, differs)
    BY <1>1, <1>2, <2>1, <2>2, ModifiedIs
  <2>3. CASE ~page_modifies_universe_list(at, page, differs)
    <3>1. changed = at
      BY <2>3
    <3>2. ~(count > SizeMinus(Len(at.universes), at.next_universe_index))
      BY <2>3 DEF page_modifies_universe_list
    <3>3. SizeMinus(Len(at.universes), at.next_universe_index) \in Nat
      BY <2>1, SizeMinusIs
    <3>4. PlacedIn(at) => SizeMinus(Len(at.universes), at.next_universe_index)
                            <= Len(at.universes) - at.next_universe_index
      BY <2>1, SizeMinusIs DEF PlacedIn
    <3> QED
      BY <1>1, <2>1, <3>1, <3>2, <3>3, <3>4
  <2> QED
    BY <2>2, <2>3
<1> HIDE DEF changed
<1>6. tells \in BOOLEAN /\ fewer \in BOOLEAN /\ Len(changed.universes) \in Nat
  <2>1. changed.universes \in Seq(Numbers) /\ changed.universes_dirty \in BOOLEAN
    BY <1>4 DEF Source
  <2> QED
    BY <2>1 DEF IsAscending
<1>7. /\ FromTheStart(source) \in Source /\ FromTheStart(source).cid = source.cid
      /\ PlacedIn(source) => PlacedIn(FromTheStart(source))
  <2>1. Len(source.universes) \in Nat
    BY DEF Source
  <2> QED
    BY <2>1, StartedIs DEF PlacedIn
<1>8. complete \in Source /\ complete.cid = source.cid /\ PlacedIn(complete)
  BY <1>4, <1>6, StartedIs DEF PlacedIn
<1>9. result = IF page.page # 0 /\ page.page # source.next_page
               THEN [source |-> FromTheStart(source), tells |-> FALSE]
               ELSE IF page.page < page.last_page
               THEN [source |-> next, tells |-> FALSE]
               ELSE [source |-> last, tells |-> tells]
  BY DEF AfterPage, at, changed
<1> HIDE DEF tells, fewer, complete, result, count
<1>10. next \in Source /\ next.cid = source.cid
  <2>1. /\ changed.next_universe_index + count \in Nat
        /\ changed.next_page + 1 \in Nat
    BY <1>1, <1>4 DEF Source
  <2> QED
    BY <1>4, <2>1 DEF Source
<1>11. limit = 0 /\ PlacedIn(source) => PlacedIn(next)
  BY <1>1, <1>3, <1>4, <1>5 DEF Source, PlacedIn
<1>12. last \in Source /\ last.cid = source.cid /\ PlacedIn(last)
  BY <1>6, <1>8 DEF Source, PlacedIn
<1> HIDE DEF next, last
<1> QED
  BY <1>7, <1>9, <1>10, <1>11, <1>12 DEF result

-----------------------------------------------------------------------------
(* What taking and giving back a handle does to the table.                  *)

(* A component is found when the detector has a source of it, under its     *)
(* handle.                                                                  *)
LEMMA FoundIs ==
    ASSUME Handles, NEW c \in Cids
    PROVE  /\ IsFound(c) => sources[HandleOf(c)].cid = c
           /\ \A h \in DOMAIN sources : sources[h].cid = c => IsFound(c) /\ HandleOf(c) = h
BY DEF Handles, SourceHandles, OneEach, IsFound, IsRemote

(* The component that takes a handle keeps its own or gets one that is free.*)
LEMMA TakenIs ==
    ASSUME Handles, NEW c \in Cids, NEW handle \in HandlesFor(c),
           remote' = WithRemote(c, handle)
    PROVE  /\ RemoteTyped' /\ OneEach'
           /\ IsRemote(c)' /\ HandleOf(c)' = handle /\ handle \in HandleNumbers
           /\ remote'[c].refcount = (IF IsRemote(c) THEN remote[c].refcount ELSE 0) + 1
           /\ \A d \in Cids \ {c} :
                 /\ IsRemote(d)' <=> IsRemote(d)
                 /\ IsRemote(d) => remote'[d] = remote[d] /\ HandleOf(d) # handle
<1>1. DOMAIN remote' = DOMAIN remote \cup {c}
  BY DEF WithRemote
<1>2. \A d \in DOMAIN remote \ {c} : remote'[d] = remote[d]
  BY DEF WithRemote
<1>3. remote'[c] = IF IsRemote(c) THEN [remote[c] EXCEPT !.refcount = @ + 1]
                   ELSE [handle |-> handle, refcount |-> 1]
  BY DEF WithRemote
<1>4. /\ handle \in HandleNumbers
      /\ IsRemote(c) => handle = HandleOf(c)
      /\ ~IsRemote(c) => handle \notin Used
  BY DEF HandlesFor, Handles, RemoteTyped, HandleOf, IsRemote
<1>5. \A d \in DOMAIN remote \ {c} : HandleOf(d) # handle
  BY <1>4 DEF Handles, OneEach, IsRemote, Used
<1>6. /\ remote'[c] \in [handle : HandleNumbers, refcount : Nat \ {0}]
      /\ remote'[c].handle = handle
      /\ remote'[c].refcount = (IF IsRemote(c) THEN remote[c].refcount ELSE 0) + 1
  <2>1. CASE IsRemote(c)
    <3>1. remote[c] \in [handle : HandleNumbers, refcount : Nat \ {0}]
      BY <2>1 DEF Handles, RemoteTyped, IsRemote
    <3> QED
      BY <1>3, <1>4, <2>1, <3>1 DEF HandleOf
  <2>2. CASE ~IsRemote(c)
    BY <1>3, <1>4, <2>2
  <2> QED
    BY <2>1, <2>2
<1>7. DOMAIN remote' \subseteq Cids
  BY <1>1 DEF Handles, RemoteTyped
<1>8. \A d \in DOMAIN remote' : remote'[d] \in [handle : HandleNumbers, refcount : Nat \ {0}]
  BY <1>1, <1>2, <1>6 DEF Handles, RemoteTyped
<1>9. remote' = [d \in DOMAIN remote' |-> remote'[d]]
  BY <1>1 DEF WithRemote
<1>10. RemoteTyped'
  BY <1>7, <1>8, <1>9 DEF RemoteTyped
<1>11. OneEach'
  BY <1>1, <1>2, <1>5, <1>6 DEF OneEach, HandleOf, Handles
<1> QED
  BY <1>1, <1>2, <1>4, <1>5, <1>6, <1>10, <1>11 DEF IsRemote, HandleOf

(* Components that give their handles back are counted once less, and gone  *)
(* after the last time.                                                     *)
LEMMA GivenBackIs ==
    ASSUME Handles, NEW cs, remote' = remove_remote_source_handles(remote, cs)
    PROVE  /\ RemoteTyped' /\ OneEach'
           /\ \A d \in Cids :
                 /\ IsRemote(d)' <=> IsRemote(d) /\ (d \notin cs \/ remote[d].refcount > 1)
                 /\ IsRemote(d)' => HandleOf(d)' = HandleOf(d)
                 /\ IsRemote(d)' =>
                       remote'[d].refcount = remote[d].refcount - (IF d \in cs THEN 1 ELSE 0)
<1> DEFINE kept == {d \in DOMAIN remote : d \notin cs \/ remote[d].refcount > 1}
<1>1. remote' = [d \in kept |-> IF d \in cs THEN OneLess(remote[d]) ELSE remote[d]]
  BY DEF remove_remote_source_handles
<1>2. kept \subseteq DOMAIN remote /\ kept \subseteq Cids
  BY DEF Handles, RemoteTyped
<1>3. DOMAIN remote' = kept
  BY <1>1
<1>4. \A d \in kept :
         /\ remote'[d] \in [handle : HandleNumbers, refcount : Nat \ {0}]
         /\ remote'[d].handle = remote[d].handle
         /\ remote'[d].refcount = remote[d].refcount - (IF d \in cs THEN 1 ELSE 0)
  <2> TAKE d \in kept
  <2>1. remote[d] \in [handle : HandleNumbers, refcount : Nat \ {0}]
    BY <1>2 DEF Handles, RemoteTyped
  <2>2. CASE d \in cs
    <3>1. remote'[d] = OneLess(remote[d])
      BY <1>1, <2>2
    <3> QED
      BY <2>1, <2>2, <3>1 DEF OneLess
  <2>3. CASE d \notin cs
    <3>1. remote'[d] = remote[d]
      BY <1>1, <2>3
    <3> QED
      BY <2>1, <2>3, <3>1
  <2> QED
    BY <2>2, <2>3
<1>5. \A d \in Cids : d \in kept <=> IsRemote(d) /\ (d \notin cs \/ remote[d].refcount > 1)
  BY DEF IsRemote
<1>6. remote' = [d \in DOMAIN remote' |-> remote'[d]]
  BY <1>1
<1> HIDE DEF kept
<1>7. RemoteTyped'
  BY <1>2, <1>3, <1>4, <1>6 DEF RemoteTyped
<1>8. OneEach'
  BY <1>2, <1>3, <1>4 DEF OneEach, HandleOf, Handles
<1> QED
  BY <1>3, <1>4, <1>5, <1>7, <1>8 DEF IsRemote, HandleOf

(* The counting goes by the handles, the sources' components and what the   *)
(* receivers track.                                                         *)
LEMMA HandlesKept ==
    ASSUME Handles, UNCHANGED <<remote, tracked>>, DOMAIN sources' = DOMAIN sources,
           \A h \in DOMAIN sources : sources'[h].cid = sources[h].cid
    PROVE  Handles'
BY DEF Handles, RemoteTyped, OneEach, SourceHandles, Counted, Holders, IsFound, IsRemote,
       HandleOf

-----------------------------------------------------------------------------
(* Each action preserves the invariant.                                     *)

(* A detector that is created finds no source unless there was one before.  *)
LEMMA CreateInv == ASSUME Inv, Create PROVE Inv'
<1>1. PICK limits \in Limits :
        detector' = [NoDetector EXCEPT !.created = TRUE, !.source_count_max = limits[1],
                                       !.universes_per_source_max = limits[2]]
  BY DEF Create
<1>2. detector'.universes_per_source_max \in Nat /\ detector'.created
  BY <1>1 DEF NoDetector
<1>3. SourcesTyped'
  BY DEF Inv, Create, SourcesTyped
<1>4. ToldTyped'
  BY <1>2 DEF Inv, Create, ToldTyped
<1>5. Handles'
  BY HandlesKept DEF Inv, Create
<1>6. Placed'
  BY <1>2 DEF Inv, Create, Placed
<1> QED
  BY <1>3, <1>4, <1>5, <1>6 DEF Inv

(* The sources of a detector that is destroyed keep their handles.          *)
LEMMA DestroyInv == ASSUME Inv, Destroy PROVE Inv'
<1>1. SourcesTyped'
  BY DEF Inv, Destroy, SourcesTyped
<1>2. ToldTyped'
  BY DEF Inv, Destroy, ToldTyped, NoDetector, NothingTold
<1>3. Handles'
  BY HandlesKept DEF Inv, Destroy
<1>4. Placed'
  BY DEF Destroy, Placed
<1> QED
  BY <1>1, <1>2, <1>3, <1>4 DEF Inv

(* A page of a source the detector has changes its list only.               *)
LEMMA PageOfSourceInv ==
    ASSUME Inv, NEW c \in Cids, NEW list \in Lists, NEW i \in DOMAIN list,
           PageOfSource(c, list, i)
    PROVE  Inv'
<1> DEFINE h == HandleOf(c)
           page == PageOf(list, i)
           limit == detector.universes_per_source_max
           source == [sources[h] EXCEPT !.expiration_timer = Expiration]
           at == IF page.page = 0 THEN FromTheStart(source) ELSE source
           Result(differs, gap) == AfterPage(source, page, limit, differs, gap)
<1>1. h \in DOMAIN sources
  BY DEF PageOfSource, IsFound
<1>2. sources[h] \in Source
  BY <1>1 DEF Inv, SourcesTyped
<1>3. /\ source \in Source /\ source.cid = sources[h].cid
      /\ PlacedIn(sources[h]) => PlacedIn(source)
  <2> DEFINE was == sources[h]
  <2>1. was \in Source /\ source = [was EXCEPT !.expiration_timer = Expiration]
    BY <1>2
  <2>2. Expiration \in 0 .. Expiration
    OBVIOUS
  <2> HIDE DEF was, source
  <2>3. source \in Source /\ source.cid = was.cid
    BY <2>1, <2>2 DEF Source
  <2>4. PlacedIn(was) => PlacedIn(source)
    BY <2>1 DEF Source, PlacedIn
  <2> QED
    BY <2>3, <2>4 DEF was
<1>4. IsPage(page) /\ limit \in Nat
  BY PagesAre DEF Inv, ToldTyped
<1>5. PICK differs \in Differs(at, page), gap \in Gaps(at) :
        /\ sources' = [sources EXCEPT ![h] = Result(differs, gap).source]
        /\ told' = IF Result(differs, gap).tells
                   THEN [told EXCEPT ![c] = Result(differs, gap).source.universes] ELSE told
  BY DEF PageOfSource
<1>6. differs \in BOOLEAN /\ gap \in Garbage
  BY DEF Differs, Gaps
<1> DEFINE new == Result(differs, gap).source
<1>7. /\ new \in Source /\ new.cid = sources[h].cid
      /\ limit = 0 /\ PlacedIn(sources[h]) => PlacedIn(new)
  <2> HIDE DEF h, source, page, limit, at
  <2>1. source \in Source /\ IsPage(page) /\ limit \in Nat
    BY <1>3, <1>4
  <2>2. /\ new \in Source /\ new.cid = source.cid
        /\ limit = 0 /\ PlacedIn(source) => PlacedIn(new)
    BY <1>6, <2>1, AfterPageIs
  <2> HIDE DEF new
  <2> QED
    BY <1>3, <2>2
<1>8. sources' = [sources EXCEPT ![h] = new]
  BY <1>5
<1>9. told' = told \/ told' = [told EXCEPT ![c] = new.universes]
  BY <1>5
<1>10. UNCHANGED <<detector, remote, tracked, recreated>>
  BY DEF PageOfSource
<1> HIDE DEF new, Result, source, at, page
<1>11. SourcesTyped'
  BY <1>1, <1>7, <1>8 DEF Inv, SourcesTyped
<1>12. ToldTyped'
  <2>1. new.universes \in Seq(Numbers)
    BY <1>7 DEF Source
  <2> QED
    BY <1>9, <1>10, <2>1 DEF Inv, ToldTyped
<1>13. Handles'
  <2>1. DOMAIN sources' = DOMAIN sources
    BY <1>8
  <2>2. \A g \in DOMAIN sources : sources'[g].cid = sources[g].cid
    BY <1>1, <1>7, <1>8
  <2>3. UNCHANGED <<remote, tracked>> /\ Handles
    BY <1>10 DEF Inv
  <2> QED
    BY <2>1, <2>2, <2>3, HandlesKept
<1>14. Placed'
  BY <1>1, <1>7, <1>8, <1>10 DEF Inv, Placed
<1> QED
  BY <1>11, <1>12, <1>13, <1>14 DEF Inv

(* A new source takes a reference to its component's handle.                *)
LEMMA PageOfNewInv ==
    ASSUME Inv, NEW c \in Cids, NEW list \in Lists, NEW i \in DOMAIN list,
           PageOfNew(c, list, i)
    PROVE  Inv'
<1> DEFINE page == PageOf(list, i)
           limit == detector.universes_per_source_max
           Result(differs, gap) == AfterPage(NewSource(c), page, limit, differs, gap)
<1>1. ~IsFound(c) /\ UNCHANGED <<detector, tracked, recreated>> /\ detector.created
  BY DEF PageOfNew
<1>2. NewSource(c) \in Source /\ NewSource(c).cid = c /\ PlacedIn(NewSource(c))
  BY DEF NewSource, Source, PlacedIn
<1>3. IsPage(page) /\ limit \in Nat
  BY PagesAre DEF Inv, ToldTyped
<1>4. PICK handle \in HandlesFor(c), differs \in Differs(NewSource(c), page),
           gap \in Gaps(NewSource(c)) :
        /\ remote' = WithRemote(c, handle)
        /\ sources' = [h \in DOMAIN sources \cup {handle} |->
                          IF h = handle THEN Result(differs, gap).source ELSE sources[h]]
        /\ told' = IF Result(differs, gap).tells
                   THEN [told EXCEPT ![c] = Result(differs, gap).source.universes] ELSE told
  BY DEF PageOfNew
<1>5. differs \in BOOLEAN /\ gap \in Garbage
  BY DEF Differs, Gaps
<1> DEFINE new == Result(differs, gap).source
<1>6. new \in Source /\ new.cid = c /\ (limit = 0 => PlacedIn(new))
  BY <1>2, <1>3, <1>5, AfterPageIs
<1>7. sources' = [h \in DOMAIN sources \cup {handle} |-> IF h = handle THEN new ELSE sources[h]]
  BY <1>4
<1>8. told' = told \/ told' = [told EXCEPT ![c] = new.universes]
  BY <1>4
<1> HIDE DEF new, Result, page
<1>9. /\ RemoteTyped' /\ OneEach'
      /\ IsRemote(c)' /\ HandleOf(c)' = handle /\ handle \in HandleNumbers
      /\ remote'[c].refcount = (IF IsRemote(c) THEN remote[c].refcount ELSE 0) + 1
      /\ \A d \in Cids \ {c} :
            /\ IsRemote(d)' <=> IsRemote(d)
            /\ IsRemote(d) => remote'[d] = remote[d] /\ HandleOf(d) # handle
  <2>1. Handles /\ remote' = WithRemote(c, handle)
    BY <1>4 DEF Inv
  <2> QED
    BY <2>1, TakenIs
<1>10. handle \notin DOMAIN sources
  <2> SUFFICES ASSUME handle \in DOMAIN sources PROVE FALSE
    OBVIOUS
  <2> DEFINE d == sources[handle].cid
  <2>1. d \in Cids /\ IsRemote(d) /\ HandleOf(d) = handle
    BY DEF Inv, SourcesTyped, Source, Handles, SourceHandles
  <2>2. d = c
    BY <1>9, <2>1
  <2> QED
    BY <1>1, <2>1, <2>2 DEF IsFound
<1>11. SourcesTyped'
  BY <1>6, <1>7, <1>9 DEF Inv, SourcesTyped
<1>12. ToldTyped'
  <2>1. new.universes \in Seq(Numbers)
    BY <1>6 DEF Source
  <2> QED
    BY <1>1, <1>8, <2>1 DEF Inv, ToldTyped
<1>13. SourceHandles'
  <2> SUFFICES ASSUME NEW h \in DOMAIN sources', NEW d, d = sources'[h].cid
               PROVE  d \in DOMAIN remote' /\ remote'[d].handle = h
    BY DEF SourceHandles, IsRemote, HandleOf
  <2>1. CASE h = handle
    <3>1. d = c
      BY <1>6, <1>7, <2>1
    <3> QED
      BY <1>9, <2>1, <3>1 DEF IsRemote, HandleOf
  <2>2. CASE h # handle
    <3>1. h \in DOMAIN sources /\ sources'[h] = sources[h]
      BY <1>7, <2>2
    <3>2. /\ sources[h].cid \in Cids /\ IsRemote(sources[h].cid)
          /\ HandleOf(sources[h].cid) = h
      BY <3>1 DEF Inv, SourcesTyped, Source, Handles, SourceHandles
    <3>3. sources[h].cid # c
      BY <1>1, <3>1, <3>2 DEF IsFound
    <3>4. d \in Cids \ {c} /\ IsRemote(d) /\ HandleOf(d) = h
      BY <3>1, <3>2, <3>3
    <3> QED
      BY <1>9, <3>4 DEF IsRemote, HandleOf
  <2> QED
    BY <2>1, <2>2
<1>14. Counted'
  <2>1. IsFound(c)'
    BY <1>7, <1>9 DEF IsFound
  <2>2. \A d \in Cids \ {c} : IsFound(d)' <=> IsFound(d)
    BY <1>7, <1>9 DEF IsFound, HandleOf
  <2>3. \A d \in Cids \ {c} : Holders(d)' = Holders(d)
    BY <1>1, <2>2 DEF Holders
  <2>4. Holders(c)' = Holders(c) + 1
    BY <1>1, <2>1 DEF Holders
  <2>5. Holders(c) = IF IsRemote(c) THEN remote[c].refcount ELSE 0
    BY DEF Inv, Handles, Counted
  <2>6. ASSUME NEW d \in Cids
        PROVE  IF IsRemote(d)' THEN remote'[d].refcount = Holders(d)' ELSE Holders(d)' = 0
    <3>1. CASE d = c
      BY <1>9, <2>4, <2>5, <3>1
    <3>2. CASE d # c
      BY <1>9, <2>3, <3>2 DEF Inv, Handles, Counted
    <3> QED
      BY <3>1, <3>2
  <2> QED
    BY <2>6 DEF Counted
<1>15. Placed'
  BY <1>1, <1>6, <1>7 DEF Inv, Placed
<1> QED
  BY <1>9, <1>11, <1>12, <1>13, <1>14, <1>15 DEF Inv, Handles

(* A page that is not taken changes neither sources nor handles.            *)
LEMMA PageOfTooManyInv == ASSUME Inv, NEW c \in Cids, PageOfTooMany(c) PROVE Inv'
<1>1. SourcesTyped'
  BY DEF Inv, PageOfTooMany, SourcesTyped
<1>2. ToldTyped' /\ detector'.universes_per_source_max = detector.universes_per_source_max
      /\ detector'.created
  <2>1. detector' = [detector EXCEPT !.suppress_source_limit_exceeded_notification = TRUE]
    BY DEF PageOfTooMany
  <2>2. /\ detector'.universes_per_source_max = detector.universes_per_source_max
        /\ detector'.created = detector.created
    BY <2>1
  <2> QED
    BY <2>2 DEF Inv, PageOfTooMany, ToldTyped
<1>3. Handles'
  BY HandlesKept DEF Inv, PageOfTooMany
<1>4. Placed'
  BY <1>2 DEF Inv, PageOfTooMany, Placed
<1> QED
  BY <1>1, <1>2, <1>3, <1>4 DEF Inv

(* Time passes for every source.                                            *)
LEMMA TickInv == ASSUME Inv, Tick PROVE Inv'
<1>1. DOMAIN sources' = DOMAIN sources
  BY DEF Tick
<1>2. \A h \in DOMAIN sources :
         /\ sources'[h] \in Source /\ sources'[h].cid = sources[h].cid
         /\ PlacedIn(sources[h]) => PlacedIn(sources'[h])
  <2> TAKE h \in DOMAIN sources
  <2> DEFINE was == sources[h]
             left == Elapse(was.expiration_timer)
  <2>1. was \in Source
    BY DEF Inv, SourcesTyped
  <2>2. left \in 0 .. Expiration
    BY <2>1 DEF Source, Elapse
  <2>3. sources'[h] = [was EXCEPT !.expiration_timer = left]
    BY DEF Tick
  <2> HIDE DEF was, left
  <2>4. /\ [was EXCEPT !.expiration_timer = left] \in Source
        /\ [was EXCEPT !.expiration_timer = left].cid = was.cid
    BY <2>1, <2>2 DEF Source
  <2>5. PlacedIn(was) => PlacedIn([was EXCEPT !.expiration_timer = left])
    BY <2>1 DEF Source, PlacedIn
  <2> QED
    BY <2>3, <2>4, <2>5 DEF was
<1>3. sources' = [h \in DOMAIN sources' |-> sources'[h]]
  BY DEF Tick
<1>4. SourcesTyped'
  BY <1>1, <1>2, <1>3 DEF Inv, SourcesTyped
<1>5. ToldTyped'
  BY DEF Inv, Tick, ToldTyped
<1>6. Handles'
  <2>1. UNCHANGED <<remote, tracked>> /\ Handles
    BY DEF Inv, Tick
  <2> QED
    BY <1>1, <1>2, <2>1, HandlesKept
<1>7. Placed'
  BY <1>1, <1>2 DEF Inv, Tick, Placed
<1> QED
  BY <1>4, <1>5, <1>6, <1>7 DEF Inv

(* A receiver that starts to track a component holds its handle as well.    *)
LEMMA TracksInv == ASSUME Inv, NEW c \in Cids, Tracks(c) PROVE Inv'
<1>1. c \notin tracked /\ tracked' = tracked \cup {c}
  BY DEF Tracks
<1>2. UNCHANGED <<detector, sources, told, recreated>>
  BY DEF Tracks
<1>3. PICK handle \in HandlesFor(c) : remote' = WithRemote(c, handle)
  BY DEF Tracks
<1>4. /\ RemoteTyped' /\ OneEach'
      /\ IsRemote(c)' /\ HandleOf(c)' = handle /\ handle \in HandleNumbers
      /\ remote'[c].refcount = (IF IsRemote(c) THEN remote[c].refcount ELSE 0) + 1
      /\ \A d \in Cids \ {c} :
            /\ IsRemote(d)' <=> IsRemote(d)
            /\ IsRemote(d) => remote'[d] = remote[d] /\ HandleOf(d) # handle
  <2>1. Handles
    BY DEF Inv
  <2> QED
    BY <1>3, <2>1, TakenIs
<1>5. IsRemote(c) => HandleOf(c) = handle
  BY <1>3 DEF HandlesFor
<1>6. SourceHandles'
  <2>1. \A d \in Cids : IsRemote(d) => d \in DOMAIN remote' /\ remote'[d].handle = HandleOf(d)
    BY <1>4, <1>5 DEF IsRemote, HandleOf
  <2>2. \A h \in DOMAIN sources : /\ sources[h].cid \in Cids /\ IsRemote(sources[h].cid)
                                  /\ HandleOf(sources[h].cid) = h
    BY DEF Inv, SourcesTyped, Source, Handles, SourceHandles
  <2> QED
    BY <1>2, <2>1, <2>2 DEF SourceHandles, IsRemote, HandleOf
<1>7. Counted'
  <2>1. \A d \in Cids \ {c} : IsFound(d)' <=> IsFound(d)
    BY <1>2, <1>4 DEF IsFound, HandleOf
  <2>2. IsFound(c)' <=> IsFound(c)
    <3>1. CASE IsRemote(c)
      BY <1>2, <1>4, <1>5, <3>1 DEF IsFound
    <3>2. CASE ~IsRemote(c)
      <4>1. handle \notin Used
        BY <1>3, <3>2 DEF HandlesFor
      <4>2. \A h \in DOMAIN sources : h \in Used
        BY DEF Inv, Handles, SourceHandles, IsRemote, Used
      <4> QED
        BY <1>2, <1>4, <3>2, <4>1, <4>2 DEF IsFound
    <3> QED
      BY <3>1, <3>2
  <2>3. \A d \in Cids \ {c} : Holders(d)' = Holders(d)
    BY <1>1, <2>1 DEF Holders
  <2>4. Holders(c)' = Holders(c) + 1
    BY <1>1, <2>2 DEF Holders
  <2>5. Holders(c) = IF IsRemote(c) THEN remote[c].refcount ELSE 0
    BY DEF Inv, Handles, Counted
  <2>6. ASSUME NEW d \in Cids
        PROVE  IF IsRemote(d)' THEN remote'[d].refcount = Holders(d)' ELSE Holders(d)' = 0
    <3>1. CASE d = c
      BY <1>4, <2>4, <2>5, <3>1
    <3>2. CASE d # c
      BY <1>4, <2>3, <3>2 DEF Inv, Handles, Counted
    <3> QED
      BY <3>1, <3>2
  <2> QED
    BY <2>6 DEF Counted
<1>8. SourcesTyped'
  BY <1>2 DEF Inv, SourcesTyped
<1>9. ToldTyped'
  BY <1>1, <1>2 DEF Inv, ToldTyped
<1>10. Placed'
  BY <1>2 DEF Inv, Placed
<1> QED
  BY <1>4, <1>6, <1>7, <1>8, <1>9, <1>10 DEF Inv, Handles

(* A receiver that removes a source gives its component's handle back.      *)
LEMMA UntracksInv == ASSUME Inv, NEW c \in Cids, Untracks(c) PROVE Inv'
<1>1. c \in tracked /\ tracked' = tracked \ {c}
  BY DEF Untracks
<1>2. UNCHANGED <<detector, sources, told, recreated>>
  BY DEF Untracks
<1>3. /\ RemoteTyped' /\ OneEach'
      /\ \A d \in Cids :
            /\ IsRemote(d)' <=> IsRemote(d) /\ (d \notin {c} \/ remote[d].refcount > 1)
            /\ IsRemote(d)' => HandleOf(d)' = HandleOf(d)
            /\ IsRemote(d)' =>
                  remote'[d].refcount = remote[d].refcount - (IF d \in {c} THEN 1 ELSE 0)
  <2>1. Handles /\ remote' = remove_remote_source_handles(remote, {c})
    BY DEF Inv, Untracks
  <2> QED
    BY <2>1, GivenBackIs
<1>4. \A d \in Cids : IF IsRemote(d) THEN remote[d].refcount = Holders(d) ELSE Holders(d) = 0
  BY DEF Inv, Handles, Counted
<1>5. \A d \in Cids : IsRemote(d) /\ ~IsRemote(d)' => ~IsFound(d)
  BY <1>1, <1>3, <1>4 DEF Holders
<1>6. SourceHandles'
  <2>1. \A h \in DOMAIN sources : /\ sources[h].cid \in Cids /\ IsRemote(sources[h].cid)
                                  /\ HandleOf(sources[h].cid) = h
    BY DEF Inv, SourcesTyped, Source, Handles, SourceHandles
  <2>2. \A h \in DOMAIN sources : IsFound(sources[h].cid)
    BY <2>1 DEF IsFound
  <2>3. \A d \in Cids : IsFound(d) => d \in DOMAIN remote' /\ remote'[d].handle = HandleOf(d)
    BY <1>3, <1>5 DEF IsRemote, HandleOf, IsFound
  <2> QED
    BY <1>2, <2>1, <2>2, <2>3 DEF SourceHandles, IsRemote, HandleOf
<1>7. Counted'
  <2>1. \A d \in Cids : IsFound(d)' <=> IsFound(d)
    BY <1>2, <1>3, <1>5 DEF IsFound
  <2>2. \A d \in Cids : Holders(d)' = Holders(d) - (IF d \in {c} THEN 1 ELSE 0)
    BY <1>1, <2>1 DEF Holders
  <2>3. ASSUME NEW d \in Cids
        PROVE  IF IsRemote(d)' THEN remote'[d].refcount = Holders(d)' ELSE Holders(d)' = 0
    <3>1. Holders(d)' = Holders(d) - (IF d \in {c} THEN 1 ELSE 0)
      BY <2>2
    <3>2. CASE IsRemote(d)'
      BY <1>3, <1>4, <3>1, <3>2
    <3>3. CASE ~IsRemote(d)'
      <4>1. ~IsFound(d)
        BY <1>3, <1>5, <3>3 DEF IsFound
      <4>2. d \in tracked => d = c
        BY <1>3, <1>4, <3>3 DEF Holders
      <4> QED
        BY <1>1, <2>1, <3>3, <4>1, <4>2 DEF Holders
    <3> QED
      BY <3>2, <3>3
  <2> QED
    BY <2>3 DEF Counted
<1>8. SourcesTyped'
  BY <1>2 DEF Inv, SourcesTyped
<1>9. ToldTyped'
  BY <1>1, <1>2 DEF Inv, ToldTyped
<1>10. Placed'
  BY <1>2 DEF Inv, Placed
<1> QED
  BY <1>3, <1>6, <1>7, <1>8, <1>9, <1>10 DEF Inv, Handles

(* The periodic pass gives back the handle of every source it removes, once.*)
LEMMA ProcessInv == ASSUME Inv, Process PROVE Inv'
<1> DEFINE expired == {h \in DOMAIN sources : sources[h].expiration_timer = 0}
           gone == {sources[h].cid : h \in expired}
<1>1. /\ DOMAIN sources' = DOMAIN sources \ expired
      /\ \A h \in DOMAIN sources' : sources'[h] = sources[h]
      /\ sources' = [h \in DOMAIN sources' |-> sources'[h]]
  BY DEF Process, Restrict
<1>2. remote' = remove_remote_source_handles(remote, gone)
  BY DEF Process
<1>3. UNCHANGED <<tracked, recreated>> /\ detector.created
  BY DEF Process
<1>4. told' = [d \in Cids |-> IF d \in gone THEN Untold ELSE told[d]]
  BY DEF Process
<1>5. \A h \in DOMAIN sources : /\ sources[h].cid \in Cids /\ IsRemote(sources[h].cid)
                                /\ HandleOf(sources[h].cid) = h
  BY DEF Inv, SourcesTyped, Source, Handles, SourceHandles
<1>6. \A d \in Cids : d \in gone <=> IsFound(d) /\ HandleOf(d) \in expired
  <2>1. \A d \in gone : IsFound(d) /\ HandleOf(d) \in expired
    BY <1>5 DEF IsFound
  <2>2. ASSUME NEW d \in Cids, IsFound(d), HandleOf(d) \in expired PROVE d \in gone
    <3>1. Handles
      BY DEF Inv
    <3>2. sources[HandleOf(d)].cid = d
      BY <2>2, <3>1, FoundIs
    <3> QED
      BY <2>2, <3>2
  <2> QED
    BY <2>1, <2>2
<1>7. \A h \in DOMAIN sources : sources[h].cid \in gone => h \in expired
  BY <1>5, <1>6
<1>8. expired \subseteq DOMAIN sources
  OBVIOUS
<1>9. /\ detector'.universes_per_source_max = detector.universes_per_source_max
      /\ detector'.created = detector.created
  <2>1. detector' = [detector EXCEPT !.suppress_source_limit_exceeded_notification = FALSE]
    BY DEF Process
  <2> QED
    BY <2>1
<1> HIDE DEF expired, gone
<1>10. /\ RemoteTyped' /\ OneEach'
       /\ \A d \in Cids :
             /\ IsRemote(d)' <=> IsRemote(d) /\ (d \notin gone \/ remote[d].refcount > 1)
             /\ IsRemote(d)' => HandleOf(d)' = HandleOf(d)
             /\ IsRemote(d)' =>
                   remote'[d].refcount = remote[d].refcount - (IF d \in gone THEN 1 ELSE 0)
  <2>1. Handles
    BY DEF Inv
  <2> QED
    BY <1>2, <2>1, GivenBackIs
<1>11. SourceHandles'
  <2> SUFFICES ASSUME NEW h \in DOMAIN sources', NEW d, d = sources'[h].cid
               PROVE  d \in DOMAIN remote' /\ remote'[d].handle = h
    BY DEF SourceHandles, IsRemote, HandleOf
  <2>1. h \in DOMAIN sources /\ h \notin expired /\ d = sources[h].cid
    BY <1>1
  <2>2. d \in Cids /\ IsRemote(d) /\ HandleOf(d) = h /\ d \notin gone
    BY <1>5, <1>7, <2>1
  <2> QED
    BY <1>10, <2>2 DEF IsRemote, HandleOf
<1>12. \A d \in Cids : IsFound(d)' <=> IsFound(d) /\ d \notin gone
  <2> TAKE d \in Cids
  <2>1. CASE d \in gone
    <3>1. HandleOf(d) \in expired /\ (IsRemote(d)' => HandleOf(d)' = HandleOf(d))
      BY <1>6, <1>10, <2>1
    <3> QED
      BY <1>1, <2>1, <3>1 DEF IsFound
  <2>2. CASE d \notin gone
    <3>1. IsRemote(d)' <=> IsRemote(d)
      BY <1>10, <2>2
    <3>2. IsRemote(d)' => HandleOf(d)' = HandleOf(d)
      BY <1>10
    <3>3. IsFound(d) => HandleOf(d) \notin expired
      BY <1>6, <2>2
    <3> QED
      BY <1>1, <2>2, <3>1, <3>2, <3>3 DEF IsFound
  <2> QED
    BY <2>1, <2>2
<1>13. Counted'
  <2> SUFFICES ASSUME NEW d \in Cids
               PROVE  IF IsRemote(d)' THEN remote'[d].refcount = Holders(d)' ELSE Holders(d)' = 0
    BY DEF Counted
  <2>1. IF IsRemote(d) THEN remote[d].refcount = Holders(d) ELSE Holders(d) = 0
    BY DEF Inv, Handles, Counted
  <2>2. Holders(d)' = Holders(d) - (IF d \in gone THEN 1 ELSE 0)
    BY <1>3, <1>6, <1>12 DEF Holders
  <2>3. Holders(d) \in Nat
    BY DEF Holders
  <2>4. d \in gone => Holders(d) >= 1
    BY <1>6 DEF Holders
  <2>5. /\ IsRemote(d)' <=> IsRemote(d) /\ (d \notin gone \/ remote[d].refcount > 1)
        /\ IsRemote(d)' =>
              remote'[d].refcount = remote[d].refcount - (IF d \in gone THEN 1 ELSE 0)
    BY <1>10
  <2> QED
    BY <2>1, <2>2, <2>3, <2>4, <2>5
<1>14. SourcesTyped'
  BY <1>1 DEF Inv, SourcesTyped
<1>15. ToldTyped'
  BY <1>3, <1>4, <1>9 DEF Inv, ToldTyped
<1>16. Placed'
  BY <1>1, <1>3, <1>9 DEF Inv, Placed
<1> QED
  BY <1>10, <1>11, <1>13, <1>14, <1>15, <1>16 DEF Inv, Handles

-----------------------------------------------------------------------------

(* There are no sources and no handles at first.                            *)
LEMMA InitInv == Init => Inv
<1> SUFFICES ASSUME Init PROVE Inv
  OBVIOUS
<1>1. DOMAIN sources = {} /\ DOMAIN remote = {} /\ tracked = {}
  BY DEF Init
<1>2. SourcesTyped
  BY <1>1 DEF Init, SourcesTyped
<1>3. ToldTyped
  BY <1>1 DEF Init, ToldTyped, NothingTold, NoDetector
<1>4. RemoteTyped
  BY <1>1 DEF Init, RemoteTyped
<1>5. OneEach /\ SourceHandles /\ Counted
  BY <1>1 DEF OneEach, SourceHandles, Counted, Holders, IsFound, IsRemote
<1>6. Placed
  BY <1>1 DEF Placed
<1> QED
  BY <1>2, <1>3, <1>4, <1>5, <1>6 DEF Inv, Handles

(* Every step preserves the invariant.                                      *)
LEMMA NextInv == Inv /\ [Next]_vars => Inv'
<1> SUFFICES ASSUME Inv, [Next]_vars PROVE Inv'
  OBVIOUS
<1>1. CASE Create
  BY <1>1, CreateInv
<1>2. CASE Destroy
  BY <1>2, DestroyInv
<1>3. CASE Process
  BY <1>3, ProcessInv
<1>4. CASE Tick
  BY <1>4, TickInv
<1>5. ASSUME NEW c \in Cids, NEW list \in Lists, NEW i \in DOMAIN list,
             PageOfSource(c, list, i) \/ PageOfNew(c, list, i)
      PROVE  Inv'
  BY <1>5, PageOfSourceInv, PageOfNewInv
<1>6. ASSUME NEW c \in Cids, PageOfTooMany(c) PROVE Inv'
  BY <1>6, PageOfTooManyInv
<1>7. ASSUME NEW c \in Cids, Tracks(c) \/ Untracks(c) PROVE Inv'
  BY <1>7, TracksInv, UntracksInv
<1>8. CASE UNCHANGED vars
  <2>1. UNCHANGED <<detector, sources, remote, tracked, told, recreated>>
    BY <1>8 DEF vars
  <2>2. SourcesTyped' /\ ToldTyped' /\ Placed'
    BY <2>1 DEF Inv, SourcesTyped, ToldTyped, Placed
  <2>3. Handles'
    BY <2>1, HandlesKept DEF Inv
  <2> QED
    BY <2>2, <2>3 DEF Inv
<1> QED
  BY <1>1, <1>2, <1>3, <1>4, <1>5, <1>6, <1>7, <1>8 DEF Next

(* The invariant holds in every state.                                      *)
LEMMA SpecInv == Spec => []Inv
<1> QED
  BY InitInv, NextInv, PTL DEF Spec

(* The handles of components are those of the detector and of the receivers *)
(* together, each counted for whoever holds it, through detectors that are  *)
(* destroyed with sources and made again.                                   *)
THEOREM ConsistentCorrect == Spec => []Consistent
<1>1. Inv => Consistent
  <2> SUFFICES ASSUME Inv PROVE Consistent
    OBVIOUS
  <2>1. TypeOK
    BY DEF Inv, SourcesTyped, ToldTyped, Handles, RemoteTyped, TypeOK
  <2>2. HandlesExact
    BY DEF Inv, Handles, SourceHandles, Counted, Holders, HandlesExact
  <2> QED
    BY <2>1, <2>2 DEF Consistent
<1> QED
  BY <1>1, SpecInv, PTL

(* Without a limit, a page is never compared beyond the list it continues,  *)
(* unless there was a detector with a limit before.                         *)
THEOREM IndexCorrect == Spec => []IndexInList
<1>1. Inv => IndexInList
  BY DEF Inv, Placed, PlacedIn, IndexInList
<1> QED
  BY <1>1, SpecInv, PTL

-----------------------------------------------------------------------------
(* The universes of a list's first pages.                                   *)

(* How FlattenSeq puts pages one after the other.                           *)
Line(list, n, f) == [i \in 1 .. n |-> IF i = 1 THEN list[i] ELSE f[i - 1] \o list[i]]
Lined(list, n, f) == f = Line(list, n, f)

(* The universes of the first i pages.                                      *)
First(list, i) == IF i = 0 THEN <<>> ELSE (CHOOSE f : Lined(list, Len(list), f))[i]

(* Numbers have a smallest.                                                 *)
LEMMA SmallestIs ==
    ASSUME NEW S \in SUBSET Nat, S # {}
    PROVE  \E x \in S : \A y \in S : x <= y
<1> DEFINE R == OpToRel(<, Nat)
<1>1. \A x, y \in Nat : <<y, x>> \in R <=> y < x
  BY DEF OpToRel
<1>2. PICK x \in S : \A y \in S : ~(<<y, x>> \in R)
  <2>1. IsWellFoundedOn(R, Nat)
    BY NatLessThanWellFounded
  <2> HIDE DEF R
  <2> QED
    BY <2>1, WFMin
<1> HIDE DEF R
<1>3. \A y \in S : x <= y
  <2> TAKE y \in S
  <2>1. x \in Nat /\ y \in Nat
    OBVIOUS
  <2>2. ~(y < x)
    BY <1>1, <1>2, <2>1
  <2> QED
    BY <2>1, <2>2
<1> QED
  BY <1>3

(* The pages can be put one after the other.                                *)
LEMMA LinedExists ==
    ASSUME NEW list \in Seq(Seq(Nat)), Len(list) > 0
    PROVE  \E f : Lined(list, Len(list), f)
<1> DEFINE Without == {n \in 1 .. Len(list) : ~\E f : Lined(list, n, f)}
<1> SUFFICES ASSUME Without # {} PROVE FALSE
  <2>1. Len(list) \in 1 .. Len(list)
    OBVIOUS
  <2> QED
    BY <2>1
<1>2. PICK n \in Without : \A m \in Without : n <= m
  <2>1. Without \in SUBSET Nat
    OBVIOUS
  <2> HIDE DEF Without
  <2> QED
    BY <2>1, SmallestIs
<1>3. n \in 1 .. Len(list) /\ ~\E f : Lined(list, n, f)
  OBVIOUS
<1>4. CASE n = 1
  <2> DEFINE f == [i \in 1 .. 1 |-> list[i]]
  <2>1. f = Line(list, 1, f)
    BY DEF Line
  <2> HIDE DEF f
  <2> QED
    BY <1>3, <1>4, <2>1 DEF Lined
<1>5. CASE n > 1
  <2>1. n - 1 \in 1 .. Len(list) /\ n - 1 < n
    BY <1>3, <1>5
  <2>2. n - 1 \notin Without
    <3> HIDE DEF Without
    <3>1. n - 1 \in Without => n <= n - 1
      BY <1>2, Zenon
    <3> QED
      BY <1>3, <3>1
  <2>3. PICK f : Lined(list, n - 1, f)
    BY <2>1, <2>2
  <2> DEFINE g == [i \in 1 .. n |-> IF i = 1 THEN list[i] ELSE f[i - 1] \o list[i]]
  <2>4. \A i \in 1 .. n - 1 : f[i] = IF i = 1 THEN list[i] ELSE f[i - 1] \o list[i]
    BY <2>3, <2>1 DEF Lined, Line
  <2>5. \A i \in 1 .. n - 1 : g[i] = f[i]
    BY <1>3, <2>4
  <2>6. \A i \in 1 .. n : g[i] = IF i = 1 THEN list[i] ELSE g[i - 1] \o list[i]
    <3> TAKE i \in 1 .. n
    <3>1. i # 1 => i - 1 \in 1 .. n - 1
      BY <1>3
    <3> QED
      BY <2>5, <3>1
  <2>7. g = Line(list, n, g)
    BY <2>6 DEF Line
  <2> HIDE DEF g
  <2> QED
    BY <1>3, <2>7 DEF Lined
<1> QED
  BY <1>3, <1>4, <1>5

(* The pages of a list, one more at a time, up to the whole list.           *)
LEMMA FirstIs ==
    ASSUME NEW list \in Lists
    PROVE  /\ First(list, 0) = <<>>
           /\ \A i \in DOMAIN list : First(list, i) = First(list, i - 1) \o list[i]
           /\ FlattenSeq(list) = First(list, Len(list))
<1> DEFINE f == CHOOSE f : Lined(list, Len(list), f)
<1>1. /\ list \in Seq(Seq(Nat)) /\ Len(list) \in Nat /\ Len(list) > 0
      /\ DOMAIN list = 1 .. Len(list)
  OBVIOUS
<1>2. Lined(list, Len(list), f)
  BY <1>1, LinedExists
<1>3. FlattenSeq(list) = f[Len(list)]
  BY <1>1 DEF FlattenSeq, Lined, Line
<1>4. \A i \in 1 .. Len(list) : First(list, i) = f[i]
  BY DEF First
<1>5. First(list, 0) = <<>>
  BY DEF First
<1> HIDE DEF f
<1>6. ASSUME NEW i \in DOMAIN list PROVE First(list, i) = First(list, i - 1) \o list[i]
  <2>1. f[i] = IF i = 1 THEN list[i] ELSE f[i - 1] \o list[i]
    BY <1>1, <1>2 DEF Lined, Line
  <2>2. CASE i = 1
    <3>1. list[1] \in Seq(Nat)
      BY <1>1
    <3>2. <<>> \o list[1] = list[1]
      BY <3>1
    <3> QED
      BY <1>1, <1>4, <1>5, <2>1, <2>2, <3>2
  <2>3. CASE i # 1
    <3>1. i - 1 \in 1 .. Len(list)
      BY <1>1, <2>3
    <3> QED
      BY <1>1, <1>4, <2>1, <2>3, <3>1
  <2> QED
    BY <2>2, <2>3
<1> QED
  BY <1>1, <1>3, <1>4, <1>5, <1>6

(* The first pages hold as many universes as they can, at most.             *)
LEMMA FirstType ==
    ASSUME NEW list \in Lists
    PROVE  \A i \in 0 .. Len(list) :
              First(list, i) \in Seq(Nat) /\ Len(First(list, i)) <= i * MaxInPage
<1> DEFINE Not == {i \in 0 .. Len(list) :
                     ~(First(list, i) \in Seq(Nat) /\ Len(First(list, i)) <= i * MaxInPage)}
<1>1. SUFFICES ASSUME Not # {} PROVE FALSE
  OBVIOUS
<1>2. PICK n \in Not : \A m \in Not : n <= m
  <2>1. Not \in SUBSET Nat
    OBVIOUS
  <2> HIDE DEF Not
  <2> QED
    BY <1>1, <2>1, SmallestIs
<1>3. n # 0
  <2>1. <<>> \in Seq(Nat) /\ Len(<<>>) = 0
    OBVIOUS
  <2>2. First(list, 0) = <<>>
    BY FirstIs
  <2>3. Len(First(list, 0)) <= 0 * MaxInPage
    BY <2>1, <2>2 DEF MaxInPage
  <2>4. 0 \notin Not
    BY <2>1, <2>2, <2>3, Zenon
  <2> QED
    BY <2>4
<1>4. /\ n \in DOMAIN list /\ n - 1 \in 0 .. Len(list) /\ n - 1 < n
      /\ list[n] \in Seq(Nat) /\ Len(list[n]) \in Nat /\ Len(list[n]) <= MaxInPage
  BY <1>3
<1>5. n - 1 \notin Not
  BY <1>2, <1>4
<1>6. First(list, n - 1) \in Seq(Nat) /\ Len(First(list, n - 1)) <= (n - 1) * MaxInPage
  BY <1>4, <1>5
<1>7. First(list, n) = First(list, n - 1) \o list[n]
  BY <1>4, FirstIs
<1>8. /\ First(list, n) \in Seq(Nat)
      /\ Len(First(list, n)) = Len(First(list, n - 1)) + Len(list[n])
  BY <1>4, <1>6, <1>7
<1>9. Len(First(list, n)) <= n * MaxInPage
  BY <1>4, <1>6, <1>8 DEF MaxInPage
<1> QED
  BY <1>8, <1>9

-----------------------------------------------------------------------------
(* How a source follows a list.                                             *)

(* The source has these universes first, as many as fit the limit.          *)
Starts(universes, first, limit) ==
    \A j \in 1 .. Len(first) :
        limit = 0 \/ j <= limit => j <= Len(universes) /\ universes[j] = first[j]

(* It has them and no others.                                               *)
IsUpTo(universes, first, limit) ==
    /\ Starts(universes, first, limit)
    /\ Len(universes) = IF limit = 0 \/ Len(first) <= limit THEN Len(first) ELSE limit

(* No more than the limit, and than the pages before the next can have.     *)
Bounded(source, limit) ==
    /\ limit # 0 => Len(source.universes) <= limit
    /\ source.next_page < MaxPages
    /\ source.next_universe_index <= source.next_page * MaxInPage
    /\ Len(source.universes) <= MaxPages * MaxInPage

(* A list that is not to be told, and could be, was told.                   *)
Current(source, list) ==
    ~source.universes_dirty /\ IsAscending(source.universes) => list = source.universes

(* It had the first i pages in order, and goes on after them.               *)
Follows(source, list, i, limit) ==
    /\ source.next_page = i
    /\ source.next_universe_index = Len(First(list, i))
    /\ Starts(source.universes, First(list, i), limit)

(* A source whose next page comes at a place inside what it can hold.       *)
InSize(source) ==
    /\ source.next_universe_index <= (MaxPages - 1) * MaxInPage
    /\ Len(source.universes) <= MaxPages * MaxInPage

(* Universes are numbers, and so is what memory may hold.                   *)
LEMMA NumbersAre == Numbers \subseteq Nat /\ Seq(Numbers) \subseteq Seq(Nat)
<1>1. \A list \in Lists : \A i \in DOMAIN list : Range(list[i]) \subseteq Nat
  <2> TAKE list \in Lists
  <2>1. list \in Seq(Seq(Nat))
    OBVIOUS
  <2> TAKE i \in DOMAIN list
  <2>2. list[i] \in Seq(Nat)
    BY <2>1
  <2> QED
    BY <2>2 DEF Range
<1>2. Numbers \subseteq Nat
  <2> DEFINE Ranges(l) == {Range(l[j]) : j \in DOMAIN l}
             All == {UNION Ranges(l) : l \in Lists}
  <2>1. \A l \in Lists : \A s \in Ranges(l) : s \subseteq Nat
    BY <1>1
  <2>2. Universes = UNION All
    BY DEF Universes
  <2>3. \A s \in All : s \subseteq Nat
    <3> HIDE DEF Ranges
    <3> QED
      BY <2>1
  <2> HIDE DEF All
  <2> QED
    BY <2>2, <2>3 DEF Numbers
<1>3. \A s \in Seq(Numbers) : s \in Seq(Nat)
  <2> TAKE s \in Seq(Numbers)
  <2>1. /\ Len(s) \in Nat /\ s = [i \in 1 .. Len(s) |-> s[i]]
        /\ \A i \in 1 .. Len(s) : s[i] \in Numbers
    OBVIOUS
  <2>2. \A i \in 1 .. Len(s) : s[i] \in Nat
    BY <1>2, <2>1
  <2> QED
    BY <2>1, <2>2
<1> QED
  BY <1>2, <1>3

(* A difference of sizes that fits, and one that wraps around.              *)
LEMMA DifferenceIs ==
    ASSUME NEW a \in Nat, NEW b \in Nat, b <= MaxPages * MaxInPage
    PROVE  /\ b <= a /\ a <= MaxPages * MaxInPage => SizeMinus(a, b) = a - b
           /\ b > a => SizeMinus(a, b) > MaxInPage
           /\ \A count \in Nat : b <= a /\ b + count > a /\ count <= MaxInPage =>
                 SizeMinus(a, b) = a - b
<1>1. MaxPages * MaxInPage = 523008 /\ MaxInPage = 2043
  BY DEF MaxPages, MaxInPage
<1>2. SizeMinus(a, b) = (a - b) % 1073741824
  BY DEF SizeMinus
<1>3. b <= a /\ a <= 523008 => SizeMinus(a, b) = a - b
  BY <1>2
<1>4. b > a => SizeMinus(a, b) > 2043
  BY <1>1, <1>2
<1>5. ASSUME NEW count \in Nat, b <= a, b + count > a, count <= 2043
      PROVE  SizeMinus(a, b) = a - b
  BY <1>2, <1>5
<1> QED
  BY <1>1, <1>3, <1>4, <1>5

(* What a source becomes when so many of a page are put in.                 *)
IsReplaced(new, source, page, count) ==
    LET from == source.next_universe_index IN
    /\ new.next_page = source.next_page /\ new.next_universe_index = from
    /\ new.universes_dirty = source.universes_dirty
    /\ Len(new.universes) = from + count
    /\ \A j \in 1 .. from :
          j <= Len(source.universes) => new.universes[j] = source.universes[j]
    /\ \A j \in 1 .. count : new.universes[from + j] = page.universes[j]

(* What there was of the pages before, there is of them and this page.      *)
FitsOn(new, source, page, limit) ==
    \A first \in Seq(Nat) :
        Len(first) = source.next_universe_index /\ Starts(source.universes, first, limit) =>
            IsUpTo(new.universes, first \o page.universes, limit)

(* A page that is put in stands where it belongs, after what was there.     *)
LEMMA ReplacedGives ==
    ASSUME NEW source \in Source, NEW page, IsPage(page), NEW count \in Nat,
           count <= Len(page.universes), NEW gap \in Garbage
    PROVE  IsReplaced(Replaced(source, page, count, gap), source, page, count)
<1> DEFINE from == source.next_universe_index
           list == [i \in 1 .. from + count |->
                       IF i > from THEN page.universes[i - from]
                       ELSE IF i <= Len(source.universes) THEN source.universes[i] ELSE gap]
           new == Replaced(source, page, count, gap)
<1>1. from \in Nat
  BY DEF Source
<1>2. new = [source EXCEPT !.universes = list]
  BY DEF Replaced
<1>3. Len(new.universes) = from + count
  BY ReplacedIs
<1>4. \A j \in 1 .. from : j \in 1 .. from + count /\ ~(j > from)
  BY <1>1
<1>5. \A j \in 1 .. from : j <= Len(source.universes) => list[j] = source.universes[j]
  BY <1>4
<1>6. \A j \in 1 .. count : list[from + j] = page.universes[j]
  <2> TAKE j \in 1 .. count
  <2> DEFINE at == from + j
  <2>1. at \in 1 .. from + count /\ at > from /\ at - from = j
    BY <1>1
  <2> HIDE DEF at
  <2>2. list[at] = page.universes[at - from]
    BY <2>1
  <2> QED
    BY <2>1, <2>2 DEF at
<1> HIDE DEF list, new
<1>7. /\ new.universes = list /\ new.next_page = source.next_page
      /\ new.next_universe_index = from /\ new.universes_dirty = source.universes_dirty
  BY <1>2 DEF Source
<1> QED
  BY <1>3, <1>5, <1>6, <1>7 DEF new, IsReplaced

(* A page put in after what there is of the pages before gives what there   *)
(* is of them all.                                                          *)
LEMMA PutIn ==
    ASSUME NEW u \in Seq(Nat), NEW v \in Seq(Nat), NEW first \in Seq(Nat), NEW p \in Seq(Nat),
           NEW limit \in Nat, NEW k \in Nat, k <= Len(p), Starts(u, first, limit),
           Len(v) = Len(first) + k,
           \A j \in 1 .. Len(first) : j <= Len(u) => v[j] = u[j],
           \A j \in 1 .. k : v[Len(first) + j] = p[j],
           limit = 0 \/ Len(first) + k <= limit,
           k = Len(p) \/ (limit = Len(first) + k /\ limit # 0)
    PROVE  IsUpTo(v, first \o p, limit)
<1> DEFINE both == first \o p
           from == Len(first)
<1>1. /\ both \in Seq(Nat) /\ Len(both) = from + Len(p)
      /\ from \in Nat /\ Len(p) \in Nat /\ Len(u) \in Nat
      /\ \A j \in 1 .. from : both[j] = first[j]
      /\ \A j \in from + 1 .. from + Len(p) : both[j] = p[j - from]
  OBVIOUS
<1> HIDE DEF both
<1>2. Len(v) = IF limit = 0 \/ Len(both) <= limit THEN Len(both) ELSE limit
  <2>1. CASE k = Len(p)
    BY <1>1, <2>1
  <2>2. CASE k # Len(p)
    BY <1>1, <2>2
  <2> QED
    BY <2>1, <2>2
<1>3. ASSUME NEW j \in 1 .. Len(both), limit = 0 \/ j <= limit
      PROVE  j <= Len(v) /\ v[j] = both[j]
  <2>1. j <= Len(v)
    BY <1>1, <1>2, <1>3
  <2>2. CASE j <= from
    <3>1. j \in 1 .. from /\ (limit = 0 \/ j <= limit)
      BY <1>1, <1>3, <2>2
    <3>2. j <= Len(u) /\ u[j] = first[j]
      BY <3>1 DEF Starts
    <3>3. v[j] = u[j]
      BY <3>1, <3>2
    <3> QED
      BY <1>1, <2>1, <3>1, <3>2, <3>3
  <2>3. CASE j > from
    <3> DEFINE i == j - from
    <3>1. i \in 1 .. k /\ from + i = j /\ j \in from + 1 .. from + Len(p)
      BY <1>1, <2>1, <2>3
    <3>2. v[from + i] = p[i] /\ both[j] = p[i]
      BY <1>1, <3>1
    <3> QED
      BY <2>1, <3>1, <3>2
  <2> QED
    BY <1>1, <2>2, <2>3
<1> QED
  BY <1>2, <1>3 DEF IsUpTo, Starts, both

(* What is put in of a page, and how it fits the pages before.              *)
LEMMA ModifiedGives ==
    ASSUME NEW source \in Source, InSize(source), NEW page, IsPage(page),
           Len(page.universes) <= MaxInPage, NEW limit \in Nat, NEW gap \in Garbage,
           limit # 0 => Len(source.universes) <= limit
    PROVE  LET new == Modified(source, page, limit, gap) IN
           /\ new.universes_dirty /\ new.next_page = source.next_page
           /\ new.next_universe_index = source.next_universe_index
           /\ limit # 0 => Len(new.universes) <= limit
           /\ Len(new.universes) <= MaxPages * MaxInPage
           /\ FitsOn(new, source, page, limit)
<1> DEFINE from == source.next_universe_index
           fits == Fitting(source, page, limit)
           count == Len(page.universes)
           dirty == [source EXCEPT !.universes_dirty = TRUE]
           full == [dirty EXCEPT !.suppress_universe_limit_exceeded_notification = TRUE]
           new == Modified(source, page, limit, gap)
<1>1. /\ count \in Nat /\ from \in Nat /\ Len(source.universes) \in Nat
      /\ source.universes \in Seq(Nat) /\ page.universes \in Seq(Nat)
  BY NumbersAre DEF IsPage, Source
<1>2. new = CASE fits > count -> dirty
              [] fits = count -> Replaced(dirty, page, count, gap)
              [] fits < count /\ fits > 0 -> Replaced(full, page, fits, gap)
              [] fits < count /\ fits = 0 -> full
  BY DEF Modified
<1>3. /\ dirty \in Source /\ dirty.universes_dirty /\ dirty.next_page = source.next_page
      /\ dirty.next_universe_index = from /\ dirty.universes = source.universes
  BY DEF Source
<1>4. /\ full \in Source /\ full.universes_dirty /\ full.next_page = source.next_page
      /\ full.next_universe_index = from /\ full.universes = source.universes
  BY DEF Source
<1>5. /\ from <= (MaxPages - 1) * MaxInPage /\ from <= MaxPages * MaxInPage
      /\ from + count <= MaxPages * MaxInPage
  BY <1>1 DEF InSize, MaxPages, MaxInPage
<1>6. fits = IF limit # 0 /\ from + count > limit THEN SizeMinus(limit, from) ELSE count
  BY DEF Fitting
<1> HIDE DEF dirty, full, fits, new
<1>7. ASSUME NEW base, NEW k \in Nat, base = dirty \/ base = full, k <= count,
             limit = 0 \/ from + k <= limit, k = count \/ (limit = from + k /\ limit # 0),
             new = Replaced(base, page, k, gap)
      PROVE  /\ new.universes_dirty /\ new.next_page = source.next_page
             /\ new.next_universe_index = from /\ Len(new.universes) = from + k
             /\ FitsOn(new, source, page, limit)
  <2>1. /\ base \in Source /\ base.universes_dirty /\ base.next_page = source.next_page
        /\ base.next_universe_index = from /\ base.universes = source.universes
    BY <1>3, <1>4, <1>7
  <2>2. IsReplaced(new, base, page, k)
    BY <1>7, <2>1, ReplacedGives
  <2>3. new.universes \in Seq(Nat)
    <3>1. new \in Source
      BY <1>7, <2>1, ReplacedIs
    <3> QED
      BY <3>1, NumbersAre DEF Source
  <2>4. ASSUME NEW first \in Seq(Nat), Len(first) = from, Starts(source.universes, first, limit)
        PROVE  IsUpTo(new.universes, first \o page.universes, limit)
    <3>1. Len(new.universes) = Len(first) + k
      BY <2>1, <2>2, <2>4 DEF IsReplaced
    <3>2. \A j \in 1 .. Len(first) :
             j <= Len(source.universes) => new.universes[j] = source.universes[j]
      BY <2>1, <2>2, <2>4 DEF IsReplaced
    <3>3. \A j \in 1 .. k : new.universes[Len(first) + j] = page.universes[j]
      BY <2>1, <2>2, <2>4 DEF IsReplaced
    <3>4. k <= Len(page.universes) /\ (limit = 0 \/ Len(first) + k <= limit)
          /\ (k = Len(page.universes) \/ (limit = Len(first) + k /\ limit # 0))
      BY <1>7, <2>4
    <3> QED
      BY <1>1, <2>3, <2>4, <3>1, <3>2, <3>3, <3>4, PutIn
  <2> QED
    BY <2>1, <2>2, <2>4 DEF FitsOn, IsReplaced
<1>8. CASE limit = 0 \/ from + count <= limit
  <2>1. fits = count
    BY <1>1, <1>6, <1>8
  <2>2. new = Replaced(dirty, page, count, gap)
    BY <1>1, <1>2, <2>1
  <2>3. /\ new.universes_dirty /\ new.next_page = source.next_page
        /\ new.next_universe_index = from /\ Len(new.universes) = from + count
        /\ FitsOn(new, source, page, limit)
    <3>1. count \in Nat /\ count <= count /\ (limit = 0 \/ from + count <= limit)
      BY <1>1, <1>8
    <3> QED
      BY <1>7, <2>2, <3>1
  <2>4. Len(new.universes) <= MaxPages * MaxInPage /\ (limit # 0 => Len(new.universes) <= limit)
    BY <1>1, <1>5, <1>8, <2>3
  <2> QED
    BY <2>3, <2>4 DEF new
<1>9. CASE limit # 0 /\ from + count > limit /\ from < limit
  <2>1. fits = limit - from /\ fits \in Nat /\ fits > 0 /\ fits < count
    BY <1>1, <1>5, <1>6, <1>9, DifferenceIs
  <2>2. new = Replaced(full, page, fits, gap)
    BY <1>1, <1>2, <2>1
  <2>3. /\ new.universes_dirty /\ new.next_page = source.next_page
        /\ new.next_universe_index = from /\ Len(new.universes) = from + fits
        /\ FitsOn(new, source, page, limit)
    <3>1. fits <= count /\ from + fits <= limit /\ limit = from + fits
      BY <1>1, <2>1
    <3> QED
      BY <1>7, <1>9, <2>1, <2>2, <3>1
  <2> QED
    <3>1. Len(new.universes) = limit /\ limit <= MaxPages * MaxInPage
      <4>1. limit <= MaxPages * MaxInPage
        BY <1>1, <1>5, <1>9 DEF MaxPages, MaxInPage
      <4>2. Len(new.universes) = limit
        BY <1>1, <2>1, <2>3
      <4> QED
        BY <4>1, <4>2
    <3> QED
      BY <1>1, <2>3, <3>1 DEF new
<1>10. CASE limit # 0 /\ from + count > limit /\ from >= limit
  <2>1. new = dirty \/ new = full
    <3>1. CASE from = limit
      <4>1. fits = 0 /\ fits < count
        BY <1>1, <1>5, <1>6, <1>10, <3>1, DifferenceIs
      <4> QED
        BY <1>1, <1>2, <4>1
    <3>2. CASE from > limit
      <4>1. fits > MaxInPage
        BY <1>1, <1>5, <1>6, <1>10, <3>2, DifferenceIs
      <4>2. fits \in Nat
        BY <1>1, <1>6, SizeMinusIs
      <4>3. fits > count
        BY <1>1, <4>1, <4>2 DEF MaxInPage
      <4> QED
        BY <1>1, <1>2, <4>2, <4>3
    <3> QED
      BY <1>1, <1>10, <3>1, <3>2
  <2>2. /\ new.universes_dirty /\ new.next_page = source.next_page
        /\ new.next_universe_index = from /\ new.universes = source.universes
    BY <1>3, <1>4, <2>1
  <2>3. ASSUME NEW first \in Seq(Nat), Len(first) = from, Starts(source.universes, first, limit)
        PROVE  IsUpTo(new.universes, first \o page.universes, limit)
    <3> DEFINE both == first \o page.universes
    <3>1. /\ Len(both) = from + count /\ \A j \in 1 .. from : both[j] = first[j]
      <4>1. /\ Len(both) = Len(first) + Len(page.universes)
            /\ \A j \in 1 .. Len(first) : both[j] = first[j]
        BY <1>1
      <4> QED
        BY <2>3, <4>1
    <3>2. limit \in 1 .. Len(first) /\ Len(source.universes) <= limit
      BY <1>10, <2>3
    <3>3. limit <= Len(source.universes)
      BY <2>3, <3>2 DEF Starts
    <3>4. Len(source.universes) = limit
      BY <1>1, <3>2, <3>3
    <3> HIDE DEF both
    <3>5. ASSUME NEW j \in 1 .. Len(both), limit = 0 \/ j <= limit
          PROVE  j <= Len(source.universes) /\ source.universes[j] = both[j]
      <4>1. j \in 1 .. Len(first) /\ j <= limit
        BY <1>10, <2>3, <3>2, <3>5
      <4> QED
        BY <2>3, <3>1, <3>4, <4>1 DEF Starts
    <3>6. ~(limit = 0 \/ Len(both) <= limit)
      BY <1>1, <1>10, <3>1
    <3> QED
      BY <2>2, <3>4, <3>5, <3>6 DEF IsUpTo, Starts, both
  <2> QED
    BY <1>1, <1>10, <2>2, <2>3 DEF new, InSize, FitsOn
<1> QED
  BY <1>1, <1>8, <1>9, <1>10

(* A page that is not put in is what the source has in its place.           *)
LEMMA UnmodifiedGives ==
    ASSUME NEW source \in Source, InSize(source), NEW page, IsPage(page),
           Len(page.universes) <= MaxInPage, NEW limit \in Nat,
           limit # 0 => Len(source.universes) <= limit,
           NEW differs \in Differs(source, page),
           ~page_modifies_universe_list(source, page, differs),
           NEW first \in Seq(Nat), Len(first) = source.next_universe_index,
           Starts(source.universes, first, limit)
    PROVE  /\ Starts(source.universes, first \o page.universes, limit)
           /\ page.page = page.last_page =>
                 IsUpTo(source.universes, first \o page.universes, limit)
<1> DEFINE from == source.next_universe_index
           count == Len(page.universes)
           both == first \o page.universes
           universes == source.universes
           remaining == SizeMinus(Len(universes), from)
<1>1. /\ count \in Nat /\ from \in Nat /\ Len(universes) \in Nat
      /\ universes \in Seq(Nat) /\ page.universes \in Seq(Nat)
  BY NumbersAre DEF IsPage, Source
<1>2. from <= MaxPages * MaxInPage /\ Len(universes) <= MaxPages * MaxInPage
  BY <1>1 DEF InSize, MaxPages, MaxInPage
<1>3. /\ Len(both) = Len(first) + count
      /\ \A j \in 1 .. Len(first) : both[j] = first[j]
      /\ \A j \in 1 .. count : both[Len(first) + j] = page.universes[j]
  BY <1>1, JoinedIs
<1> HIDE DEF both
<1>4. /\ ~(count > remaining)
      /\ ~(page.page = page.last_page /\ count < remaining)
      /\ ~(count > 0 /\ differs)
  BY DEF page_modifies_universe_list
<1>5. remaining \in Nat
  BY <1>1, SizeMinusIs
<1>6. \A j \in 1 .. Len(first) :
         limit = 0 \/ j <= limit => j <= Len(universes) /\ universes[j] = first[j]
  BY DEF Starts
<1>7. CASE from <= Len(universes)
  <2>1. remaining = Len(universes) - from
    BY <1>1, <1>2, <1>7, DifferenceIs
  <2>2. from + count <= Len(universes)
    BY <1>1, <1>4, <2>1
  <2>3. \A j \in 1 .. count : universes[from + j] = page.universes[j]
    <3>1. CASE count = 0
      BY <3>1
    <3>2. CASE count > 0
      <4>1. ~differs
        BY <1>4, <3>2
      <4>2. differs = (SubSeq(universes, from + 1, from + count) # page.universes)
        BY <2>2 DEF Differs
      <4>3. SubSeq(universes, from + 1, from + count) = page.universes
        BY <4>1, <4>2
      <4>4. \A j \in 1 .. count :
               SubSeq(universes, from + 1, from + count)[j] = universes[from + j]
        <5> HIDE DEF from, count, universes
        <5> QED
          BY <1>1, <2>2, PartIs
      <4> QED
        BY <4>3, <4>4
    <3> QED
      BY <1>1, <3>1, <3>2
  <2>4. ASSUME NEW j \in 1 .. Len(both), limit = 0 \/ j <= limit
        PROVE  j <= Len(universes) /\ universes[j] = both[j]
    <3>1. CASE j <= from
      <4>1. j \in 1 .. Len(first)
        BY <1>1, <3>1
      <4>2. both[j] = first[j] /\ j <= Len(universes) /\ universes[j] = first[j]
        BY <1>3, <1>6, <2>4, <4>1
      <4> QED
        BY <4>2
    <3>2. CASE j > from
      <4> DEFINE i == j - from
      <4>1. i \in 1 .. count /\ from + i = j /\ j <= Len(universes)
        BY <1>1, <1>3, <2>2, <2>4, <3>2
      <4> HIDE DEF i
      <4>2. universes[from + i] = page.universes[i] /\ both[Len(first) + i] = page.universes[i]
        BY <1>3, <2>3, <4>1
      <4> QED
        BY <4>1, <4>2
    <3> QED
      BY <1>1, <3>1, <3>2
  <2>5. page.page = page.last_page =>
          Len(universes) = IF limit = 0 \/ Len(both) <= limit THEN Len(both) ELSE limit
    BY <1>1, <1>3, <1>4, <1>5, <2>1, <2>2
  <2> QED
    BY <2>4, <2>5 DEF IsUpTo, Starts, both
<1>8. CASE from > Len(universes)
  <2>1. limit # 0
    <3>1. Len(first) \in 1 .. Len(first)
      BY <1>1, <1>8
    <3> QED
      BY <1>1, <1>6, <1>8, <3>1
  <2>2. Len(universes) = limit
    <3> DEFINE next == Len(universes) + 1
    <3>1. next \in 1 .. Len(first) /\ ~(next <= Len(universes))
      BY <1>1, <1>8
    <3>2. ~(next <= limit)
      BY <1>6, <3>1
    <3> QED
      BY <1>1, <2>1, <3>2
  <2>3. remaining > MaxInPage
    BY <1>1, <1>2, <1>8, DifferenceIs
  <2>4. count < remaining
    BY <1>1, <1>5, <2>3 DEF MaxInPage
  <2>5. page.page # page.last_page
    BY <1>4, <2>4
  <2>6. ASSUME NEW j \in 1 .. Len(both), limit = 0 \/ j <= limit
        PROVE  j <= Len(universes) /\ universes[j] = both[j]
    <3>1. j \in 1 .. Len(first) /\ j <= limit
      BY <1>1, <1>8, <2>1, <2>2, <2>6
    <3> QED
      BY <1>3, <1>6, <3>1
  <2> QED
    BY <2>5, <2>6 DEF Starts, both
<1> QED
  BY <1>1, <1>7, <1>8

(* What a page that comes in its turn makes of a source.                    *)
IsChanged(new, source, page, limit) ==
    /\ new.next_page = source.next_page
    /\ new.next_universe_index = source.next_universe_index
    /\ limit # 0 => Len(new.universes) <= limit
    /\ Len(new.universes) <= MaxPages * MaxInPage
    /\ ~new.universes_dirty => new = source
    /\ \A first \in Seq(Nat) :
          Len(first) = source.next_universe_index /\ Starts(source.universes, first, limit) =>
              /\ Starts(new.universes, first \o page.universes, limit)
              /\ page.page = page.last_page =>
                    IsUpTo(new.universes, first \o page.universes, limit)

(* Put in or not, a page is there after it came.                            *)
LEMMA ChangedIs ==
    ASSUME NEW source \in Source, InSize(source), NEW page, IsPage(page),
           Len(page.universes) <= MaxInPage, NEW limit \in Nat,
           limit # 0 => Len(source.universes) <= limit,
           NEW differs \in Differs(source, page), NEW gap \in Garbage
    PROVE  IsChanged(IF page_modifies_universe_list(source, page, differs)
                     THEN Modified(source, page, limit, gap) ELSE source, source, page, limit)
<1>1. CASE page_modifies_universe_list(source, page, differs)
  <2> DEFINE new == Modified(source, page, limit, gap)
  <2>1. /\ new.universes_dirty /\ new.next_page = source.next_page
        /\ new.next_universe_index = source.next_universe_index
        /\ limit # 0 => Len(new.universes) <= limit
        /\ Len(new.universes) <= MaxPages * MaxInPage
        /\ FitsOn(new, source, page, limit)
    BY ModifiedGives
  <2> HIDE DEF new
  <2>2. IsChanged(new, source, page, limit)
    BY <2>1 DEF IsChanged, FitsOn, IsUpTo
  <2> QED
    BY <1>1, <2>2 DEF new
<1>2. CASE ~page_modifies_universe_list(source, page, differs)
  <2>1. ASSUME NEW first \in Seq(Nat), Len(first) = source.next_universe_index,
               Starts(source.universes, first, limit)
        PROVE  /\ Starts(source.universes, first \o page.universes, limit)
               /\ page.page = page.last_page =>
                     IsUpTo(source.universes, first \o page.universes, limit)
    BY <1>2, <2>1, UnmodifiedGives
  <2>2. Len(source.universes) <= MaxPages * MaxInPage
    BY DEF InSize
  <2>3. IsChanged(source, source, page, limit)
    BY <2>1, <2>2 DEF IsChanged
  <2> QED
    BY <1>2, <2>3
<1> QED
  BY <1>1, <1>2

(* What there is of a list up to the limit is told whole.                   *)
LEMMA WholeIs ==
    ASSUME NEW list \in Lists, NEW limit \in Nat, NEW universes \in Seq(Nat),
           IsUpTo(universes, First(list, Len(list)), limit)
    PROVE  universes = UpTo(limit, list)
<1> DEFINE all == FlattenSeq(list)
<1>1. all = First(list, Len(list))
  BY FirstIs
<1>2. all \in Seq(Nat)
  <2>1. Len(list) \in 0 .. Len(list)
    OBVIOUS
  <2> QED
    BY <1>1, <2>1, FirstType
<1>3. UpTo(limit, list) = IF limit = 0 \/ Len(all) <= limit THEN all ELSE SubSeq(all, 1, limit)
  BY DEF UpTo
<1> HIDE DEF all
<1>4. /\ Len(universes) = IF limit = 0 \/ Len(all) <= limit THEN Len(all) ELSE limit
      /\ \A j \in 1 .. Len(all) :
            limit = 0 \/ j <= limit => j <= Len(universes) /\ universes[j] = all[j]
  BY <1>1 DEF IsUpTo, Starts
<1>5. CASE limit = 0 \/ Len(all) <= limit
  <2>1. Len(universes) = Len(all)
    BY <1>4, <1>5
  <2>2. \A j \in 1 .. Len(all) : universes[j] = all[j]
    BY <1>2, <1>4, <1>5
  <2>3. universes = all
    BY <1>2, <2>1, <2>2, SameIs
  <2> QED
    BY <1>3, <1>5, <2>3
<1>6. CASE ~(limit = 0 \/ Len(all) <= limit)
  <2> DEFINE some == SubSeq(all, 1, limit)
  <2>1. some \in Seq(Nat) /\ Len(some) = limit /\ \A j \in 1 .. limit : some[j] = all[j]
    <3>1. 0 + limit <= Len(all) /\ 0 + limit = limit /\ 0 + 1 = 1
      BY <1>2, <1>6
    <3>2. \A j \in 1 .. limit : 0 + j = j
      OBVIOUS
    <3> QED
      BY <1>2, <3>1, <3>2, PartIs
  <2>2. Len(universes) = limit
    BY <1>4, <1>6
  <2>3. \A j \in 1 .. limit : universes[j] = all[j]
    <3> TAKE j \in 1 .. limit
    <3>1. j \in 1 .. Len(all) /\ j <= limit
      BY <1>2, <1>6
    <3> QED
      BY <1>4, <3>1
  <2> HIDE DEF some
  <2>4. universes = some
    BY <2>1, <2>2, <2>3, SameIs
  <2> QED
    BY <1>3, <1>6, <2>4 DEF some
<1> QED
  BY <1>5, <1>6

(* A source keeps what is bounded and current when its pages start anew, or *)
(* its timer does.                                                          *)
LEMMA RestartedKeeps ==
    ASSUME NEW source \in Source, NEW limit, NEW t, Bounded(source, limit), Current(source, t)
    PROVE  LET new == FromTheStart(source) IN
           /\ Bounded(new, limit) /\ Current(new, t)
           /\ new.next_page = 0 /\ new.universes_dirty = source.universes_dirty
<1> DEFINE new == FromTheStart(source)
<1>1. /\ new.universes = source.universes /\ new.universes_dirty = source.universes_dirty
      /\ new.next_page = 0 /\ new.next_universe_index = 0
  BY DEF FromTheStart, Source
<1> HIDE DEF new
<1>2. Current(new, t)
  BY <1>1 DEF Current
<1>3. Bounded(new, limit)
  BY <1>1 DEF Bounded, MaxPages, MaxInPage
<1> QED
  BY <1>1, <1>2, <1>3 DEF new

(* A page a component sends.                                                *)
LEMMA PageOfIs ==
    ASSUME NEW list \in Lists, NEW i \in DOMAIN list
    PROVE  LET page == PageOf(list, i) IN
           /\ IsPage(page) /\ Len(page.universes) <= MaxInPage
           /\ page.page = i - 1 /\ page.last_page = Len(list) - 1
           /\ page.universes = list[i] /\ page.universes \in Seq(Nat)
           /\ i \in 1 .. Len(list) /\ Len(list) \in Nat /\ Len(list) <= MaxPages
<1>1. list \in Seq(Seq(Nat)) /\ i \in 1 .. Len(list)
  OBVIOUS
<1>2. list[i] \in Seq(Nat) /\ Len(list[i]) <= MaxInPage /\ Len(list) <= MaxPages
  BY <1>1
<1> QED
  BY <1>1, <1>2, PagesAre DEF PageOf

(* The list of a source that heard i pages of this one in order.            *)
Hears(source, list, i, limit, t) ==
    /\ i < Len(list) => Follows(source, list, i, limit)
    /\ i = Len(list) /\ IsAscending(UpTo(limit, list)) => t = UpTo(limit, list)

(* A page leaves a source bounded and current, and when it continues a list *)
(* the source follows, the source follows the list or it is told.           *)
LEMMA PageHeard ==
    ASSUME NEW source \in Source, NEW list \in Lists, NEW i \in DOMAIN list, NEW limit \in Nat,
           NEW t, Bounded(source, limit), Current(source, t), NEW at,
           at = IF PageOf(list, i).page = 0 THEN FromTheStart(source) ELSE source,
           NEW differs \in Differs(at, PageOf(list, i)), NEW gap \in Garbage
    PROVE  LET result == AfterPage(source, PageOf(list, i), limit, differs, gap)
               now == IF result.tells THEN result.source.universes ELSE t IN
           /\ Bounded(result.source, limit) /\ Current(result.source, now)
           /\ i = 1 \/ Follows(source, list, i - 1, limit) =>
                 Hears(result.source, list, i, limit, now)
<1> DEFINE page == PageOf(list, i)
           result == AfterPage(source, page, limit, differs, gap)
           count == Len(page.universes)
           changed == IF page_modifies_universe_list(at, page, differs)
                      THEN Modified(at, page, limit, gap) ELSE at
           tells == changed.universes_dirty /\ IsAscending(changed.universes)
           fewer == Len(changed.universes) < changed.last_notified_universe_count
           complete == FromTheStart(changed)
           last == [complete EXCEPT
                      !.universes_dirty = FALSE,
                      !.last_notified_universe_count =
                          IF tells THEN Len(changed.universes) ELSE @,
                      !.suppress_universe_limit_exceeded_notification =
                          @ /\ ~(tells /\ fewer)]
           next == [changed EXCEPT !.next_universe_index = @ + count, !.next_page = @ + 1]
           now == IF result.tells THEN result.source.universes ELSE t
<1>1. /\ IsPage(page) /\ count <= MaxInPage
      /\ page.page = i - 1 /\ page.last_page = Len(list) - 1
      /\ page.universes = list[i] /\ page.universes \in Seq(Nat) /\ count \in Nat
      /\ i \in 1 .. Len(list) /\ Len(list) \in Nat /\ Len(list) <= MaxPages
  BY PageOfIs
<1>2. result = IF page.page # 0 /\ page.page # source.next_page
               THEN [source |-> FromTheStart(source), tells |-> FALSE]
               ELSE IF page.page < page.last_page
               THEN [source |-> next, tells |-> FALSE]
               ELSE [source |-> last, tells |-> tells]
  BY DEF AfterPage
<1>3. at = IF page.page = 0 THEN FromTheStart(source) ELSE source
  OBVIOUS
<1>4. differs \in Differs(at, page)
  OBVIOUS
<1> HIDE DEF page, result
<1>5. at \in Source /\ Bounded(at, limit) /\ Current(at, t)
  BY <1>3, StartedIs, RestartedKeeps
<1>6. InSize(at) /\ (limit # 0 => Len(at.universes) <= limit)
  <2>1. at.next_page \in Nat /\ at.next_universe_index \in Nat
    BY <1>5 DEF Source
  <2> QED
    BY <1>5, <2>1 DEF Bounded, InSize, MaxPages, MaxInPage
<1>7. IsChanged(changed, at, page, limit)
  BY <1>1, <1>4, <1>5, <1>6, ChangedIs
<1>8. changed \in Source
  <2>1. differs \in BOOLEAN
    BY DEF Differs
  <2> QED
    BY <1>1, <1>5, <2>1, ModifiedIs
<1> HIDE DEF changed
<1>9. CASE page.page # 0 /\ page.page # source.next_page
  <2>1. result.source = FromTheStart(source) /\ ~result.tells
    BY <1>2, <1>9
  <2>2. ~(i = 1 \/ Follows(source, list, i - 1, limit))
    BY <1>1, <1>9 DEF Follows
  <2> QED
    BY <2>1, <2>2, RestartedKeeps DEF result, page
<1> DEFINE first == First(list, i - 1)
           upto == First(list, i)
<1>10. /\ first \in Seq(Nat) /\ upto = first \o page.universes
       /\ Len(upto) = Len(first) + count /\ (i = 1 => Len(first) = 0)
  <2>1. i - 1 \in 0 .. Len(list)
    BY <1>1
  <2>2. first \in Seq(Nat)
    BY <2>1, FirstType
  <2>3. upto = first \o page.universes
    BY <1>1, FirstIs
  <2>4. i = 1 => first = <<>>
    BY FirstIs
  <2> HIDE DEF first, upto
  <2> QED
    BY <1>1, <2>2, <2>3, <2>4, JoinedIs
<1> HIDE DEF first, upto
<1>11. CASE ~(page.page # 0 /\ page.page # source.next_page)
  <2>1. at.next_page = i - 1 /\ (i = 1 => at.next_universe_index = 0)
    BY <1>1, <1>3, <1>11, StartedIs, RestartedKeeps
  <2>2. i = 1 \/ Follows(source, list, i - 1, limit) =>
          Len(first) = at.next_universe_index /\ Starts(at.universes, first, limit)
    <3>1. CASE i = 1
      BY <1>10, <2>1, <3>1 DEF Starts
    <3>2. CASE i # 1
      BY <1>1, <1>3, <3>2 DEF Follows, first
    <3> QED
      BY <3>1, <3>2
  <2>3. i = 1 \/ Follows(source, list, i - 1, limit) =>
          /\ Starts(changed.universes, upto, limit)
          /\ page.page = page.last_page => IsUpTo(changed.universes, upto, limit)
    BY <1>7, <1>10, <2>2 DEF IsChanged
  <2>4. /\ changed.next_page = i - 1 /\ changed.next_universe_index = at.next_universe_index
        /\ limit # 0 => Len(changed.universes) <= limit
        /\ Len(changed.universes) <= MaxPages * MaxInPage
        /\ ~changed.universes_dirty => changed = at
    BY <1>7, <2>1 DEF IsChanged
  <2>5. CASE page.page < page.last_page
    <3>1. result.source = next /\ ~result.tells /\ now = t /\ i < Len(list)
      BY <1>1, <1>2, <1>11, <2>5
    <3>2. /\ next.next_page = i /\ next.next_universe_index = at.next_universe_index + count
          /\ next.universes = changed.universes
          /\ next.universes_dirty = changed.universes_dirty
      BY <1>1, <1>8, <2>4 DEF Source
    <3> HIDE DEF next
    <3>3. Bounded(next, limit)
      <4>1. next.next_page < MaxPages
        BY <1>1, <3>1, <3>2 DEF MaxPages
      <4>2. next.next_universe_index <= next.next_page * MaxInPage
        <5>1. at.next_universe_index <= (i - 1) * MaxInPage /\ at.next_universe_index \in Nat
          BY <1>5, <2>1 DEF Bounded, Source
        <5>2. MaxInPage = 2043 /\ i \in Nat
          BY <1>1 DEF MaxInPage
        <5>3. at.next_universe_index + count <= i * 2043
          BY <1>1, <5>1, <5>2
        <5> QED
          BY <3>2, <5>2, <5>3
      <4> QED
        BY <2>4, <3>2, <4>1, <4>2 DEF Bounded
    <3>4. Current(next, t)
      BY <1>5, <2>4, <3>2 DEF Current
    <3>5. i = 1 \/ Follows(source, list, i - 1, limit) => Follows(next, list, i, limit)
      BY <1>10, <2>2, <2>3, <3>2 DEF Follows, upto
    <3>6. i = 1 \/ Follows(source, list, i - 1, limit) => Hears(next, list, i, limit, t)
      BY <3>1, <3>5 DEF Hears
    <3> QED
      BY <3>1, <3>3, <3>4, <3>6 DEF result, page
  <2>6. CASE ~(page.page < page.last_page)
    <3> HIDE DEF last, tells
    <3>1. result.source = last /\ result.tells = tells /\ i = Len(list)
          /\ page.page = page.last_page
      <4>1. i = Len(list) /\ page.page = page.last_page
        BY <1>1, <2>6
      <4>2. result = [source |-> last, tells |-> tells]
        BY <1>2, <1>11, <2>6
      <4> QED
        BY <4>1, <4>2
    <3> USE DEF last
    <3>2. /\ last.next_page = 0 /\ last.next_universe_index = 0
          /\ last.universes = changed.universes /\ ~last.universes_dirty
      BY <1>8 DEF FromTheStart, Source
    <3> HIDE DEF last
    <3> USE DEF tells
    <3>3. Bounded(last, limit)
      BY <2>4, <3>2 DEF Bounded, MaxPages, MaxInPage
    <3>4. now = IF tells THEN last.universes ELSE t
      BY <3>1
    <3>5. Current(last, now)
      <4>1. CASE tells
        BY <3>4, <4>1 DEF Current
      <4>2. CASE ~tells
        BY <1>5, <2>4, <3>2, <3>4, <4>2 DEF Current
      <4> QED
        BY <4>1, <4>2
    <3>6. ASSUME i = 1 \/ Follows(source, list, i - 1, limit), IsAscending(UpTo(limit, list))
          PROVE  now = UpTo(limit, list)
      <4>1. IsUpTo(changed.universes, First(list, Len(list)), limit)
        BY <2>3, <3>1, <3>6 DEF upto
      <4>2. changed.universes \in Seq(Nat)
        BY <1>8, NumbersAre DEF Source
      <4>3. last.universes = UpTo(limit, list)
        BY <3>2, <4>1, <4>2, WholeIs
      <4> QED
        BY <3>2, <3>5, <3>6, <4>3 DEF Current
    <3>7. i = 1 \/ Follows(source, list, i - 1, limit) => Hears(last, list, i, limit, now)
      BY <1>1, <3>1, <3>6 DEF Hears
    <3> QED
      BY <3>1, <3>3, <3>5, <3>7 DEF result, page
  <2> QED
    BY <2>5, <2>6
<1> QED
  BY <1>9, <1>11

-----------------------------------------------------------------------------
(* What the application was told.                                           *)

Limit == detector.universes_per_source_max

(* What was heard are pages of lists.                                       *)
HeardTyped == heard \in [Cids -> [list : Lists \cup {<<>>}, pages : Nat]]

(* A source is what its component sent last, or it is told that.            *)
SourceTold(source) == Bounded(source, Limit) /\ Current(source, told[source.cid])

(* What came of the component in order, it follows or was told of.          *)
Listened(c) ==
    heard[c].pages # 0 =>
        /\ heard[c].list \in Lists /\ heard[c].pages \in DOMAIN heard[c].list
        /\ heard[c].pages < Len(heard[c].list) => IsFound(c)
        /\ Hears(sources[HandleOf(c)], heard[c].list, heard[c].pages, Limit, told[c])

AllTold ==
    /\ ~detector.created => \A c \in Cids : heard[c].pages = 0
    /\ \A h \in DOMAIN sources : SourceTold(sources[h])
    /\ \A c \in Cids : Listened(c)

(* The invariant of the lists, until a second detector finds old sources.   *)
ToldInv == HeardTyped /\ (~recreated => AllTold)

(* A component whose source stays keeps its handle.                         *)
LEMMA FoundKept ==
    ASSUME Inv, Inv', NEW c \in Cids, IsFound(c), HandleOf(c) \in DOMAIN sources',
           sources'[HandleOf(c)].cid = sources[HandleOf(c)].cid
    PROVE  IsFound(c)' /\ HandleOf(c)' = HandleOf(c)
<1>1. sources[HandleOf(c)].cid = c
  BY FoundIs DEF Inv
<1>2. IsRemote(c)' /\ HandleOf(c)' = HandleOf(c)
  BY <1>1 DEF Inv, Handles, SourceHandles
<1> QED
  BY <1>2 DEF IsFound

(* The source of a component that is found afterwards.                      *)
LEMMA FoundPrimed ==
    ASSUME Inv', NEW c \in Cids, IsFound(c)'
    PROVE  sources'[HandleOf(c)'].cid = c
  BY DEF Inv, Handles, SourceHandles, OneEach, IsFound, IsRemote, HandleOf

(* What is the same of two sources but for their timers.                    *)
SameList(new, source) ==
    /\ new.cid = source.cid /\ new.universes = source.universes
    /\ new.universes_dirty = source.universes_dirty
    /\ new.next_page = source.next_page
    /\ new.next_universe_index = source.next_universe_index

(* The timer is no part of the list.                                        *)
LEMMA TimedIs ==
    ASSUME NEW source \in Source, NEW left \in 0 .. Expiration
    PROVE  LET new == [source EXCEPT !.expiration_timer = left] IN
           new \in Source /\ SameList(new, source)
  BY DEF Source, SameList

(* What was heard of a component stays true of the source it has.           *)
LEMMA ListenedKept ==
    ASSUME Inv, Inv', NEW c \in Cids, Listened(c), heard'[c] = heard[c], told'[c] = told[c],
           Limit' = Limit,
           IsFound(c) => /\ HandleOf(c) \in DOMAIN sources'
                         /\ SameList(sources'[HandleOf(c)], sources[HandleOf(c)])
    PROVE  Listened(c)'
<1> DEFINE list == heard[c].list
           i == heard[c].pages
<1>1. IsFound(c) => IsFound(c)' /\ HandleOf(c)' = HandleOf(c)
  BY FoundKept DEF SameList
<1> SUFFICES ASSUME i # 0
             PROVE  /\ i < Len(list) => IsFound(c)'
                    /\ Hears(sources'[HandleOf(c)'], list, i, Limit, told[c])
  BY DEF Listened
<1>2. /\ i < Len(list) => IsFound(c)
      /\ Hears(sources[HandleOf(c)], list, i, Limit, told[c])
  BY DEF Listened
<1>3. i < Len(list) => Follows(sources'[HandleOf(c)'], list, i, Limit)
  <2> SUFFICES ASSUME i < Len(list) PROVE Follows(sources'[HandleOf(c)'], list, i, Limit)
    OBVIOUS
  <2>1. SameList(sources'[HandleOf(c)'], sources[HandleOf(c)])
    BY <1>1, <1>2
  <2>2. Follows(sources[HandleOf(c)], list, i, Limit)
    BY <1>2 DEF Hears
  <2> QED
    BY <2>1, <2>2 DEF Follows, SameList
<1> QED
  BY <1>1, <1>2, <1>3 DEF Hears

(* A source that keeps its list stays told.                                 *)
LEMMA SourceToldKept ==
    ASSUME NEW new, NEW source, SourceTold(source), SameList(new, source), Limit' = Limit,
           told'[source.cid] = told[source.cid]
    PROVE  Bounded(new, Limit') /\ Current(new, told'[new.cid])
  BY DEF SourceTold, SameList, Bounded, Current

-----------------------------------------------------------------------------
(* Each action preserves it.                                                *)

(* A detector that is created has told nothing, and heard nothing.          *)
LEMMA CreateTold == ASSUME Inv, Inv', ToldInv, Create PROVE ToldInv'
<1>1. ~detector.created /\ UNCHANGED <<sources, told, heard, recreated>>
  BY DEF Create
<1>2. HeardTyped'
  BY <1>1 DEF ToldInv, HeardTyped
<1>3. ASSUME ~recreated PROVE AllTold'
  <2>1. DOMAIN sources = {} /\ \A c \in Cids : heard[c].pages = 0
    BY <1>1, <1>3 DEF Inv, Placed, ToldInv, AllTold
  <2> QED
    BY <1>1, <2>1 DEF AllTold, Listened
<1> QED
  BY <1>1, <1>2, <1>3 DEF ToldInv

(* What is after the first detector is not followed.                        *)
LEMMA DestroyTold == ASSUME ToldInv, Destroy PROVE ToldInv'
<1>1. heard' = NothingHeard /\ recreated'
  BY DEF Destroy
<1>2. HeardTyped'
  BY <1>1 DEF HeardTyped, NothingHeard
<1> QED
  BY <1>1, <1>2 DEF ToldInv

(* What is heard after a page.                                              *)
LEMMA HeardIs ==
    ASSUME HeardTyped, NEW c \in Cids, NEW list \in Lists, NEW i \in DOMAIN list,
           heard' = Heard(c, list, i)
    PROVE  /\ HeardTyped'
           /\ \A d \in Cids \ {c} : heard'[d] = heard[d]
           /\ \/ /\ i = 1 \/ (heard[c].list = list /\ heard[c].pages = i - 1)
                 /\ heard'[c].list = list /\ heard'[c].pages = i
              \/ heard'[c].pages = 0
<1>1. i \in Nat
  OBVIOUS
<1>2. NothingHeard[c] = [list |-> <<>>, pages |-> 0]
  BY DEF NothingHeard
<1>3. CASE i = 1 \/ (heard[c].list = list /\ heard[c].pages = i - 1)
  <2>1. heard' = [heard EXCEPT ![c] = [list |-> list, pages |-> i]]
    BY <1>3 DEF Heard
  <2> QED
    BY <1>1, <1>3, <2>1 DEF HeardTyped
<1>4. CASE ~(i = 1 \/ (heard[c].list = list /\ heard[c].pages = i - 1))
  <2>1. heard' = [heard EXCEPT ![c] = [list |-> <<>>, pages |-> 0]]
    BY <1>2, <1>4 DEF Heard
  <2> QED
    BY <2>1 DEF HeardTyped
<1> QED
  BY <1>3, <1>4

(* A page of a source the detector has.                                     *)
LEMMA PageOfSourceTold ==
    ASSUME Inv, Inv', ToldInv, NEW c \in Cids, NEW list \in Lists, NEW i \in DOMAIN list,
           PageOfSource(c, list, i)
    PROVE  ToldInv'
<1> DEFINE h == HandleOf(c)
           page == PageOf(list, i)
           source == [sources[h] EXCEPT !.expiration_timer = Expiration]
           at == IF page.page = 0 THEN FromTheStart(source) ELSE source
           Result(differs, gap) == AfterPage(source, page, Limit, differs, gap)
<1>1. /\ detector.created /\ IsFound(c) /\ h \in DOMAIN sources
      /\ UNCHANGED <<detector, remote, tracked, recreated>> /\ Limit' = Limit
      /\ heard' = Heard(c, list, i)
  BY DEF PageOfSource, IsFound, Limit
<1>2. sources[h] \in Source /\ sources[h].cid = c
  BY <1>1, FoundIs DEF Inv, SourcesTyped
<1>3. source \in Source /\ SameList(source, sources[h])
  <2> DEFINE was == sources[h]
  <2>1. was \in Source /\ Expiration \in 0 .. Expiration
    BY <1>2
  <2> HIDE DEF was
  <2>2. [was EXCEPT !.expiration_timer = Expiration] \in Source
        /\ SameList([was EXCEPT !.expiration_timer = Expiration], was)
    BY <2>1, TimedIs
  <2> QED
    BY <2>2 DEF was
<1>4. PICK differs \in Differs(at, page), gap \in Gaps(at) :
        /\ sources' = [sources EXCEPT ![h] = Result(differs, gap).source]
        /\ told' = IF Result(differs, gap).tells
                   THEN [told EXCEPT ![c] = Result(differs, gap).source.universes] ELSE told
  BY DEF PageOfSource, Limit
<1>5. gap \in Garbage /\ Limit \in Nat
  BY DEF Gaps, Inv, ToldTyped, Limit
<1> DEFINE result == Result(differs, gap)
           now == IF result.tells THEN result.source.universes ELSE told[c]
<1>6. HeardTyped'
  BY <1>1, HeardIs DEF ToldInv
<1>7. sources' = [sources EXCEPT ![h] = result.source]
  BY <1>4
<1>8. told'[c] = now /\ \A d \in Cids \ {c} : told'[d] = told[d]
  BY <1>4 DEF Inv, ToldTyped
<1>9. ASSUME ~recreated, Bounded(source, Limit), Current(source, told[c])
      PROVE  /\ Bounded(result.source, Limit) /\ Current(result.source, now)
             /\ i = 1 \/ Follows(source, list, i - 1, Limit) =>
                   Hears(result.source, list, i, Limit, now)
  BY <1>3, <1>4, <1>5, <1>9, PageHeard
<1> HIDE DEF result, now, source, at, page, Result
<1>10. ASSUME ~recreated PROVE AllTold'
  <2>1. SourceTold(sources[h]) /\ \A d \in Cids : Listened(d)
    BY <1>1, <1>10 DEF ToldInv, AllTold
  <2>2. Bounded(source, Limit) /\ Current(source, told[c])
    BY <1>2, <1>3, <2>1 DEF SourceTold, SameList, Bounded, Current
  <2>3. /\ Bounded(result.source, Limit) /\ Current(result.source, now)
        /\ i = 1 \/ Follows(source, list, i - 1, Limit) =>
              Hears(result.source, list, i, Limit, now)
    BY <1>9, <1>10, <2>2
  <2>4. sources'[h] = result.source /\ sources'[h].cid = c
    <3>1. sources'[h] = result.source /\ h \in DOMAIN sources'
      BY <1>1, <1>7
    <3>2. IsRemote(c)' /\ HandleOf(c)' = h
      BY <1>1 DEF IsFound, IsRemote, HandleOf
    <3>3. IsFound(c)'
      BY <3>1, <3>2 DEF IsFound
    <3> QED
      BY <3>1, <3>2, <3>3, FoundPrimed
  <2>5. ASSUME NEW g \in DOMAIN sources' PROVE SourceTold(sources[g])'
    <3>1. CASE g = h
      BY <1>1, <1>8, <2>3, <2>4, <3>1 DEF SourceTold
    <3>2. CASE g # h
      <4>1. g \in DOMAIN sources /\ sources'[g] = sources[g] /\ sources[g].cid \in Cids \ {c}
        BY <1>1, <1>7, <3>2 DEF Inv, SourcesTyped, Source, Handles, SourceHandles
      <4>2. SourceTold(sources[g])
        BY <1>10, <4>1 DEF ToldInv, AllTold
      <4> QED
        BY <1>1, <1>8, <4>1, <4>2 DEF SourceTold
    <3> QED
      BY <3>1, <3>2
  <2>6. Listened(c)'
    <3> SUFFICES ASSUME heard'[c].pages # 0 PROVE Listened(c)'
      BY DEF Listened
    <3>1. /\ i = 1 \/ (heard[c].list = list /\ heard[c].pages = i - 1)
          /\ heard'[c].list = list /\ heard'[c].pages = i
      BY <1>1, HeardIs DEF ToldInv
    <3>2. i = 1 \/ Follows(source, list, i - 1, Limit)
      <4> SUFFICES ASSUME i # 1 PROVE Follows(source, list, i - 1, Limit)
        OBVIOUS
      <4>1. heard[c].list = list /\ heard[c].pages = i - 1 /\ i - 1 # 0 /\ i - 1 < Len(list)
        BY <3>1
      <4>2. Follows(sources[h], list, i - 1, Limit)
        BY <2>1, <4>1 DEF Listened, Hears
      <4> QED
        BY <1>3, <4>2 DEF Follows, SameList
    <3>3. Hears(result.source, list, i, Limit, now)
      BY <2>3, <3>2
    <3>4. IsFound(c)' /\ HandleOf(c)' = h
      BY <1>1, <1>7 DEF IsFound, IsRemote, HandleOf
    <3> QED
      BY <1>1, <1>8, <2>4, <3>1, <3>3, <3>4 DEF Listened
  <2>7. ASSUME NEW d \in Cids \ {c} PROVE Listened(d)'
    <3>1. heard'[d] = heard[d]
      BY <1>1, HeardIs DEF ToldInv
    <3>2. ASSUME IsFound(d)
          PROVE  HandleOf(d) \in DOMAIN sources'
                 /\ SameList(sources'[HandleOf(d)], sources[HandleOf(d)])
      <4>1. HandleOf(d) # h /\ HandleOf(d) \in DOMAIN sources
        BY <1>1, <3>2 DEF IsFound, IsRemote, Inv, Handles, OneEach
      <4> QED
        BY <1>7, <4>1 DEF SameList
    <3> QED
      BY <1>1, <1>8, <2>1, <3>1, <3>2, ListenedKept
  <2> QED
    BY <1>1, <2>5, <2>6, <2>7 DEF AllTold
<1> QED
  BY <1>1, <1>6, <1>10 DEF ToldInv

(* A source that is new follows no list, and nothing was told of it.        *)
LEMMA NewIs ==
    ASSUME NEW c \in Cids, NEW limit \in Nat, NEW t
    PROVE  /\ NewSource(c) \in Source /\ NewSource(c).cid = c
           /\ Bounded(NewSource(c), limit) /\ Current(NewSource(c), t)
           /\ NewSource(c).next_page = 0
<1> DEFINE new == NewSource(c)
<1>1. /\ new.universes = <<>> /\ new.universes_dirty /\ new.cid = c
      /\ new.next_page = 0 /\ new.next_universe_index = 0
  BY DEF NewSource
<1>2. new \in Source
  BY DEF NewSource, Source
<1> HIDE DEF new
<1>3. Current(new, t)
  BY <1>1 DEF Current
<1>4. Len(new.universes) = 0
  BY <1>1
<1>5. Bounded(new, limit)
  BY <1>1, <1>4 DEF Bounded, MaxPages, MaxInPage
<1> QED
  BY <1>1, <1>2, <1>3, <1>5 DEF new

(* A page of a source the detector did not have.                            *)
LEMMA PageOfNewTold ==
    ASSUME Inv, Inv', ToldInv, NEW c \in Cids, NEW list \in Lists, NEW i \in DOMAIN list,
           PageOfNew(c, list, i)
    PROVE  ToldInv'
<1> DEFINE page == PageOf(list, i)
           new == NewSource(c)
           at == IF page.page = 0 THEN FromTheStart(new) ELSE new
           Result(differs, gap) == AfterPage(new, page, Limit, differs, gap)
<1>1. /\ detector.created /\ ~IsFound(c)
      /\ UNCHANGED <<detector, tracked, recreated>> /\ Limit' = Limit
      /\ heard' = Heard(c, list, i)
  BY DEF PageOfNew, Limit
<1>2. /\ new \in Source /\ new.cid = c /\ new.next_page = 0 /\ new.next_universe_index = 0
      /\ Limit \in Nat
  BY DEF NewSource, Source, Inv, ToldTyped, Limit
<1>3. PICK handle \in HandlesFor(c), differs \in Differs(new, page), gap \in Gaps(new) :
        /\ remote' = WithRemote(c, handle)
        /\ sources' = [h \in DOMAIN sources \cup {handle} |->
                          IF h = handle THEN Result(differs, gap).source ELSE sources[h]]
        /\ told' = IF Result(differs, gap).tells
                   THEN [told EXCEPT ![c] = Result(differs, gap).source.universes] ELSE told
  BY DEF PageOfNew, Limit
<1>4. gap \in Garbage /\ at = new
  BY <1>2 DEF Gaps, FromTheStart, NewSource
<1> DEFINE result == Result(differs, gap)
           now == IF result.tells THEN result.source.universes ELSE told[c]
<1>5. HeardTyped'
  BY <1>1, HeardIs DEF ToldInv
<1>6. sources' = [h \in DOMAIN sources \cup {handle} |->
                     IF h = handle THEN result.source ELSE sources[h]]
  BY <1>3
<1>7. told'[c] = now /\ \A d \in Cids \ {c} : told'[d] = told[d]
  BY <1>3 DEF Inv, ToldTyped
<1>8. Bounded(new, Limit) /\ Current(new, told[c])
  BY <1>2, NewIs
<1>9. differs \in Differs(at, page)
  BY <1>3, <1>4
<1>10. /\ Bounded(result.source, Limit) /\ Current(result.source, now)
       /\ i = 1 \/ Follows(new, list, i - 1, Limit) =>
             Hears(result.source, list, i, Limit, now)
  <2> HIDE DEF new, now, result
  <2> USE DEF result, now
  <2> QED
    BY <1>2, <1>4, <1>8, <1>9, PageHeard
<1>11. IsRemote(c)' /\ HandleOf(c)' = handle
  BY <1>3, TakenIs DEF Inv
<1> HIDE DEF result, now, new, at, page, Result
<1>12. sources'[handle] = result.source /\ handle \in DOMAIN sources'
  BY <1>6
<1>13. IsFound(c)' /\ sources'[handle].cid = c
  <2>1. IsFound(c)'
    BY <1>11, <1>12 DEF IsFound
  <2> QED
    BY <1>11, <2>1, FoundPrimed
<1>14. handle \notin DOMAIN sources
  <2> SUFFICES ASSUME handle \in DOMAIN sources PROVE FALSE
    OBVIOUS
  <2> DEFINE d == sources[handle].cid
  <2>1. d \in Cids /\ IsRemote(d) /\ HandleOf(d) = handle
    BY DEF Inv, SourcesTyped, Source, Handles, SourceHandles
  <2>2. d = c
    <3>1. IsRemote(c) => HandleOf(c) = handle
      BY <1>3 DEF HandlesFor
    <3>2. ~IsRemote(c) => handle \notin Used
      BY <1>3 DEF HandlesFor
    <3>3. handle \in Used
      BY <2>1 DEF Used, IsRemote
    <3> HIDE DEF d
    <3> QED
      BY <2>1, <3>1, <3>2, <3>3 DEF Inv, Handles, OneEach, IsRemote
  <2> QED
    BY <1>1, <2>1, <2>2 DEF IsFound
<1>15. ASSUME ~recreated PROVE AllTold'
  <2>1. (\A d \in Cids : Listened(d)) /\ \A h \in DOMAIN sources : SourceTold(sources[h])
    BY <1>15 DEF ToldInv, AllTold
  <2>2. ASSUME NEW g \in DOMAIN sources' PROVE SourceTold(sources[g])'
    <3>1. CASE g = handle
      BY <1>1, <1>7, <1>10, <1>12, <1>13, <3>1 DEF SourceTold
    <3>2. CASE g # handle
      <4>1. g \in DOMAIN sources /\ sources'[g] = sources[g]
        BY <1>6, <3>2
      <4>2. sources[g].cid \in Cids \ {c}
        BY <1>1, <4>1 DEF Inv, SourcesTyped, Source, Handles, SourceHandles, IsFound
      <4>3. SourceTold(sources[g])
        BY <2>1, <4>1
      <4> QED
        BY <1>1, <1>7, <4>1, <4>2, <4>3 DEF SourceTold
    <3> QED
      BY <3>1, <3>2
  <2>3. Listened(c)'
    <3> SUFFICES ASSUME heard'[c].pages # 0 PROVE Listened(c)'
      BY DEF Listened
    <3>1. /\ i = 1 \/ (heard[c].list = list /\ heard[c].pages = i - 1)
          /\ heard'[c].list = list /\ heard'[c].pages = i
      BY <1>1, HeardIs DEF ToldInv
    <3>2. i = 1
      <4> SUFFICES ASSUME i # 1 PROVE FALSE
        OBVIOUS
      <4>1. heard[c].list = list /\ heard[c].pages = i - 1 /\ i - 1 # 0 /\ i - 1 < Len(list)
        BY <3>1
      <4> QED
        BY <1>1, <2>1, <4>1 DEF Listened
    <3>3. Hears(result.source, list, i, Limit, now)
      BY <1>10, <3>2
    <3> QED
      BY <1>1, <1>7, <1>11, <1>12, <1>13, <3>1, <3>3 DEF Listened
  <2>4. ASSUME NEW d \in Cids \ {c} PROVE Listened(d)'
    <3>1. heard'[d] = heard[d]
      BY <1>1, HeardIs DEF ToldInv
    <3>2. ASSUME IsFound(d)
          PROVE  HandleOf(d) \in DOMAIN sources'
                 /\ SameList(sources'[HandleOf(d)], sources[HandleOf(d)])
      <4>1. HandleOf(d) # handle /\ HandleOf(d) \in DOMAIN sources
        BY <1>14, <3>2 DEF IsFound
      <4> QED
        BY <1>6, <4>1 DEF SameList
    <3> QED
      BY <1>1, <1>7, <2>1, <3>1, <3>2, ListenedKept
  <2> QED
    BY <1>1, <2>2, <2>3, <2>4 DEF AllTold
<1> QED
  BY <1>1, <1>5, <1>15 DEF ToldInv

(* A step that hears nothing and leaves the sources' lists where they are.  *)
LEMMA ToldKept ==
    ASSUME Inv, Inv', ToldInv, UNCHANGED <<told, heard, recreated>>, Limit' = Limit,
           detector'.created = detector.created, DOMAIN sources' = DOMAIN sources,
           \A h \in DOMAIN sources : SameList(sources'[h], sources[h])
    PROVE  ToldInv'
<1>1. HeardTyped'
  BY DEF ToldInv, HeardTyped
<1>2. ASSUME ~recreated PROVE AllTold'
  <2>1. /\ ~detector.created => \A c \in Cids : heard[c].pages = 0
        /\ \A h \in DOMAIN sources : SourceTold(sources[h])
        /\ \A c \in Cids : Listened(c)
    BY <1>2 DEF ToldInv, AllTold
  <2>2. \A h \in DOMAIN sources' : SourceTold(sources[h])'
    BY <2>1, SourceToldKept DEF SourceTold
  <2>3. \A c \in Cids : Listened(c)'
    BY <2>1, ListenedKept DEF IsFound
  <2> QED
    BY <2>1, <2>2, <2>3 DEF AllTold
<1> QED
  BY <1>1, <1>2 DEF ToldInv

(* Time passes.                                                             *)
LEMMA TickTold == ASSUME Inv, Inv', ToldInv, Tick PROVE ToldInv'
<1>1. /\ UNCHANGED <<detector, told, heard, recreated>> /\ Limit' = Limit
      /\ DOMAIN sources' = DOMAIN sources
  BY DEF Tick, Limit
<1>2. \A h \in DOMAIN sources : SameList(sources'[h], sources[h])
  <2> TAKE h \in DOMAIN sources
  <2> DEFINE was == sources[h]
             left == Elapse(was.expiration_timer)
  <2>1. was \in Source
    BY DEF Inv, SourcesTyped
  <2>2. left \in 0 .. Expiration
    BY <2>1 DEF Source, Elapse
  <2>3. sources'[h] = [was EXCEPT !.expiration_timer = left]
    BY DEF Tick
  <2> HIDE DEF was, left
  <2>4. SameList([was EXCEPT !.expiration_timer = left], was)
    BY <2>1, <2>2, TimedIs
  <2> QED
    BY <2>3, <2>4 DEF was
<1> QED
  BY <1>1, <1>2, ToldKept

(* The receivers take and give back handles.                                *)
LEMMA TrackingTold ==
    ASSUME Inv, Inv', ToldInv, NEW c \in Cids, Tracks(c) \/ Untracks(c)
    PROVE  ToldInv'
<1>1. UNCHANGED <<detector, sources, told, heard, recreated>> /\ Limit' = Limit
  BY DEF Tracks, Untracks, Limit
<1>2. \A h \in DOMAIN sources : SameList(sources'[h], sources[h])
  BY <1>1 DEF SameList
<1> QED
  BY <1>1, <1>2, ToldKept

(* What is not taken in is not heard.                                       *)
LEMMA PageOfTooManyTold ==
    ASSUME Inv, Inv', ToldInv, NEW c \in Cids, PageOfTooMany(c)
    PROVE  ToldInv'
<1>1. /\ UNCHANGED <<sources, told, recreated>>
      /\ heard' = [heard EXCEPT ![c] = NothingHeard[c]]
      /\ detector' = [detector EXCEPT !.suppress_source_limit_exceeded_notification = TRUE]
      /\ detector.created
  BY DEF PageOfTooMany
<1>2. Limit' = Limit /\ detector'.created
  <2>1. detector' = [detector EXCEPT !.suppress_source_limit_exceeded_notification = TRUE]
    BY <1>1
  <2>2. /\ detector'.universes_per_source_max = detector.universes_per_source_max
        /\ detector'.created = detector.created
    BY <2>1
  <2> QED
    BY <1>1, <2>2 DEF Limit
<1>3. NothingHeard[c] = [list |-> <<>>, pages |-> 0]
  BY DEF NothingHeard
<1>4. /\ HeardTyped' /\ heard'[c].pages = 0
      /\ \A d \in Cids \ {c} : heard'[d] = heard[d]
  BY <1>1, <1>3 DEF ToldInv, HeardTyped
<1>5. \A h \in DOMAIN sources : SameList(sources'[h], sources[h])
  BY <1>1 DEF SameList
<1>6. ASSUME ~recreated PROVE AllTold'
  <2>1. /\ \A h \in DOMAIN sources : SourceTold(sources[h])
        /\ \A d \in Cids : Listened(d)
    BY <1>6 DEF ToldInv, AllTold
  <2>2. \A h \in DOMAIN sources' : SourceTold(sources[h])'
    BY <1>1, <1>2, <2>1 DEF SourceTold
  <2>3. \A d \in Cids \ {c} : Listened(d)'
    BY <1>1, <1>2, <1>4, <1>5, <2>1, ListenedKept DEF IsFound
  <2>4. Listened(c)'
    BY <1>4 DEF Listened
  <2> QED
    BY <1>2, <2>2, <2>3, <2>4 DEF AllTold
<1> QED
  BY <1>1, <1>4, <1>6 DEF ToldInv

(* A source that expired is not told any more, nor heard.                   *)
LEMMA ProcessTold == ASSUME Inv, Inv', ToldInv, Process PROVE ToldInv'
<1> DEFINE expired == {h \in DOMAIN sources : sources[h].expiration_timer = 0}
           gone == {sources[h].cid : h \in expired}
<1>1. /\ DOMAIN sources' = DOMAIN sources \ expired
      /\ \A h \in DOMAIN sources' : sources'[h] = sources[h]
  BY DEF Process, Restrict
<1>2. /\ told' = [d \in Cids |-> IF d \in gone THEN Untold ELSE told[d]]
      /\ heard' = [d \in Cids |-> IF d \in gone THEN NothingHeard[d] ELSE heard[d]]
      /\ detector.created /\ recreated' = recreated
  BY DEF Process
<1>3. Limit' = Limit /\ detector'.created
  <2>1. detector' = [detector EXCEPT !.suppress_source_limit_exceeded_notification = FALSE]
    BY DEF Process
  <2>2. /\ detector'.universes_per_source_max = detector.universes_per_source_max
        /\ detector'.created = detector.created
    BY <2>1
  <2>3. detector.created
    BY DEF Process
  <2> QED
    BY <2>2, <2>3 DEF Limit
<1>4. \A h \in DOMAIN sources : sources[h].cid \in gone => h \in expired
  BY DEF Inv, Handles, SourceHandles
<1>5. \A d \in Cids : IsFound(d) /\ d \notin gone => HandleOf(d) \in DOMAIN sources'
  <2> SUFFICES ASSUME NEW d \in Cids, IsFound(d), HandleOf(d) \in expired PROVE d \in gone
    BY <1>1 DEF IsFound
  <2>1. sources[HandleOf(d)].cid = d
    BY FoundIs DEF Inv
  <2> QED
    BY <2>1
<1>6. \A d \in Cids : NothingHeard[d] = [list |-> <<>>, pages |-> 0]
  BY DEF NothingHeard
<1> HIDE DEF expired, gone
<1>7. HeardTyped'
  BY <1>2, <1>6 DEF ToldInv, HeardTyped
<1>8. ASSUME ~recreated PROVE AllTold'
  <2>1. /\ \A h \in DOMAIN sources : SourceTold(sources[h])
        /\ \A d \in Cids : Listened(d)
    BY <1>8 DEF ToldInv, AllTold
  <2>2. ASSUME NEW h \in DOMAIN sources' PROVE SourceTold(sources[h])'
    <3>1. h \in DOMAIN sources /\ h \notin expired /\ sources'[h] = sources[h]
      BY <1>1
    <3>2. sources[h].cid \in Cids /\ sources[h].cid \notin gone
      BY <1>4, <3>1 DEF Inv, SourcesTyped, Source
    <3>3. told'[sources[h].cid] = told[sources[h].cid]
      BY <1>2, <3>2
    <3> QED
      BY <1>3, <2>1, <3>1, <3>3 DEF SourceTold
  <2>3. ASSUME NEW d \in Cids PROVE Listened(d)'
    <3>1. CASE d \in gone
      BY <1>2, <1>6, <3>1 DEF Listened
    <3>2. CASE d \notin gone
      <4>1. heard'[d] = heard[d] /\ told'[d] = told[d]
        BY <1>2, <3>2
      <4>2. IsFound(d) => /\ HandleOf(d) \in DOMAIN sources'
                          /\ SameList(sources'[HandleOf(d)], sources[HandleOf(d)])
        BY <1>1, <1>5, <3>2 DEF SameList
      <4> QED
        BY <1>3, <2>1, <4>1, <4>2, ListenedKept
    <3> QED
      BY <3>1, <3>2
  <2> QED
    BY <1>3, <2>2, <2>3 DEF AllTold
<1> QED
  BY <1>2, <1>7, <1>8 DEF ToldInv

(* Nothing was heard or told at first.                                      *)
LEMMA InitTold == Init => ToldInv
<1> SUFFICES ASSUME Init PROVE ToldInv
  OBVIOUS
<1>1. heard = NothingHeard /\ DOMAIN sources = {}
  BY DEF Init
<1>2. \A c \in Cids : heard[c] = [list |-> <<>>, pages |-> 0]
  BY <1>1 DEF NothingHeard
<1>3. HeardTyped
  BY <1>1, <1>2 DEF HeardTyped, NothingHeard
<1>4. AllTold
  BY <1>1, <1>2 DEF AllTold, Listened
<1> QED
  BY <1>3, <1>4 DEF ToldInv

(* Every step keeps what the sources say and the application was told.      *)
LEMMA NextTold == ASSUME Inv, Inv', ToldInv, [Next]_vars PROVE ToldInv'
<1>1. CASE Create
  BY <1>1, CreateTold
<1>2. CASE Destroy
  BY <1>2, DestroyTold
<1>3. CASE Process
  BY <1>3, ProcessTold
<1>4. CASE Tick
  BY <1>4, TickTold
<1>5. ASSUME NEW c \in Cids, NEW list \in Lists, NEW i \in DOMAIN list,
             PageOfSource(c, list, i) \/ PageOfNew(c, list, i)
      PROVE  ToldInv'
  BY <1>5, PageOfSourceTold, PageOfNewTold
<1>6. ASSUME NEW c \in Cids, PageOfTooMany(c) PROVE ToldInv'
  BY <1>6, PageOfTooManyTold
<1>7. ASSUME NEW c \in Cids, Tracks(c) \/ Untracks(c) PROVE ToldInv'
  BY <1>7, TrackingTold
<1>8. CASE UNCHANGED vars
  <2>1. UNCHANGED <<detector, sources, told, heard, recreated>> /\ Limit' = Limit
    BY <1>8 DEF vars, Limit
  <2>2. \A h \in DOMAIN sources : SameList(sources'[h], sources[h])
    BY <2>1 DEF SameList
  <2> QED
    BY <2>1, <2>2, ToldKept
<1> QED
  BY <1>1, <1>2, <1>3, <1>4, <1>5, <1>6, <1>7, <1>8 DEF Next

(* When all pages of a list came in order, whatever came before, the        *)
(* application has the list, up to its limit; and without one a page is     *)
(* compared inside the list it continues.                                   *)
THEOREM ListsCorrect == Spec => []ListsExact
<1>1. Inv /\ ToldInv => CompleteIsTold
  <2> SUFFICES ASSUME Inv, ToldInv, ~recreated, NEW c \in Cids, heard[c].pages > 0,
                      heard[c].pages = Len(heard[c].list),
                      IsAscending(UpTo(Limit, heard[c].list))
               PROVE  told[c] = UpTo(Limit, heard[c].list)
    BY DEF CompleteIsTold, Limit
  <2>1. Listened(c)
    BY DEF ToldInv, AllTold
  <2>2. heard[c].pages # 0
    OBVIOUS
  <2> QED
    BY <2>1, <2>2 DEF Listened, Hears
<1>2. ToldInv /\ Inv /\ Inv' /\ [Next]_vars => ToldInv'
  BY NextTold
<1>3. CompleteIsTold /\ IndexInList => ListsExact
  BY DEF ListsExact
<1> QED
  BY <1>1, <1>2, <1>3, SpecInv, IndexCorrect, InitTold, PTL DEF Spec

=============================================================================
