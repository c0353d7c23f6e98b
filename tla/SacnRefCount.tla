--------------------------- MODULE SacnRefCount ---------------------------
(***************************************************************************)
(* The sACN library shared by all DMX objects: sacn_global_init(),         *)
(* sacn_global_deinit() and the paths of init_sACN(), deinit_sACN() and    *)
(* send() around them (src/DMX.cpp), on top of SacnLibrary.  Every object  *)
(* may be used by a thread of its own.                                     *)
(*                                                                         *)
(* RefCountInit, RefCountNext, ...: SacnSharedProofs extends this module   *)
(* and SacnSockets.                                                        *)
(***************************************************************************)
EXTENDS Integers, FiniteSets

CONSTANTS
    Objects,   \* the DMX objects
    NoObject   \* the owner of a free mutex

ASSUME ObjectsAssumption == IsFiniteSet(Objects) /\ NoObject \notin Objects

VARIABLES
    sacn_ref_count,
    sacn_global_mutex,   \* its owner
    counts, up,          \* the library
    pc                   \* how far each object is with sACN

refCountVars == <<sacn_ref_count, sacn_global_mutex, counts, up, pc>>

(* sacn::Init() and sacn::Deinit() are for all features.                    *)
FEATURES_ALL == {"network", "merger"}

(* Has the library been initialized, and not yet deinitialized?             *)
Initialized == sacn_ref_count > 0 \/ \E o \in Objects : pc[o] = "closing"

(* The objects together are a client of the library with at most one        *)
(* initialization outstanding.                                              *)
Library == INSTANCE SacnLibrary WITH
    MaxOutstanding <- 1,
    outstanding <- [F \in (SUBSET FEATURES_ALL) \ {{}} |->
                      IF F = FEATURES_ALL /\ Initialized THEN 1 ELSE 0]

RefCountInit ==
    /\ sacn_ref_count = 0
    /\ sacn_global_mutex = NoObject
    /\ counts = [f \in FEATURES_ALL |-> 0]
    /\ up = {}
    /\ pc = [o \in Objects |-> "down"]

(* std::lock_guard.                                                         *)
Lock(o) == sacn_global_mutex = NoObject /\ sacn_global_mutex' = o
Unlock == sacn_global_mutex' = NoObject

FirstHolder == sacn_ref_count = 0

(* sacn_global_init, entered.                                               *)
EnterInit(o) ==
    /\ pc[o] = "down"
    /\ Lock(o)
    /\ pc' = [pc EXCEPT ![o] = "initializing"]
    /\ UNCHANGED <<sacn_ref_count, counts, up>>

LeaveInit(o) ==
    /\ pc[o] = "initializing"
    /\ IF FirstHolder THEN Library!InitFeatures(FEATURES_ALL)
       ELSE UNCHANGED <<counts, up>>
    /\ sacn_ref_count' = sacn_ref_count + 1
    /\ Unlock
    /\ pc' = [pc EXCEPT ![o] = "starting"]

InitFails(o) ==
    /\ pc[o] = "initializing"
    /\ FirstHolder /\ Library!InitFeaturesFails(FEATURES_ALL)
    /\ Unlock
    /\ pc' = [pc EXCEPT ![o] = "down"]
    /\ UNCHANGED sacn_ref_count

Goes(o, from, to) ==
    /\ pc[o] = from /\ pc' = [pc EXCEPT ![o] = to]
    /\ UNCHANGED <<sacn_ref_count, sacn_global_mutex, counts, up>>

JustDown == "down"       \* mutant: a failed start keeps its reference

AfterFailedStart == "releasing"

(* The source starts and gets its universes, or something fails.            *)
Start(o) == Goes(o, "starting", "up")
StartFails(o) == Goes(o, "starting", AfterFailedStart)

(* A call of the library by send(), addUniverse(), priority(), ...          *)
Use(o) == Goes(o, "up", "calling")
Used(o) == Goes(o, "calling", "up")

(* deinit_sACN shuts the source down.                                       *)
Shutdown(o) == Goes(o, "up", "releasing")

AnyHolder == TRUE   \* mutant: every object deinitializes the library

LastHolder == sacn_ref_count = 1

(* sacn_global_deinit.  The last holder keeps the mutex while sacn::Deinit  *)
(* waits for the library's threads.                                         *)
EnterDeinit(o) ==
    /\ pc[o] = "releasing" /\ sacn_ref_count > 0
    /\ Lock(o)
    /\ sacn_ref_count' = sacn_ref_count - 1
    /\ pc' = [pc EXCEPT ![o] = IF LastHolder THEN "closing" ELSE "leaving"]
    /\ UNCHANGED <<counts, up>>

Close(o) ==
    /\ pc[o] = "closing"
    /\ Library!DeinitFeatures(FEATURES_ALL)
    /\ pc' = [pc EXCEPT ![o] = "leaving"]
    /\ UNCHANGED <<sacn_ref_count, sacn_global_mutex>>

LeaveDeinit(o) ==
    /\ pc[o] = "leaving"
    /\ Unlock
    /\ pc' = [pc EXCEPT ![o] = "down"]
    /\ UNCHANGED <<sacn_ref_count, counts, up>>

RefCountNext ==
    \E o \in Objects :
        \/ EnterInit(o) \/ LeaveInit(o) \/ InitFails(o)
        \/ Start(o) \/ StartFails(o) \/ Use(o) \/ Used(o) \/ Shutdown(o)
        \/ EnterDeinit(o) \/ Close(o) \/ LeaveDeinit(o)

RefCountSpec == RefCountInit /\ [][RefCountNext]_refCountVars

-----------------------------------------------------------------------------

Holding == {"starting", "up", "calling", "releasing"}

Inside == {"initializing", "closing", "leaving"}

(* The type invariant.  The library never sees a second initialization.     *)
RefCountTypeOK ==
    /\ sacn_ref_count \in Nat
    /\ sacn_global_mutex \in Objects \cup {NoObject}
    /\ counts \in [FEATURES_ALL -> 0 .. 1]
    /\ up \subseteq FEATURES_ALL
    /\ pc \in [Objects -> Holding \cup Inside \cup {"down"}]

(* sacn_ref_count counts the objects between their sacn_global_init() and   *)
(* their sacn_global_deinit(), also those whose start has failed.           *)
RefCountExact == sacn_ref_count = Cardinality({o \in Objects : pc[o] \in Holding})

(* Whatever the other objects do, the library is up as long as an object    *)
(* starts, calls or shuts down its source: sacn::Deinit never runs beside   *)
(* another call of the library.                                             *)
UpForUsers ==
    \A o \in Objects : pc[o] \in Holding =>
        up = FEATURES_ALL /\ \A other \in Objects : pc[other] # "closing"

(* When the last object is through, the library is down, its threads gone.  *)
DownWhenUnused == (\A o \in Objects : pc[o] = "down") => up = {}

(* The count is exact and holds the library up for whoever needs it, and for*)
(* nobody else.                                                             *)
LibraryHeld == RefCountTypeOK /\ RefCountExact /\ UpForUsers /\ DownWhenUnused

(* Together the objects use the library as it asks for: they deinitialize   *)
(* it exactly as often as they initialize it, and never initialize it twice, *)
(* which its deinitialization would not undo.                               *)
LibraryUsedProperly == [][Library!Next]_(Library!vars)
=============================================================================
