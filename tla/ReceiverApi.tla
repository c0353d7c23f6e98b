---------------------------- MODULE ReceiverApi ----------------------------
(***************************************************************************)
(* What an sACN receiver promises to the application whose callbacks it    *)
(* calls (src/sACN/include/sacn/receiver.h), whoever that is: SacnReceiver *)
(* implements it, and MergeReceiver, the library's own user of receivers,  *)
(* is built on all of it, the moves at the end included.                   *)
(***************************************************************************)
EXTENDS Naturals, FiniteSets

CONSTANTS
    Handles,      \* of the sources on the network
    Previewers,   \* those whose data may be a preview, which is filtered out
    MaxSources    \* source_count_max

ASSUME ApiAssumption == Previewers \subseteq Handles /\ MaxSources \in Nat

(* What the application was told of the universe.  known: the sources whose *)
(* levels or priorities it got, pap: those whose priorities are current,    *)
(* sampled: those whose data was given as part of a sampling period that is *)
(* not over, sampling: between started and ended.                           *)
VARIABLE told

NothingToldYet == [known |-> {}, pap |-> {}, sampled |-> {}, sampling |-> FALSE]

ApiInit == told = NothingToldYet

(* Data of source h arrives.  Whether it is sampled is settled by its first *)
(* and holds until the period ends or the source is lost.                   *)
IsNew(h) == h \notin told.known /\ Cardinality(told.known) < MaxSources
Sampled(h, sampled) == h \in told.known => (sampled <=> h \in told.sampled)

WithData(h, sampled) ==
    [told EXCEPT !.known = @ \cup {h},
                 !.sampled = IF sampled THEN @ \cup {h} ELSE @ \ {h}]

ApiLevels(h, sampled) ==
    /\ h \in told.known \/ IsNew(h)
    /\ Sampled(h, sampled)
    /\ told' = WithData(h, sampled)

ApiPriorities(h, sampled) ==
    /\ h \in told.known \/ IsNew(h)
    /\ Sampled(h, sampled)
    /\ told' = [WithData(h, sampled) EXCEPT !.pap = @ \cup {h}]

ApiPapLost(h) ==
    /\ h \in told.pap \cup Previewers
    /\ told' = [told EXCEPT !.pap = @ \ {h}]

ApiSourcesLost(lost) ==
    /\ lost # {} /\ lost \subseteq told.known \cup Previewers
    /\ told' = [told EXCEPT !.known = @ \ lost, !.pap = @ \ lost, !.sampled = @ \ lost]

(* A receive thread that was held up for a whole period tells its end       *)
(* first, then its start.                                                   *)
ApiSamplingStarted == told' = [told EXCEPT !.sampling = TRUE]

ApiSamplingEnded == told' = [told EXCEPT !.sampling = FALSE, !.sampled = {}]

(* The application changes the universe, destroys the receiver, or has to.  *)
ApiForget == told' = NothingToldYet

(* A source that is heard on a second interface may move to it while there  *)
(* is a sampling period, and out of what is sampled or into it.             *)
ApiLevelsMove(h, sampled) ==
    /\ h \in told.known
    /\ told' = WithData(h, sampled)

ApiPrioritiesMove(h, sampled) ==
    /\ h \in told.known
    /\ told' = [WithData(h, sampled) EXCEPT !.pap = @ \cup {h}]

ApiNext ==
    \/ \E h \in Handles :
          \/ \E sampled \in BOOLEAN : ApiLevels(h, sampled) \/ ApiPriorities(h, sampled)
          \/ ApiPapLost(h)
    \/ \E lost \in SUBSET Handles : ApiSourcesLost(lost)
    \/ ApiSamplingStarted \/ ApiSamplingEnded \/ ApiForget
=============================================================================
