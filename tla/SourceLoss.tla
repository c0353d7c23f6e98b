----------------------------- MODULE SourceLoss -----------------------------
(***************************************************************************)
(* Which sources a receiver calls lost (src/sACN/src/sacn/source_loss.c).  *)
(* When a source goes offline, others may be about to, for the same        *)
(* reason: the receiver waits a while for them, to report them together.   *)
(* A termination set holds the sources that wait for one another.          *)
(*                                                                         *)
(* A set is a record: the units left of its wait_period, and for each of   *)
(* its sources whether it is offline and whether it said so itself.  The   *)
(* operators below are the functions of the file, on the sets of one       *)
(* receiver: in the code a list, whose order nothing depends on.  A        *)
(* receiver has a universe to itself, so that the file's tree of all       *)
(* sources by universe is the sources of these sets.                       *)
(***************************************************************************)
EXTENDS Integers, Functions

TermSetSources(handles) == [handles -> [offline : BOOLEAN, terminated : BOOLEAN]]

(* find_existing_ts_src, for all handles.                                   *)
Waiting(term_sets) == UNION {DOMAIN set.sources : set \in term_sets}

(* mark_sources_offline: a source of a set becomes offline there; any other *)
(* gets a set of its own, the first of which takes in the sources of        *)
(* unknown status.  offline maps the sources to whether they terminated.    *)
Offline(terminated) == [offline |-> TRUE, terminated |-> terminated]
Undecided == [offline |-> FALSE, terminated |-> FALSE]

MarkedOffline(set, offline) ==
    [set EXCEPT !.sources = [h \in DOMAIN @ |->
        IF h \in DOMAIN offline /\ ~@[h].offline THEN Offline(offline[h]) ELSE @[h]]]

NewTermSet(h, terminated, peers, expired_wait) ==
    [wait_period |-> expired_wait,
     sources |-> [x \in {h} \cup peers |-> IF x = h THEN Offline(terminated) ELSE Undecided]]

mark_sources_offline(term_sets, offline, unknown, expired_wait) ==
    LET fresh == DOMAIN offline \ Waiting(term_sets)
        undecided == unknown \ Waiting(term_sets)
        IsFirst(h) == \A x \in fresh : h <= x IN
    {MarkedOffline(set, offline) : set \in term_sets}
      \cup {NewTermSet(h, offline[h], IF IsFirst(h) THEN undecided ELSE {}, expired_wait) :
              h \in fresh}

(* mark_sources_online: they leave their sets, and a set left empty goes.   *)
HasSources(set) == DOMAIN set.sources # {}

MarkedOnline(set, online) == [set EXCEPT !.sources = Restrict(@, DOMAIN @ \ online)]

mark_sources_online(term_sets, online) ==
    {set \in {MarkedOnline(set, online) : set \in term_sets} : HasSources(set)}

(* A set is over when it waited long enough and nobody is left to wait for. *)
Expired(set) ==
    set.wait_period = 0 /\ \A h \in DOMAIN set.sources : set.sources[h].offline

(* get_expired_sources: the lost sources, and the sets that stay.           *)
ExpiredSources(term_sets) ==
    UNION {DOMAIN set.sources : set \in {set \in term_sets : Expired(set)}}

get_expired_sources(term_sets) ==
    [lost |-> [h \in ExpiredSources(term_sets) |->
                 (CHOOSE set \in term_sets : h \in DOMAIN set.sources).sources[h].terminated],
     term_sets |-> {set \in term_sets : ~Expired(set)}]
=============================================================================
