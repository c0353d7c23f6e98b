-------------------------- MODULE SacnSharedProofs --------------------------
(***************************************************************************)
(* What is shared in sACN.  SacnSockets: receivers and the source detector *)
(* share sockets.  The sockets open are those in use and those waiting to  *)
(* be closed, one of a type is bound and polled, and the groups joined are *)
(* exactly those asked for.  SacnRefCount: DMX objects share the library,  *)
(* which is up while one of them uses it.                                  *)
(*                                                                         *)
(* The loops of the code are folds over sets and sequences; that a loop    *)
(* does what its rounds do one after the other is proved once, in the part *)
(* on loops, and the rounds are then gone through by subsets or prefixes.  *)
(***************************************************************************)
EXTENDS SacnSockets, SacnRefCount, FiniteSetTheorems, SequenceTheorems,
        WellFoundedInduction, TLAPS

-----------------------------------------------------------------------------
(* The parts of the invariant, of a state c of the sockets on its way from  *)
(* one call to the next: gone are the sockets that are no longer in use and *)
(* not closed yet, lis the receivers with the sockets they have by then.    *)

Fields ==
    {"running", "poll_context_initialized", "socket_refs", "new_socket_refs", "bound",
     "subscribes", "unsubscribes", "dead_sockets", "open", "polled", "deinit_signal"}

HasFields(c) == DOMAIN c = Fields /\ c = [f \in Fields |-> c[f]]

Ref == [socket : Socket, refcount : 1 .. MaxSubs, pending : BOOLEAN]

Those(c) == DOMAIN c.socket_refs
Nth(c, i) == c.socket_refs[i].socket

IsContext(c) ==
    /\ HasFields(c)
    /\ c.socket_refs \in Seq(Ref)
    /\ c.new_socket_refs \in 0 .. Len(c.socket_refs)
    /\ c.bound \subseteq IpTypes
    /\ DOMAIN c.open \subseteq Sockets
    /\ c.polled \subseteq DOMAIN c.open

(* A socket is in use or gone, and only these are open.                     *)
HandlesKept(c, gone) ==
    /\ gone \subseteq Socket
    /\ \A i, j \in Those(c) : Nth(c, i).handle = Nth(c, j).handle => i = j
    /\ \A a, b \in gone : a.handle = b.handle => a = b
    /\ \A i \in Those(c), a \in gone : Nth(c, i).handle # a.handle
    /\ DOMAIN c.open = {Nth(c, i).handle : i \in Those(c)} \cup {a.handle : a \in gone}

IsListeners(lis) == IsFiniteSet(DOMAIN lis) /\ lis \in [DOMAIN lis -> Listener]

Users(lis, t, s) == {h \in DOMAIN lis : lis[h].sockets[t] = s}

Put(lis, h, t, s) == [lis EXCEPT ![h].sockets[t] = s]

Counted(c, lis) ==
    /\ \A i \in Those(c) :
          c.socket_refs[i].refcount = Cardinality(Users(lis, Nth(c, i).ip_type, Nth(c, i).handle))
    /\ \A h \in DOMAIN lis, t \in IpTypes :
          lis[h].sockets[t] # NoSocket =>
              \E i \in Those(c) : Nth(c, i).handle = lis[h].sockets[t] /\ Nth(c, i).ip_type = t

PendingLast(c) ==
    \A i \in Those(c) :
        c.socket_refs[i].pending <=> i > Len(c.socket_refs) - c.new_socket_refs

(* One socket of a type is bound, or one that was is waiting to be closed.  *)
OneBound(c, gone) ==
    /\ \A i, j \in Those(c) :
          Nth(c, i).bound /\ Nth(c, j).bound /\ Nth(c, i).ip_type = Nth(c, j).ip_type => i = j
    /\ \A t \in IpTypes : t \in c.bound <=> \E i \in Those(c) : Nth(c, i).bound /\ Nth(c, i).ip_type = t
    /\ \A i \in Those(c) :
          Nth(c, i).ip_type \notin c.bound =>
              \E a \in gone : a.bound /\ a.ip_type = Nth(c, i).ip_type

Polls(c, broken) ==
    c.poll_context_initialized /\ ~broken =>
        \A i \in Those(c) :
            Nth(c, i).bound /\ ~c.socket_refs[i].pending => Nth(c, i).handle \in c.polled

Sound(c, gone, lis, broken) ==
    /\ IsContext(c) /\ HandlesKept(c, gone)
    /\ IsListeners(lis) /\ Counted(c, lis) /\ PendingLast(c)
    /\ OneBound(c, gone) /\ Polls(c, broken)

(* What no call of the sockets changes.                                     *)
SameThread(c, d) ==
    /\ d.running = c.running /\ d.deinit_signal = c.deinit_signal
    /\ d.poll_context_initialized = c.poll_context_initialized

(* These differ only in what is to be joined and left, or is.               *)
SameButRequests(c, d) ==
    /\ HasFields(d) /\ SameThread(c, d)
    /\ d.socket_refs = c.socket_refs /\ d.new_socket_refs = c.new_socket_refs
    /\ d.bound = c.bound /\ d.polled = c.polled /\ d.dead_sockets = c.dead_sockets
    /\ DOMAIN d.open = DOMAIN c.open

(* What is to be joined and left does not matter to the sockets.            *)
LEMMA RequestsKeep ==
    ASSUME NEW c, NEW d, NEW gone, NEW lis, NEW broken, Sound(c, gone, lis, broken),
           SameButRequests(c, d)
    PROVE  Sound(d, gone, lis, broken)
<1>1. IsContext(d)
  BY DEF Sound, SameButRequests, IsContext
<1>2. HandlesKept(d, gone)
  BY DEF Sound, SameButRequests, HandlesKept, Those, Nth
<1>3. Counted(d, lis) /\ PendingLast(d)
  BY DEF Sound, SameButRequests, Counted, PendingLast, Those, Nth
<1>4. OneBound(d, gone)
  BY DEF Sound, SameButRequests, OneBound, Those, Nth
<1>5. Polls(d, broken)
  BY DEF Sound, SameButRequests, Polls, Those, Nth, SameThread
<1> QED
  BY <1>1, <1>2, <1>3, <1>4, <1>5 DEF Sound

-----------------------------------------------------------------------------
(* Sequences, and who uses a socket.                                        *)

(* Where the j-th of what remains was when the i-th was removed.            *)
Was(i, j) == IF j < i THEN j ELSE j + 1

(* A reference is removed from the list, the later ones move up.            *)
LEMMA RemoveAtIs ==
    ASSUME NEW S, NEW s \in Seq(S), NEW i \in 1 .. Len(s)
    PROVE  /\ RemoveAt(s, i) \in Seq(S) /\ Len(RemoveAt(s, i)) = Len(s) - 1
           /\ \A j \in 1 .. Len(s) - 1 : RemoveAt(s, i)[j] = s[Was(i, j)]
<1> DEFINE front == SubSeq(s, 1, i - 1)
           back == SubSeq(s, i + 1, Len(s))
<1>1. front \in Seq(S) /\ Len(front) = i - 1 /\ \A j \in 1 .. i - 1 : front[j] = s[j]
  OBVIOUS
<1>2. back \in Seq(S) /\ Len(back) = Len(s) - i /\ \A j \in 1 .. Len(s) - i : back[j] = s[i + j]
  OBVIOUS
<1>0. Len(s) \in Nat /\ i \in 1 .. Len(s)
  OBVIOUS
<1> HIDE DEF front, back
<1>3. /\ front \o back \in Seq(S) /\ Len(front \o back) = Len(s) - 1
      /\ \A j \in 1 .. Len(s) - 1 : (front \o back)[j] = IF j < i THEN front[j] ELSE back[j - i + 1]
  <2>1. /\ front \o back \in Seq(S) /\ Len(front \o back) = Len(front) + Len(back)
        /\ \A j \in 1 .. Len(front) + Len(back) :
              (front \o back)[j] = IF j <= Len(front) THEN front[j] ELSE back[j - Len(front)]
    BY <1>1, <1>2, ConcatProperties, Zenon
  <2>2. Len(front) + Len(back) = Len(s) - 1
    BY <1>0, <1>1, <1>2
  <2>3. \A j \in 1 .. Len(s) - 1 : (j <= Len(front) <=> j < i) /\ j - Len(front) = j - i + 1
    BY <1>0, <1>1
  <2> QED
    BY <2>1, <2>2, <2>3
<1>4. \A j \in 1 .. Len(s) - 1 : (front \o back)[j] = s[Was(i, j)]
  <2> SUFFICES ASSUME NEW j \in 1 .. Len(s) - 1 PROVE (front \o back)[j] = s[Was(i, j)]
    OBVIOUS
  <2>1. CASE j < i
    BY <2>1, <1>0, <1>1, <1>3 DEF Was
  <2>2. CASE j >= i
    <3>1. (front \o back)[j] = back[j - i + 1] /\ j - i + 1 \in 1 .. Len(s) - i
      BY <2>2, <1>0, <1>3
    <3>2. back[j - i + 1] = s[i + (j - i + 1)] /\ i + (j - i + 1) = j + 1
      BY <3>1, <1>0, <1>2
    <3> QED
      BY <3>1, <3>2, <2>2, <1>0 DEF Was
  <2>3. j < i \/ j >= i
    BY <1>0
  <2> QED
    BY <2>1, <2>2, <2>3, Zenon
<1> QED
  BY <1>3, <1>4 DEF RemoveAt, front, back

(* Those that stay are all but the one removed, each once.                  *)
LEMMA WasIs ==
    ASSUME NEW n \in Nat, NEW i \in 1 .. n
    PROVE  /\ \A j \in 1 .. n - 1 : Was(i, j) \in 1 .. n /\ Was(i, j) # i
           /\ \A j, k \in 1 .. n - 1 : Was(i, j) = Was(i, k) => j = k
           /\ \A k \in 1 .. n : k # i => \E j \in 1 .. n - 1 : Was(i, j) = k
<1>1. \A k \in 1 .. n : k # i => \E j \in 1 .. n - 1 : Was(i, j) = k
  <2> SUFFICES ASSUME NEW k \in 1 .. n, k # i PROVE \E j \in 1 .. n - 1 : Was(i, j) = k
    OBVIOUS
  <2>1. CASE k < i
    BY <2>1 DEF Was
  <2>2. CASE k > i
    <3>1. Was(i, k - 1) = k /\ k - 1 \in 1 .. n - 1
      BY <2>2 DEF Was
    <3> QED
      BY <3>1
  <2> QED
    BY <2>1, <2>2
<1> QED
  BY <1>1 DEF Was

(* The users of a socket can be counted.                                    *)
LEMMA UsersFinite ==
    ASSUME NEW lis, IsListeners(lis), NEW t, NEW s
    PROVE  IsFiniteSet(Users(lis, t, s)) /\ Cardinality(Users(lis, t, s)) \in Nat
<1>1. Users(lis, t, s) \subseteq DOMAIN lis /\ IsFiniteSet(DOMAIN lis)
  BY DEF Users, IsListeners
<1> QED
  BY <1>1, FS_Subset, FS_CardinalityType

(* A listener has another socket, and nothing else is changed.              *)
LEMMA PutIs ==
    ASSUME NEW lis, IsListeners(lis), NEW h \in DOMAIN lis, NEW t \in IpTypes,
           NEW s \in Sockets \cup {NoSocket}
    PROVE  LET new == Put(lis, h, t, s) IN
           /\ IsListeners(new) /\ DOMAIN new = DOMAIN lis
           /\ new[h].sockets[t] = s
           /\ \A g \in DOMAIN lis, u \in IpTypes :
                 g # h \/ u # t => new[g].sockets[u] = lis[g].sockets[u]
           /\ \A g \in DOMAIN lis : /\ new[g].universe = lis[g].universe
                                    /\ new[g].netints = lis[g].netints
                                    /\ new[g].ip_supported = lis[g].ip_supported
BY DEF Put, IsListeners, Listener

(* The users of a socket, and their number, when another gets it or one     *)
(* gives it back.                                                           *)
LEMMA UsersPut ==
    ASSUME NEW lis, IsListeners(lis), NEW h \in DOMAIN lis, NEW t \in IpTypes,
           NEW s \in Sockets \cup {NoSocket}, NEW u \in IpTypes, NEW x
    PROVE  LET new == Put(lis, h, t, s)
               before == Cardinality(Users(lis, u, x))
               after == Cardinality(Users(new, u, x)) IN
           /\ u # t => after = before
           /\ lis[h].sockets[t] # x /\ s # x => after = before
           /\ lis[h].sockets[t] # x /\ s = x /\ u = t => after = before + 1
           /\ lis[h].sockets[t] = x /\ s # x /\ u = t => after = before - 1
<1> DEFINE new == Put(lis, h, t, s)
<1>1. /\ DOMAIN new = DOMAIN lis /\ new[h].sockets[t] = s
      /\ \A g \in DOMAIN lis, w \in IpTypes : g # h \/ w # t => new[g].sockets[w] = lis[g].sockets[w]
  BY PutIs
<1> HIDE DEF new
<1>2. u # t \/ (lis[h].sockets[t] # x /\ s # x) => Users(new, u, x) = Users(lis, u, x)
  BY <1>1 DEF Users
<1>3. lis[h].sockets[t] # x /\ s = x /\ u = t =>
          Users(new, u, x) = Users(lis, u, x) \cup {h} /\ h \notin Users(lis, u, x)
  BY <1>1 DEF Users
<1>4. lis[h].sockets[t] = x /\ s # x /\ u = t =>
          Users(new, u, x) = Users(lis, u, x) \ {h} /\ h \in Users(lis, u, x)
  BY <1>1 DEF Users
<1>5. IsFiniteSet(Users(lis, u, x))
  BY UsersFinite
<1>6. /\ lis[h].sockets[t] # x /\ s = x /\ u = t =>
           Cardinality(Users(new, u, x)) = Cardinality(Users(lis, u, x)) + 1
  BY <1>3, <1>5, FS_AddElement
<1>7. /\ lis[h].sockets[t] = x /\ s # x /\ u = t =>
           Cardinality(Users(new, u, x)) = Cardinality(Users(lis, u, x)) - 1
  BY <1>4, <1>5, FS_RemoveElement
<1> QED
  BY <1>2, <1>6, <1>7 DEF new

-----------------------------------------------------------------------------
(* A socket is given back.                                                  *)

(* The socket of a handle is the one there is.                              *)
LEMMA FoundByHandle ==
    ASSUME NEW c, NEW gone, IsContext(c), HandlesKept(c, gone), NEW i \in Those(c)
    PROVE  find_socket_ref_by_handle(c, Nth(c, i).handle) = i
<1>1. {j \in DOMAIN c.socket_refs : c.socket_refs[j].socket.handle = Nth(c, i).handle} = {i}
  BY DEF HandlesKept, Those, Nth
<1>2. Least({i}) = i
  BY DEF Least, Those, IsContext
<1> QED
  BY <1>1, <1>2 DEF find_socket_ref_by_handle, FirstRef

(* What is in the list of references.                                       *)
LEMMA RefTyped ==
    ASSUME NEW c, IsContext(c)
    PROVE  /\ Those(c) = 1 .. Len(c.socket_refs) /\ Len(c.socket_refs) \in Nat
           /\ \A i \in Those(c) : /\ c.socket_refs[i] \in Ref /\ Nth(c, i) \in Socket
                                  /\ Nth(c, i).handle \in Sockets /\ Nth(c, i).ip_type \in IpTypes
                                  /\ Nth(c, i).handle # NoSocket
<1>1. c.socket_refs \in Seq(Ref)
  BY DEF IsContext
<1>2. /\ Those(c) = 1 .. Len(c.socket_refs) /\ Len(c.socket_refs) \in Nat
      /\ \A i \in Those(c) : c.socket_refs[i] \in Ref
  BY <1>1, LenProperties DEF Those
<1>3. \A ref \in Ref : ref.socket \in Socket /\ ref.socket.handle \in Sockets
          /\ ref.socket.ip_type \in IpTypes
  BY DEF Ref, Socket
<1> QED
  BY <1>2, <1>3, SocketsAssumption DEF Nth

(* One receiver less has it, others remain.                                 *)
LEMMA OneUserLess ==
    ASSUME NEW c, NEW gone, NEW lis, NEW broken, Sound(c, gone, lis, broken),
           NEW i \in Those(c), NEW h \in DOMAIN lis,
           lis[h].sockets[Nth(c, i).ip_type] = Nth(c, i).handle,
           c.socket_refs[i].refcount > 1
    PROVE  /\ Sound(remove_socket_ref(c, i), gone, Put(lis, h, Nth(c, i).ip_type, NoSocket), broken)
           /\ SameThread(c, remove_socket_ref(c, i))
<1> DEFINE t == Nth(c, i).ip_type
           d == [c EXCEPT !.socket_refs[i].refcount = @ - 1]
           new == Put(lis, h, t, NoSocket)
<1>1. d = remove_socket_ref(c, i)
  BY DEF remove_socket_ref
<1>2. /\ HasFields(d) /\ SameThread(c, d)
      /\ d.new_socket_refs = c.new_socket_refs /\ d.bound = c.bound /\ d.open = c.open
      /\ d.polled = c.polled
      /\ d.socket_refs = [c.socket_refs EXCEPT ![i].refcount = @ - 1]
  BY DEF Sound, IsContext, HasFields, Fields, SameThread
<1>3. /\ Those(c) = 1 .. Len(c.socket_refs) /\ t \in IpTypes
      /\ \A j \in Those(c) : c.socket_refs[j] \in Ref /\ Nth(c, j).ip_type \in IpTypes
           /\ Nth(c, j).handle # NoSocket
  BY RefTyped DEF Sound
<1>4. /\ d.socket_refs \in Seq(Ref) /\ Len(d.socket_refs) = Len(c.socket_refs) /\ Those(d) = Those(c)
      /\ \A j \in Those(c) : /\ Nth(d, j) = Nth(c, j)
                             /\ d.socket_refs[j].pending = c.socket_refs[j].pending
                             /\ d.socket_refs[j].refcount = IF j = i THEN c.socket_refs[i].refcount - 1
                                                            ELSE c.socket_refs[j].refcount
  <2>1. c.socket_refs[i] \in Ref /\ c.socket_refs \in Seq(Ref)
    BY <1>3 DEF Sound, IsContext
  <2>2. [c.socket_refs[i] EXCEPT !.refcount = @ - 1] \in Ref
    <3>1. c.socket_refs[i].refcount \in 1 .. MaxSubs /\ MaxSubs \in Nat
      BY <2>1, SocketsAssumption DEF Ref
    <3>2. c.socket_refs[i].refcount - 1 \in 1 .. MaxSubs
      BY <3>1
    <3> QED
      BY <2>1, <3>2 DEF Ref
  <2>3. d.socket_refs = [c.socket_refs EXCEPT ![i] = [c.socket_refs[i] EXCEPT !.refcount = @ - 1]]
    BY <1>2
  <2>4. i \in 1 .. Len(c.socket_refs)
    BY <1>3
  <2>5. /\ d.socket_refs \in Seq(Ref) /\ Len(d.socket_refs) = Len(c.socket_refs)
        /\ \A j \in 1 .. Len(c.socket_refs) :
              d.socket_refs[j] = IF j = i THEN [c.socket_refs[i] EXCEPT !.refcount = @ - 1]
                ELSE c.socket_refs[j]
    BY <2>1, <2>2, <2>3, <2>4, ExceptSeq
  <2>6. Those(d) = Those(c)
    BY <2>5, <1>3, LenProperties DEF Those
  <2> QED
    BY <1>3, <2>1, <2>5, <2>6 DEF Nth, Ref
<1> HIDE DEF d
<1>5. IsContext(d)
  BY <1>2, <1>4 DEF Sound, IsContext
<1>6. HandlesKept(d, gone)
  BY <1>2, <1>4 DEF Sound, HandlesKept
<1>7. PendingLast(d)
  BY <1>2, <1>4 DEF Sound, PendingLast
<1>8. OneBound(d, gone) /\ Polls(d, broken)
  BY <1>2, <1>4 DEF Sound, OneBound, Polls, SameThread
<1>9. IsListeners(lis) /\ Counted(c, lis) /\ HandlesKept(c, gone)
  BY DEF Sound
<1>10. IsListeners(new) /\ Counted(d, new)
  <2>1. /\ IsListeners(new) /\ DOMAIN new = DOMAIN lis /\ new[h].sockets[t] = NoSocket
        /\ \A g \in DOMAIN lis, u \in IpTypes : g # h \/ u # t => new[g].sockets[u] = lis[g].sockets[u]
    BY <1>3, <1>9, PutIs
  <2>2. ASSUME NEW j \in Those(d)
        PROVE  d.socket_refs[j].refcount = Cardinality(Users(new, Nth(d, j).ip_type, Nth(d, j).handle))
    <3>1. j \in Those(c) /\ Nth(d, j) = Nth(c, j) /\ Nth(c, j).ip_type \in IpTypes
              /\ Nth(c, j).handle # NoSocket
      BY <2>2, <1>3, <1>4
    <3>2. c.socket_refs[j].refcount = Cardinality(Users(lis, Nth(c, j).ip_type, Nth(c, j).handle))
      BY <3>1, <1>9 DEF Counted
    <3>3. CASE j = i
      BY <3>1, <3>2, <3>3, <1>3, <1>4, <1>9, UsersPut
    <3>4. CASE j # i
      <4>1. Nth(c, j).handle # Nth(c, i).handle
        BY <3>1, <3>4, <1>9 DEF HandlesKept
      <4>2. Cardinality(Users(new, Nth(c, j).ip_type, Nth(c, j).handle))
              = Cardinality(Users(lis, Nth(c, j).ip_type, Nth(c, j).handle))
        BY <3>1, <4>1, <1>3, <1>9, UsersPut
      <4> QED
        BY <3>1, <3>2, <3>4, <4>2, <1>4
    <3> QED
      BY <3>3, <3>4
  <2> HIDE DEF new
  <2>3. ASSUME NEW g \in DOMAIN new, NEW u \in IpTypes, new[g].sockets[u] # NoSocket
        PROVE  \E j \in Those(d) : Nth(d, j).handle = new[g].sockets[u] /\ Nth(d, j).ip_type = u
    BY <2>1, <2>3, <1>4, <1>9 DEF Counted
  <2> QED
    BY <2>1, <2>2, <2>3 DEF Counted
<1> QED
  BY <1>1, <1>2, <1>5, <1>6, <1>7, <1>8, <1>10 DEF Sound

(* The last receiver that has it gives it back: it is gone from the list.   *)
LEMMA LastUserLess ==
    ASSUME NEW c, NEW gone, NEW lis, NEW broken, Sound(c, gone, lis, broken),
           NEW i \in Those(c), NEW h \in DOMAIN lis,
           lis[h].sockets[Nth(c, i).ip_type] = Nth(c, i).handle,
           ~(c.socket_refs[i].refcount > 1)
    PROVE  LET d == remove_socket_ref(c, i) IN
           /\ Sound(d, gone \cup {Nth(c, i)}, Put(lis, h, Nth(c, i).ip_type, NoSocket), broken)
           /\ SameThread(c, d)
<1> DEFINE n == Len(c.socket_refs)
           socket == Nth(c, i)
           t == socket.ip_type
           new == Put(lis, h, t, NoSocket)
           d == remove_socket_ref(c, i)
           pending == c.socket_refs[i].pending
           more == gone \cup {socket}
<1>1. d = [c EXCEPT !.socket_refs = RemoveAt(@, i),
                    !.new_socket_refs = IF pending THEN @ - 1 ELSE @,
                    !.bound = IF socket.bound THEN @ \ {t} ELSE @]
  BY DEF remove_socket_ref, Nth
<1>2. /\ HasFields(d) /\ SameThread(c, d) /\ d.open = c.open /\ d.polled = c.polled
      /\ d.new_socket_refs = IF pending THEN c.new_socket_refs - 1 ELSE c.new_socket_refs
      /\ d.bound = IF socket.bound THEN c.bound \ {t} ELSE c.bound
      /\ d.socket_refs = RemoveAt(c.socket_refs, i)
  BY <1>1 DEF Sound, IsContext, HasFields, Fields, SameThread
<1>3. /\ Those(c) = 1 .. n /\ n \in Nat /\ t \in IpTypes /\ socket \in Socket
      /\ \A j \in Those(c) : /\ c.socket_refs[j] \in Ref /\ Nth(c, j) \in Socket
                             /\ Nth(c, j).ip_type \in IpTypes /\ Nth(c, j).handle # NoSocket
  BY RefTyped DEF Sound
<1>4. c.socket_refs \in Seq(Ref) /\ c.new_socket_refs \in 0 .. n /\ c.bound \subseteq IpTypes
  BY DEF Sound, IsContext
<1>5. /\ d.socket_refs \in Seq(Ref) /\ Len(d.socket_refs) = n - 1 /\ Those(d) = 1 .. n - 1
      /\ \A j \in 1 .. n - 1 : d.socket_refs[j] = c.socket_refs[Was(i, j)]
  <2>1. i \in 1 .. Len(c.socket_refs)
    BY <1>3
  <2>2. /\ d.socket_refs \in Seq(Ref) /\ Len(d.socket_refs) = n - 1
        /\ \A j \in 1 .. n - 1 : d.socket_refs[j] = c.socket_refs[Was(i, j)]
    <3> DEFINE s == RemoveAt(c.socket_refs, i)
    <3>1. /\ s \in Seq(Ref) /\ Len(s) = n - 1
          /\ \A j \in 1 .. n - 1 : s[j] = c.socket_refs[Was(i, j)]
      BY <1>4, <2>1, RemoveAtIs
    <3>2. d.socket_refs = s
      BY <1>2
    <3> QED
      BY <3>1, <3>2
  <2> QED
    BY <2>2, LenProperties DEF Those
<1>6. /\ \A j \in Those(d) : Was(i, j) \in Those(c) /\ Was(i, j) # i
      /\ \A j, k \in Those(d) : Was(i, j) = Was(i, k) => j = k
      /\ \A k \in Those(c) : k # i => \E j \in Those(d) : Was(i, j) = k
  <2>1. n \in Nat /\ i \in 1 .. n
    BY <1>3
  <2>2. Those(d) = 1 .. n - 1 /\ Those(c) = 1 .. n
    BY <1>3, <1>5
  <2> HIDE DEF n
  <2>3. /\ \A j \in 1 .. n - 1 : Was(i, j) \in 1 .. n /\ Was(i, j) # i
        /\ \A j, k \in 1 .. n - 1 : Was(i, j) = Was(i, k) => j = k
        /\ \A k \in 1 .. n : k # i => \E j \in 1 .. n - 1 : Was(i, j) = k
    BY <2>1, WasIs
  <2> QED
    BY <2>2, <2>3, Zenon
<1>7. \A j \in Those(d) : d.socket_refs[j] = c.socket_refs[Was(i, j)] /\ Nth(d, j) = Nth(c, Was(i, j))
  BY <1>5 DEF Nth
<1>8. IsListeners(lis) /\ Counted(c, lis) /\ HandlesKept(c, gone) /\ PendingLast(c)
      /\ OneBound(c, gone) /\ Polls(c, broken) /\ IsContext(c)
  BY DEF Sound
<1> HIDE DEF d
<1>9. /\ d.new_socket_refs \in 0 .. n - 1 /\ PendingLast(d)
  <2>1. pending <=> i > n - c.new_socket_refs
    BY <1>8 DEF PendingLast
  <2>2. i \in 1 .. n
    BY <1>3
  <2>3. d.new_socket_refs \in 0 .. n - 1
    BY <1>2, <1>3, <1>4, <2>1, <2>2
  <2>4. ASSUME NEW j \in Those(d) PROVE d.socket_refs[j].pending <=> j > n - 1 - d.new_socket_refs
    <3>1. d.socket_refs[j].pending <=> Was(i, j) > n - c.new_socket_refs
      BY <2>4, <1>6, <1>7, <1>8 DEF PendingLast
    <3> QED
      BY <3>1, <2>1, <2>2, <1>2, <1>3, <1>4, <1>5 DEF Was
  <2> QED
    BY <2>3, <2>4, <1>5 DEF PendingLast
<1>10. IsContext(d)
  BY <1>2, <1>4, <1>5, <1>8, <1>9 DEF IsContext
<1>11. HandlesKept(d, more)
  <2>1. {Nth(d, j).handle : j \in Those(d)} \cup {socket.handle} = {Nth(c, j).handle : j \in Those(c)}
    BY <1>6, <1>7
  <2>2. \A j \in Those(d), a \in more : Nth(d, j).handle # a.handle
    BY <1>6, <1>7, <1>8 DEF HandlesKept
  <2>3. \A j, k \in Those(d) : Nth(d, j).handle = Nth(d, k).handle => j = k
    BY <1>6, <1>7, <1>8 DEF HandlesKept
  <2>4. \A a, b \in more : a.handle = b.handle => a = b
    BY <1>8 DEF HandlesKept
  <2>5. DOMAIN d.open = {Nth(d, j).handle : j \in Those(d)} \cup {a.handle : a \in more}
    BY <2>1, <1>2, <1>8 DEF HandlesKept
  <2> QED
    BY <2>2, <2>3, <2>4, <2>5, <1>3, <1>8 DEF HandlesKept
<1>12. IsListeners(new) /\ Counted(d, new)
  <2>1. /\ IsListeners(new) /\ DOMAIN new = DOMAIN lis /\ new[h].sockets[t] = NoSocket
        /\ \A g \in DOMAIN lis, u \in IpTypes : g # h \/ u # t => new[g].sockets[u] = lis[g].sockets[u]
    BY <1>3, <1>8, PutIs
  <2>2. ASSUME NEW j \in Those(d)
        PROVE  d.socket_refs[j].refcount = Cardinality(Users(new, Nth(d, j).ip_type, Nth(d, j).handle))
    <3> DEFINE k == Was(i, j)
    <3>1. k \in Those(c) /\ k # i /\ Nth(d, j) = Nth(c, k) /\ Nth(c, k).ip_type \in IpTypes
              /\ Nth(c, k).handle # NoSocket
      BY <2>2, <1>3, <1>6, <1>7
    <3>2. c.socket_refs[k].refcount = Cardinality(Users(lis, Nth(c, k).ip_type, Nth(c, k).handle))
      BY <3>1, <1>8 DEF Counted
    <3>3. Nth(c, k).handle # Nth(c, i).handle
      BY <3>1, <1>8 DEF HandlesKept
    <3>4. Cardinality(Users(new, Nth(c, k).ip_type, Nth(c, k).handle))
            = Cardinality(Users(lis, Nth(c, k).ip_type, Nth(c, k).handle))
      BY <3>1, <3>3, <1>3, <1>8, UsersPut
    <3> QED
      BY <3>1, <3>2, <3>4, <2>2, <1>7
  <2>3. Cardinality(Users(lis, t, socket.handle)) = 1 /\ IsFiniteSet(Users(lis, t, socket.handle))
    <3>1. c.socket_refs[i].refcount = Cardinality(Users(lis, t, socket.handle))
              /\ c.socket_refs[i].refcount \in 1 .. MaxSubs
      BY <1>3, <1>8 DEF Counted, Ref
    <3> QED
      BY <3>1, <1>8, UsersFinite, SocketsAssumption
  <2>4. Users(lis, t, socket.handle) = {h}
    <3>1. h \in Users(lis, t, socket.handle)
      BY DEF Users
    <3> QED
      BY <2>3, <3>1, FS_Singleton
  <2> HIDE DEF new
  <2>5. ASSUME NEW g \in DOMAIN new, NEW u \in IpTypes, new[g].sockets[u] # NoSocket
        PROVE  \E j \in Those(d) : Nth(d, j).handle = new[g].sockets[u] /\ Nth(d, j).ip_type = u
    <3>1. ~(g = h /\ u = t) /\ new[g].sockets[u] = lis[g].sockets[u] /\ g \in DOMAIN lis
      BY <2>1, <2>5
    <3>2. PICK k \in Those(c) : Nth(c, k).handle = lis[g].sockets[u] /\ Nth(c, k).ip_type = u
      BY <2>5, <3>1, <1>8 DEF Counted
    <3>3. k # i
      <4>1. SUFFICES ASSUME k = i PROVE FALSE
        OBVIOUS
      <4>2. u = t /\ g \in Users(lis, t, socket.handle)
        BY <3>1, <3>2, <4>1 DEF Users
      <4> QED
        BY <2>4, <3>1, <4>2
    <3> QED
      BY <3>1, <3>2, <3>3, <1>6, <1>7
  <2> QED
    BY <2>1, <2>2, <2>5 DEF Counted
<1>13. OneBound(d, more)
  <2>1. \A j, k \in Those(d) : Nth(d, j).bound /\ Nth(d, k).bound
            /\ Nth(d, j).ip_type = Nth(d, k).ip_type => j = k
    BY <1>6, <1>7, <1>8 DEF OneBound
  <2>2. ASSUME NEW u \in IpTypes
        PROVE  u \in d.bound <=> \E j \in Those(d) : Nth(d, j).bound /\ Nth(d, j).ip_type = u
    <3>1. u \in c.bound <=> \E k \in Those(c) : Nth(c, k).bound /\ Nth(c, k).ip_type = u
      BY <1>8 DEF OneBound
    <3>2. (\E j \in Those(d) : Nth(d, j).bound /\ Nth(d, j).ip_type = u)
            <=> \E k \in Those(c) : k # i /\ Nth(c, k).bound /\ Nth(c, k).ip_type = u
      BY <1>6, <1>7
    <3>3. socket.bound => \A k \in Those(c) : k # i => ~(Nth(c, k).bound /\ Nth(c, k).ip_type = t)
      BY <1>8 DEF OneBound
    <3> QED
      BY <3>1, <3>2, <3>3, <1>2
  <2>3. ASSUME NEW j \in Those(d), Nth(d, j).ip_type \notin d.bound
        PROVE  \E a \in more : a.bound /\ a.ip_type = Nth(d, j).ip_type
    <3>1. Was(i, j) \in Those(c) /\ Nth(d, j) = Nth(c, Was(i, j))
      BY <2>3, <1>6, <1>7
    <3>2. CASE Nth(d, j).ip_type \in c.bound
      BY <2>3, <3>2, <1>2
    <3>3. CASE Nth(d, j).ip_type \notin c.bound
      BY <3>1, <3>3, <1>8 DEF OneBound
    <3> QED
      BY <3>2, <3>3
  <2> HIDE DEF more
  <2> QED
    BY <2>1, <2>2, <2>3 DEF OneBound
<1>14. Polls(d, broken)
  BY <1>2, <1>6, <1>7, <1>8 DEF Polls, SameThread
<1> QED
  BY <1>2, <1>9, <1>10, <1>11, <1>12, <1>13, <1>14 DEF Sound, d

-----------------------------------------------------------------------------
(* A socket is closed.                                                      *)

(* Numbers have a smallest.                                                 *)
LEMMA SmallestIs ==
    ASSUME NEW S \in SUBSET Nat, S # {}
    PROVE  \E x \in S : \A y \in S : x <= y
<1> DEFINE R == OpToRel(<, Nat)
<1>1. \A x, y \in Nat : <<y, x>> \in R <=> y < x
  BY DEF OpToRel
<1>2. PICK x \in S : \A y \in S : ~(<<y, x>> \in R)
  <2>1. IsWellFoundedOn(R, Nat)
    BY NatLessThanWellFounded
  <2> HIDE DEF R
  <2> QED
    BY <2>1, WFMin
<1> HIDE DEF R
<1>3. \A y \in S : x <= y
  <2> TAKE y \in S
  <2>1. x \in Nat /\ y \in Nat
    OBVIOUS
  <2>2. ~(y < x)
    BY <1>1, <1>2, <2>1
  <2> QED
    BY <2>1, <2>2
<1> QED
  BY <1>3

(* The first reference of a set of them, or 0 where there is none.          *)
LEMMA FirstRefIs ==
    ASSUME NEW n \in Nat, NEW those \in SUBSET (1 .. n)
    PROVE  IF those = {} THEN FirstRef(those) = 0 ELSE FirstRef(those) \in those /\ FirstRef(those) # 0
<1>1. CASE those = {}
  BY <1>1 DEF FirstRef
<1>2. CASE those # {}
  <2>1. PICK x \in those : \A y \in those : x <= y
    BY <1>2, SmallestIs
  <2>4. Least(those) \in those
    BY <2>1 DEF Least
  <2> QED
    BY <1>2, <2>4 DEF FirstRef
<1> QED
  BY <1>1, <1>2

(* These have the same sockets in the same places, bound and polled or not. *)
Alike(c, d) ==
    /\ HasFields(d) /\ SameThread(c, d)
    /\ d.socket_refs \in Seq(Ref) /\ Len(d.socket_refs) = Len(c.socket_refs)
    /\ \A j \in Those(c) :
          /\ Nth(d, j).handle = Nth(c, j).handle /\ Nth(d, j).ip_type = Nth(c, j).ip_type
          /\ d.socket_refs[j].refcount = c.socket_refs[j].refcount
          /\ d.socket_refs[j].pending = c.socket_refs[j].pending
    /\ d.new_socket_refs = c.new_socket_refs /\ d.dead_sockets = c.dead_sockets
    /\ d.open = c.open /\ d.subscribes = c.subscribes /\ d.unsubscribes = c.unsubscribes

(* Sockets that are alike are kept and counted alike.                       *)
LEMMA AlikeKeeps ==
    ASSUME NEW c, NEW d, NEW gone, NEW lis, IsContext(c), HandlesKept(c, gone), Counted(c, lis),
           PendingLast(c), Alike(c, d), d.bound \subseteq IpTypes, d.polled \subseteq DOMAIN c.open
    PROVE  Those(d) = Those(c) /\ IsContext(d) /\ HandlesKept(d, gone) /\ Counted(d, lis)
             /\ PendingLast(d)
<1>1. Those(d) = Those(c)
  BY LenProperties DEF Alike, Those, IsContext
<1>2. IsContext(d)
  BY DEF Alike, IsContext
<1>3. HandlesKept(d, gone)
  BY <1>1 DEF Alike, HandlesKept
<1>4. Counted(d, lis)
  BY <1>1 DEF Alike, Counted
<1>5. PendingLast(d)
  BY <1>1 DEF Alike, PendingLast
<1> QED
  BY <1>1, <1>2, <1>3, <1>4, <1>5

(* One of the sockets in the list changes.                                  *)
LEMMA RefReplaced ==
    ASSUME NEW c, IsContext(c), NEW i \in Those(c), NEW ref \in Ref
    PROVE  LET refs == [c.socket_refs EXCEPT ![i] = ref] IN
           /\ refs \in Seq(Ref) /\ Len(refs) = Len(c.socket_refs) /\ DOMAIN refs = Those(c)
           /\ refs[i] = ref /\ \A j \in Those(c) : j # i => refs[j] = c.socket_refs[j]
<1>1. c.socket_refs \in Seq(Ref) /\ Those(c) = 1 .. Len(c.socket_refs)
  BY RefTyped DEF IsContext
<1>2. i \in 1 .. Len(c.socket_refs)
  BY <1>1
<1> QED
  BY <1>1, <1>2, ExceptSeq, LenProperties

(* A socket is polled, which changes nothing else.                          *)
LEMMA PollAddedIs ==
    ASSUME NEW c, IsContext(c), NEW i \in Those(c)
    PROVE  LET d == poll_add_socket(c, i) IN
           /\ Alike(c, d) /\ d.bound = c.bound
           /\ \A j \in Those(c) : Nth(d, j).bound = Nth(c, j).bound
           /\ d.polled = IF c.poll_context_initialized THEN c.polled \cup {Nth(c, i).handle}
                ELSE c.polled
<1> DEFINE d == poll_add_socket(c, i)
           ref == [c.socket_refs[i] EXCEPT !.socket.polling = TRUE]
<1>1. c.socket_refs[i] \in Ref
  BY RefTyped
<1>2. ref \in Ref
  BY <1>1 DEF Ref, Socket
<1>3. CASE c.poll_context_initialized
  <2>1. d = [c EXCEPT !.polled = @ \cup {Nth(c, i).handle},
                      !.socket_refs[i].socket.polling = TRUE]
    BY <1>3 DEF poll_add_socket, Nth
  <2>2. /\ HasFields(d) /\ SameThread(c, d) /\ d.polled = c.polled \cup {Nth(c, i).handle}
        /\ d.socket_refs = [c.socket_refs EXCEPT ![i].socket.polling = TRUE]
        /\ d.new_socket_refs = c.new_socket_refs /\ d.dead_sockets = c.dead_sockets /\ d.bound = c.bound
        /\ d.open = c.open /\ d.subscribes = c.subscribes /\ d.unsubscribes = c.unsubscribes
    BY <2>1 DEF IsContext, HasFields, Fields, SameThread
  <2>3. d.socket_refs = [c.socket_refs EXCEPT ![i] = ref]
    BY <2>2
  <2> HIDE DEF d
  <2>4. /\ d.socket_refs \in Seq(Ref) /\ Len(d.socket_refs) = Len(c.socket_refs)
        /\ d.socket_refs[i] = ref /\ \A j \in Those(c) : j # i => d.socket_refs[j] = c.socket_refs[j]
    BY <1>2, <2>3, RefReplaced
  <2>5. /\ ref.socket.handle = Nth(c, i).handle /\ ref.socket.ip_type = Nth(c, i).ip_type
        /\ ref.refcount = c.socket_refs[i].refcount /\ ref.pending = c.socket_refs[i].pending
        /\ ref.socket.bound = Nth(c, i).bound
    BY <1>1 DEF Ref, Socket, Nth
  <2> HIDE DEF ref
  <2>6. \A j \in Those(c) :
          /\ Nth(d, j).handle = Nth(c, j).handle /\ Nth(d, j).ip_type = Nth(c, j).ip_type
          /\ Nth(d, j).bound = Nth(c, j).bound
          /\ d.socket_refs[j].refcount = c.socket_refs[j].refcount
          /\ d.socket_refs[j].pending = c.socket_refs[j].pending
    BY <2>4, <2>5 DEF Nth
  <2> QED
    BY <1>3, <2>2, <2>4, <2>6 DEF Alike, d
<1>4. CASE ~c.poll_context_initialized
  BY <1>4 DEF poll_add_socket, Alike, SameThread, IsContext
<1> QED
  BY <1>3, <1>4

(* A socket is marked bound, which changes nothing else.                    *)
LEMMA MarkedIs ==
    ASSUME NEW c, IsContext(c), NEW i \in Those(c)
    PROVE  LET d == mark_socket_ref_bound(c, i) IN
           /\ Alike(c, d) /\ d.bound = c.bound \cup {Nth(c, i).ip_type} /\ d.polled = c.polled
           /\ Nth(d, i).bound /\ \A j \in Those(c) : j # i => Nth(d, j).bound = Nth(c, j).bound
<1> DEFINE d == mark_socket_ref_bound(c, i)
           ref == [c.socket_refs[i] EXCEPT !.socket.bound = TRUE]
<1>1. c.socket_refs[i] \in Ref
  BY RefTyped
<1>2. ref \in Ref
  BY <1>1 DEF Ref, Socket
<1>3. d = [c EXCEPT !.socket_refs[i].socket.bound = TRUE, !.bound = @ \cup {Nth(c, i).ip_type}]
  BY DEF mark_socket_ref_bound, Nth
<1>4. /\ HasFields(d) /\ SameThread(c, d) /\ d.bound = c.bound \cup {Nth(c, i).ip_type}
      /\ d.socket_refs = [c.socket_refs EXCEPT ![i].socket.bound = TRUE]
      /\ d.new_socket_refs = c.new_socket_refs /\ d.dead_sockets = c.dead_sockets
      /\ d.open = c.open /\ d.subscribes = c.subscribes /\ d.unsubscribes = c.unsubscribes
      /\ d.polled = c.polled
  BY <1>3 DEF IsContext, HasFields, Fields, SameThread
<1>5. d.socket_refs = [c.socket_refs EXCEPT ![i] = ref]
  BY <1>4
<1> HIDE DEF d
<1>6. /\ d.socket_refs \in Seq(Ref) /\ Len(d.socket_refs) = Len(c.socket_refs)
      /\ d.socket_refs[i] = ref /\ \A j \in Those(c) : j # i => d.socket_refs[j] = c.socket_refs[j]
  BY <1>2, <1>5, RefReplaced
<1>7. /\ ref.socket.handle = Nth(c, i).handle /\ ref.socket.ip_type = Nth(c, i).ip_type
      /\ ref.refcount = c.socket_refs[i].refcount /\ ref.pending = c.socket_refs[i].pending
      /\ ref.socket.bound
  BY <1>1 DEF Ref, Socket, Nth
<1> HIDE DEF ref
<1>8. \A j \in Those(c) :
        /\ Nth(d, j).handle = Nth(c, j).handle /\ Nth(d, j).ip_type = Nth(c, j).ip_type
        /\ d.socket_refs[j].refcount = c.socket_refs[j].refcount
        /\ d.socket_refs[j].pending = c.socket_refs[j].pending
  BY <1>6, <1>7 DEF Nth
<1>9. Nth(d, i).bound /\ \A j \in Those(c) : j # i => Nth(d, j).bound = Nth(c, j).bound
  BY <1>6, <1>7 DEF Nth
<1> QED
  BY <1>4, <1>6, <1>8, <1>9 DEF Alike, d

(* What was asked for stays.                                                *)
SameRequests(c, d) == d.subscribes = c.subscribes /\ d.unsubscribes = c.unsubscribes

(* A socket that is gone is closed: the references still agree.             *)
LEMMA ClosedIs ==
    ASSUME NEW c, NEW gone, NEW lis, NEW broken, Sound(c, gone, lis, broken),
           NEW socket \in gone
    PROVE  LET d == Closed(c, socket.handle) rest == gone \ {socket} IN
           /\ IsContext(d) /\ HandlesKept(d, rest) /\ Counted(d, lis) /\ PendingLast(d)
           /\ Polls(d, broken)
           /\ SameThread(c, d) /\ SameRequests(c, d) /\ d.dead_sockets = c.dead_sockets
           /\ d.bound = c.bound /\ Those(d) = Those(c) /\ d.socket_refs = c.socket_refs
           /\ d.open = Restrict(c.open, DOMAIN c.open \ {socket.handle})
<1> DEFINE d == Closed(c, socket.handle)
           rest == gone \ {socket}
<1>1. /\ HasFields(d) /\ SameThread(c, d) /\ SameRequests(c, d) /\ d.dead_sockets = c.dead_sockets
      /\ d.socket_refs = c.socket_refs /\ d.new_socket_refs = c.new_socket_refs /\ d.bound = c.bound
      /\ d.open = Restrict(c.open, DOMAIN c.open \ {socket.handle})
      /\ d.polled = c.polled \ {socket.handle}
  BY DEF Closed, Sound, IsContext, HasFields, Fields, SameThread, SameRequests
<1>2. DOMAIN d.open = DOMAIN c.open \ {socket.handle}
  BY <1>1 DEF Restrict
<1> HIDE DEF d
<1>3. IsContext(c) /\ HandlesKept(c, gone) /\ Counted(c, lis) /\ PendingLast(c) /\ Polls(c, broken)
  BY DEF Sound
<1>4. Those(d) = Those(c) /\ \A i \in Those(c) : Nth(d, i) = Nth(c, i)
  BY <1>1 DEF Those, Nth
<1>5. IsContext(d)
  BY <1>1, <1>2, <1>3 DEF IsContext
<1>6. HandlesKept(d, rest)
  <2>1. DOMAIN d.open = {Nth(d, i).handle : i \in Those(d)} \cup {a.handle : a \in rest}
    BY <1>2, <1>3, <1>4 DEF HandlesKept
  <2> QED
    BY <2>1, <1>3, <1>4 DEF HandlesKept
<1>7. Counted(d, lis) /\ PendingLast(d)
  BY <1>1, <1>3, <1>4 DEF Counted, PendingLast
<1>8. Polls(d, broken)
  BY <1>1, <1>3, <1>4 DEF Polls, SameThread, HandlesKept
<1> QED
  BY <1>1, <1>4, <1>5, <1>6, <1>7, <1>8 DEF d

(* What c is after the cleaning up of a socket.                             *)
Cleaned(c, d, gone, socket, lis, broken) ==
    /\ Sound(d, gone \ {socket}, lis, broken)
    /\ SameThread(c, d) /\ SameRequests(c, d) /\ d.dead_sockets = c.dead_sockets
    /\ Len(d.socket_refs) = Len(c.socket_refs) /\ d.new_socket_refs = c.new_socket_refs
    /\ d.open = Restrict(c.open, DOMAIN c.open \ {socket.handle})
    /\ \A j \in Those(c) : d.socket_refs[j].pending = c.socket_refs[j].pending

(* The socket closed, and another bound in its place.                       *)
LEMMA CleanedUpSound ==
    ASSUME NEW c, NEW gone, NEW lis, NEW broken, Sound(c, gone, lis, broken),
           NEW socket \in gone
    PROVE  Cleaned(c, CleanedUp(c, socket), gone, socket, lis, broken)
<1> SUFFICES LET e == CleanedUp(c, socket) IN
             /\ Sound(e, gone \ {socket}, lis, broken)
             /\ SameThread(c, e) /\ SameRequests(c, e) /\ e.dead_sockets = c.dead_sockets
             /\ Len(e.socket_refs) = Len(c.socket_refs) /\ e.new_socket_refs = c.new_socket_refs
             /\ e.open = Restrict(c.open, DOMAIN c.open \ {socket.handle})
             /\ \A j \in Those(c) : e.socket_refs[j].pending = c.socket_refs[j].pending
  BY DEF Cleaned
<1> DEFINE rest == gone \ {socket}
           closed == Closed(c, socket.handle)
           t == socket.ip_type
           i == find_socket_ref_by_type(closed, t)
           marked == mark_socket_ref_bound(closed, i)
           d == CleanedUp(c, socket)
<1>1. /\ IsContext(closed) /\ HandlesKept(closed, rest) /\ Counted(closed, lis) /\ PendingLast(closed)
      /\ Polls(closed, broken)
      /\ SameThread(c, closed) /\ SameRequests(c, closed) /\ closed.dead_sockets = c.dead_sockets
      /\ closed.bound = c.bound /\ Those(closed) = Those(c) /\ closed.socket_refs = c.socket_refs
      /\ closed.open = Restrict(c.open, DOMAIN c.open \ {socket.handle})
  BY ClosedIs
<1>2. d = IF ~socket.bound \/ t \in closed.bound \/ i = 0 THEN closed
          ELSE IF closed.socket_refs[i].pending THEN marked ELSE poll_add_socket(marked, i)
  BY DEF CleanedUp
<1>3. IsListeners(lis) /\ OneBound(c, gone) /\ socket \in Socket
          /\ closed.new_socket_refs = c.new_socket_refs
  BY DEF Sound, HandlesKept, Closed, IsContext, HasFields, Fields
<1>4. \A j \in Those(c) : Nth(closed, j) = Nth(c, j)
  BY <1>1 DEF Nth
<1>5. RefsOfType(closed, t) = {j \in Those(c) : Nth(c, j).ip_type = t}
  BY <1>1, <1>4 DEF RefsOfType, Those, Nth
<1>6. IF RefsOfType(closed, t) = {} THEN i = 0 ELSE i \in RefsOfType(closed, t) /\ i # 0
  <2>1. RefsOfType(closed, t) \in SUBSET (1 .. Len(closed.socket_refs))
            /\ Len(closed.socket_refs) \in Nat
    BY <1>1, <1>5, RefTyped
  <2> QED
    BY <2>1, FirstRefIs DEF find_socket_ref_by_type
<1> HIDE DEF closed, i, d, rest
<1>7. CASE ~socket.bound \/ t \in closed.bound \/ i = 0
  <2>1. OneBound(closed, rest)
    <3>1. ASSUME NEW j \in Those(closed), Nth(closed, j).ip_type \notin closed.bound
          PROVE  \E a \in rest : a.bound /\ a.ip_type = Nth(closed, j).ip_type
      <4>1. j \in Those(c) /\ Nth(closed, j) = Nth(c, j) /\ Nth(c, j).ip_type \notin c.bound
        BY <3>1, <1>1, <1>4
      <4>2. PICK a \in gone : a.bound /\ a.ip_type = Nth(c, j).ip_type
        BY <4>1, <1>3 DEF OneBound
      <4>3. i = 0 => Nth(c, j).ip_type # t
        BY <4>1, <1>5, <1>6
      <4>4. a # socket
        BY <4>1, <4>2, <4>3, <1>1, <1>7
      <4> QED
        BY <4>1, <4>2, <4>4 DEF rest
    <3> QED
      BY <3>1, <1>1, <1>3, <1>4 DEF OneBound
  <2> QED
    BY <2>1, <1>1, <1>2, <1>3, <1>7 DEF Sound, rest, d
<1>8. CASE ~(~socket.bound \/ t \in closed.bound \/ i = 0)
  <2>1. i \in Those(c) /\ Nth(c, i).ip_type = t /\ t \notin c.bound /\ t \in IpTypes
    BY <1>1, <1>3, <1>5, <1>6, <1>8 DEF Socket
  <2>2. /\ Alike(closed, marked) /\ marked.bound = c.bound \cup {t} /\ marked.polled = closed.polled
        /\ Nth(marked, i).bound
        /\ \A j \in Those(c) : j # i => Nth(marked, j).bound = Nth(closed, j).bound
    BY <2>1, <1>1, <1>4, MarkedIs
  <2> HIDE DEF marked
  <2>3. marked.bound \subseteq IpTypes /\ marked.polled \subseteq DOMAIN closed.open
    BY <2>1, <2>2, <1>1 DEF IsContext
  <2>4. /\ Those(marked) = Those(c) /\ IsContext(marked) /\ HandlesKept(marked, rest)
        /\ Counted(marked, lis) /\ PendingLast(marked)
    BY <2>2, <2>3, <1>1, AlikeKeeps
  <2>5. \A j \in Those(c) : /\ Nth(marked, j).handle = Nth(c, j).handle
                            /\ Nth(marked, j).ip_type = Nth(c, j).ip_type
                            /\ marked.socket_refs[j].pending = c.socket_refs[j].pending
    BY <2>2, <1>1, <1>4 DEF Alike
  <2>6. OneBound(marked, rest)
    <3>1. ~\E j \in Those(c) : Nth(c, j).bound /\ Nth(c, j).ip_type = t
      BY <2>1, <1>3 DEF OneBound
    <3>2. \A j \in Those(c) : Nth(marked, j).bound <=> j = i \/ Nth(c, j).bound
      BY <2>2, <1>4
    <3>3. ASSUME NEW j \in Those(c), NEW k \in Those(c), Nth(marked, j).bound, Nth(marked, k).bound,
                 Nth(marked, j).ip_type = Nth(marked, k).ip_type
          PROVE  j = k
      BY <3>1, <3>2, <3>3, <2>1, <2>5, <1>3 DEF OneBound
    <3>4. ASSUME NEW u \in IpTypes
          PROVE  u \in marked.bound <=> \E j \in Those(c) : Nth(marked, j).bound
                   /\ Nth(marked, j).ip_type = u
      BY <3>2, <2>1, <2>2, <2>5, <1>3 DEF OneBound
    <3>5. ASSUME NEW j \in Those(c), Nth(marked, j).ip_type \notin marked.bound
          PROVE  \E a \in rest : a.bound /\ a.ip_type = Nth(marked, j).ip_type
      <4>1. Nth(c, j).ip_type \notin c.bound /\ Nth(c, j).ip_type # t
                /\ Nth(marked, j).ip_type = Nth(c, j).ip_type
        BY <3>5, <2>2, <2>5
      <4>2. PICK a \in gone : a.bound /\ a.ip_type = Nth(c, j).ip_type
        BY <4>1, <1>3 DEF OneBound
      <4> QED
        BY <4>1, <4>2 DEF rest
    <3> QED
      BY <3>3, <3>4, <3>5, <2>4 DEF OneBound
  <2>7. marked.open = closed.open /\ SameThread(closed, marked) /\ SameRequests(closed, marked)
        /\ marked.dead_sockets = closed.dead_sockets
        /\ Len(marked.socket_refs) = Len(closed.socket_refs)
        /\ marked.new_socket_refs = closed.new_socket_refs
    BY <2>2 DEF Alike, SameRequests
  <2>8. Polls(closed, broken) /\ closed.poll_context_initialized = marked.poll_context_initialized
    BY <2>7, <1>1 DEF SameThread
  <2>9. CASE closed.socket_refs[i].pending
    <3>1. d = marked
      BY <2>9, <1>2, <1>8
    <3>2. Polls(marked, broken)
      <4>1. marked.socket_refs[i].pending
        BY <2>9, <2>1, <2>2, <1>1 DEF Alike
      <4>2. \A j \in Those(c) : Nth(marked, j).bound /\ ~marked.socket_refs[j].pending =>
                Nth(closed, j).bound /\ ~closed.socket_refs[j].pending
        BY <4>1, <2>2, <2>5, <1>1
      <4> QED
        BY <4>2, <2>2, <2>4, <2>5, <2>8, <1>1, <1>4 DEF Polls
    <3> QED
      BY <3>1, <3>2, <2>4, <2>5, <2>6, <2>7, <1>1, <1>3
      DEF Sound, SameThread, SameRequests, rest, d
  <2>10. CASE ~closed.socket_refs[i].pending
    <3> DEFINE e == poll_add_socket(marked, i)
    <3>1. d = e
      BY <2>10, <1>2, <1>8
    <3>2. /\ Alike(marked, e) /\ e.bound = marked.bound
          /\ \A j \in Those(c) : Nth(e, j).bound = Nth(marked, j).bound
          /\ e.polled = IF marked.poll_context_initialized
               THEN marked.polled \cup {Nth(c, i).handle} ELSE marked.polled
      <4>1. i \in Those(marked) /\ IsContext(marked) /\ Nth(marked, i).handle = Nth(c, i).handle
        BY <2>1, <2>4, <2>5
      <4>2. /\ Alike(marked, e) /\ e.bound = marked.bound
            /\ \A j \in Those(marked) : Nth(e, j).bound = Nth(marked, j).bound
            /\ e.polled = IF marked.poll_context_initialized
                 THEN marked.polled \cup {Nth(marked, i).handle} ELSE marked.polled
        BY <4>1, PollAddedIs
      <4> HIDE DEF e
      <4> QED
        BY <4>1, <4>2, <2>4
    <3> HIDE DEF e
    <3>3. e.bound \subseteq IpTypes /\ e.polled \subseteq DOMAIN marked.open
      <4>1. Nth(c, i).handle \in DOMAIN marked.open
        BY <2>1, <2>4, <2>5 DEF HandlesKept
      <4> QED
        BY <4>1, <3>2, <2>4 DEF IsContext
    <3>4. /\ Those(e) = Those(c) /\ IsContext(e) /\ HandlesKept(e, rest)
          /\ Counted(e, lis) /\ PendingLast(e)
      BY <3>2, <3>3, <2>4, AlikeKeeps
    <3>5. \A j \in Those(c) : /\ Nth(e, j).handle = Nth(c, j).handle
                              /\ Nth(e, j).ip_type = Nth(c, j).ip_type
                              /\ e.socket_refs[j].pending = c.socket_refs[j].pending
      BY <3>2, <2>4, <2>5 DEF Alike
    <3>6. OneBound(e, rest)
      BY <3>2, <3>4, <3>5, <2>4, <2>5, <2>6 DEF OneBound
    <3>7. e.poll_context_initialized = marked.poll_context_initialized /\ SameThread(marked, e)
          /\ SameRequests(marked, e)
          /\ e.open = marked.open /\ e.dead_sockets = marked.dead_sockets
          /\ Len(e.socket_refs) = Len(marked.socket_refs) /\ e.new_socket_refs = marked.new_socket_refs
      BY <3>2 DEF Alike, SameThread, SameRequests
    <3>8. Polls(e, broken)
      <4>1. SUFFICES ASSUME e.poll_context_initialized, ~broken, NEW j \in Those(c), Nth(e, j).bound,
                            ~e.socket_refs[j].pending
                     PROVE  Nth(e, j).handle \in e.polled
        BY <3>4 DEF Polls
      <4>2. CASE j = i
        BY <4>1, <4>2, <3>2, <3>5, <3>7
      <4>3. CASE j # i
        <5>1. Nth(closed, j).bound /\ ~closed.socket_refs[j].pending /\ closed.poll_context_initialized
          BY <4>1, <4>3, <3>2, <3>5, <3>7, <2>2, <2>8, <1>1
        <5>2. Nth(closed, j).handle \in closed.polled
          BY <5>1, <4>1, <2>8, <1>1 DEF Polls
        <5> QED
          BY <5>2, <4>1, <3>2, <3>5, <2>2, <1>4
      <4> QED
        BY <4>2, <4>3
    <3> QED
      BY <3>1, <3>4, <3>5, <3>6, <3>7, <3>8, <2>7, <1>1, <1>3
      DEF Sound, SameThread, SameRequests, rest, d
  <2> QED
    BY <2>9, <2>10
<1> QED
  BY <1>7, <1>8

-----------------------------------------------------------------------------
(* A receiver gives its socket back.                                        *)

DeadListed(c) ==
    /\ c.dead_sockets \in Seq(Socket)
    /\ \A j, k \in DOMAIN c.dead_sockets :
          c.dead_sockets[j].handle = c.dead_sockets[k].handle => j = k

(* Between two calls, with these receivers.                                 *)
Between(c, lis, broken) == DeadListed(c) /\ Sound(c, Range(c.dead_sockets), lis, broken)

(* To leave groups at once changes only what is joined.                     *)
LEMMA LeftIs ==
    ASSUME NEW c, HasFields(c), NEW requests
    PROVE  /\ SameButRequests(c, Left(c, requests)) /\ SameRequests(c, Left(c, requests))
           /\ \A s \in DOMAIN c.open :
                 Left(c, requests).open[s] =
                    c.open[s] \ {<<r.universe, r.netint>> : r \in {r \in requests : r.socket = s}}
BY DEF Left, HasFields, Fields, SameButRequests, SameThread, SameRequests

(* To leave groups, at once or queued, changes only the requests and what   *)
(* is joined.                                                               *)
LEMMA UnsubscribedKeeps ==
    ASSUME NEW c, HasFields(c), NEW requests, NEW queued \in BOOLEAN
    PROVE  SameButRequests(c, unsubscribe_socket(c, requests, queued))
<1> DEFINE cancelled == {r \in requests : BagIn(r, c.subscribes)}
           without == [c EXCEPT !.subscribes = @ (-) SetToBag(cancelled)]
           rest == requests \ cancelled
<1>1. SameButRequests(c, without)
  BY DEF HasFields, Fields, SameButRequests, SameThread
<1>2. unsubscribe_socket(c, requests, queued) =
        IF queued THEN [without EXCEPT !.unsubscribes = @ (+) SetToBag(rest)] ELSE Left(without, rest)
  BY DEF unsubscribe_socket
<1> HIDE DEF without, rest
<1>3. SameButRequests(c, [without EXCEPT !.unsubscribes = @ (+) SetToBag(rest)])
  BY <1>1 DEF HasFields, Fields, SameButRequests, SameThread
<1>4. SameButRequests(c, Left(without, rest))
  <2>1. HasFields(without)
    BY <1>1 DEF SameButRequests
  <2>2. SameButRequests(without, Left(without, rest))
    BY <2>1, LeftIs
  <2> QED
    BY <2>2, <1>1 DEF SameButRequests, SameThread
<1> QED
  BY <1>2, <1>3, <1>4

(* What c is with one more dead socket.                                     *)
DeadMore(c, d, lis, broken) ==
    Between(d, lis, broken) /\ SameThread(c, d) /\ SameRequests(c, d) /\ d.open = c.open

(* The list of dead sockets is not what Sound is about.                     *)
LEMMA DeadQueued ==
    ASSUME NEW c, NEW lis, NEW broken, NEW socket, socket \notin Range(c.dead_sockets),
           DeadListed(c), Sound(c, Range(c.dead_sockets) \cup {socket}, lis, broken)
    PROVE  DeadMore(c, [c EXCEPT !.dead_sockets = Append(@, socket)], lis, broken)
<1> DEFINE d == [c EXCEPT !.dead_sockets = Append(@, socket)]
           gone == Range(c.dead_sockets) \cup {socket}
           n == Len(c.dead_sockets)
<1>1. /\ HasFields(d) /\ SameThread(c, d) /\ SameRequests(c, d)
      /\ d.dead_sockets = Append(c.dead_sockets, socket)
      /\ d.socket_refs = c.socket_refs /\ d.new_socket_refs = c.new_socket_refs
      /\ d.bound = c.bound /\ d.polled = c.polled /\ d.open = c.open
  BY DEF Sound, IsContext, HasFields, Fields, SameThread, SameRequests
<1> HIDE DEF d
<1>2. Sound(d, gone, lis, broken)
  <2>1. Those(d) = Those(c) /\ \A i \in Those(c) : Nth(d, i) = Nth(c, i)
    BY <1>1 DEF Those, Nth
  <2>2. IsContext(d)
    BY <1>1 DEF Sound, IsContext
  <2>3. HandlesKept(d, gone)
    BY <1>1, <2>1 DEF Sound, HandlesKept
  <2>4. Counted(d, lis) /\ PendingLast(d)
    BY <1>1, <2>1 DEF Sound, Counted, PendingLast
  <2>5. OneBound(d, gone) /\ Polls(d, broken)
    BY <1>1, <2>1 DEF Sound, OneBound, Polls, SameThread
  <2> HIDE DEF gone
  <2> QED
    BY <2>2, <2>3, <2>4, <2>5 DEF Sound, gone
<1>3. socket \in Socket /\ c.dead_sockets \in Seq(Socket)
  BY DEF Sound, HandlesKept, DeadListed
<1>4. /\ d.dead_sockets \in Seq(Socket) /\ DOMAIN d.dead_sockets = 1 .. n + 1
      /\ DOMAIN c.dead_sockets = 1 .. n /\ n \in Nat
      /\ \A k \in 1 .. n : d.dead_sockets[k] = c.dead_sockets[k]
      /\ d.dead_sockets[n + 1] = socket
  BY <1>1, <1>3, AppendProperties, LenProperties
<1>5. Range(d.dead_sockets) = gone
  BY <1>4, SMTT(30) DEF Range
<1>6. DeadListed(d)
  <2>1. \A k \in 1 .. n : c.dead_sockets[k] \in gone /\ c.dead_sockets[k] # socket
    BY <1>4 DEF Range
  <2>2. \A k \in 1 .. n : c.dead_sockets[k].handle # socket.handle
    BY <2>1 DEF Sound, HandlesKept
  <2>3. \A j, k \in 1 .. n + 1 : d.dead_sockets[j].handle = d.dead_sockets[k].handle => j = k
    <3>1. \A j \in 1 .. n + 1 : j = n + 1 \/ j \in 1 .. n
      BY <1>4
    <3>2. \A j, k \in 1 .. n : d.dead_sockets[j].handle = d.dead_sockets[k].handle => j = k
      BY <1>4 DEF DeadListed
    <3>3. \A k \in 1 .. n : d.dead_sockets[k].handle # d.dead_sockets[n + 1].handle
      BY <2>2, <1>4
    <3> QED
      BY <3>1, <3>2, <3>3, Zenon
  <2> QED
    BY <2>3, <1>4 DEF DeadListed
<1> QED
  BY <1>1, <1>2, <1>5, <1>6 DEF DeadMore, Between, d

-----------------------------------------------------------------------------
(* A receiver gets a socket.                                                *)

(* Of two sockets given in turn the last one counts.                        *)
LEMMA PutPut ==
    ASSUME NEW lis, IsListeners(lis), NEW h \in DOMAIN lis, NEW t \in IpTypes, NEW s, NEW u
    PROVE  Put(Put(lis, h, t, s), h, t, u) = Put(lis, h, t, u)
<1>1. lis \in [DOMAIN lis -> Listener] /\ lis[h] \in Listener
  BY DEF IsListeners
<1>2. [[lis[h] EXCEPT !.sockets[t] = s] EXCEPT !.sockets[t] = u] = [lis[h] EXCEPT !.sockets[t] = u]
  BY <1>1 DEF Listener
<1> QED
  BY <1>1, <1>2 DEF Put

(* To give a listener the socket it has changes nothing.                    *)
LEMMA PutSame ==
    ASSUME NEW lis, IsListeners(lis), NEW h \in DOMAIN lis, NEW t \in IpTypes
    PROVE  Put(lis, h, t, lis[h].sockets[t]) = lis
<1>1. lis \in [DOMAIN lis -> Listener] /\ lis[h] \in Listener
  BY DEF IsListeners
<1>2. [lis[h] EXCEPT !.sockets[t] = lis[h].sockets[t]] = lis[h]
  BY <1>1 DEF Listener
<1> QED
  BY <1>1, <1>2 DEF Put

(* A socket with room is shared.                                            *)
LEMMA OneUserMore ==
    ASSUME NEW c, NEW lis, NEW broken, Between(c, lis, broken),
           NEW i \in Those(c), NEW h \in DOMAIN lis,
           lis[h].sockets[Nth(c, i).ip_type] = NoSocket,
           c.socket_refs[i].refcount < MaxSubs
    PROVE  LET d == [c EXCEPT !.socket_refs[i].refcount = @ + 1] IN
           /\ Between(d, Put(lis, h, Nth(c, i).ip_type, Nth(c, i).handle), broken)
           /\ SameThread(c, d) /\ SameRequests(c, d) /\ d.open = c.open
           /\ Those(d) = Those(c) /\ Nth(d, i) = Nth(c, i)
<1> DEFINE t == Nth(c, i).ip_type
           s == Nth(c, i).handle
           gone == Range(c.dead_sockets)
           ref == [c.socket_refs[i] EXCEPT !.refcount = @ + 1]
           d == [c EXCEPT !.socket_refs[i].refcount = @ + 1]
           new == Put(lis, h, t, s)
<1>1. /\ HasFields(d) /\ SameThread(c, d) /\ SameRequests(c, d)
      /\ d.new_socket_refs = c.new_socket_refs /\ d.bound = c.bound /\ d.open = c.open
      /\ d.polled = c.polled /\ d.dead_sockets = c.dead_sockets
      /\ d.socket_refs = [c.socket_refs EXCEPT ![i].refcount = @ + 1]
  BY DEF Between, Sound, IsContext, HasFields, Fields, SameThread, SameRequests
<1>2. d.socket_refs = [c.socket_refs EXCEPT ![i] = ref]
  BY <1>1
<1> HIDE DEF d
<1>3. IsContext(c) /\ HandlesKept(c, gone) /\ IsListeners(lis) /\ Counted(c, lis) /\ PendingLast(c)
      /\ OneBound(c, gone) /\ Polls(c, broken) /\ DeadListed(c)
  BY DEF Between, Sound
<1>4. /\ t \in IpTypes /\ s \in Sockets /\ s # NoSocket
      /\ \A j \in Those(c) : c.socket_refs[j] \in Ref /\ Nth(c, j).ip_type \in IpTypes
           /\ Nth(c, j).handle # NoSocket
  BY <1>3, RefTyped
<1>5. ref \in Ref /\ ref.socket = Nth(c, i) /\ ref.pending = c.socket_refs[i].pending
      /\ ref.refcount = c.socket_refs[i].refcount + 1
  <2>1. c.socket_refs[i].refcount \in 1 .. MaxSubs /\ MaxSubs \in Nat /\ c.socket_refs[i] \in Ref
    BY <1>4, SocketsAssumption DEF Ref
  <2>2. c.socket_refs[i].refcount + 1 \in 1 .. MaxSubs
    BY <2>1
  <2> QED
    BY <2>1, <2>2 DEF Ref, Nth
<1>6. /\ d.socket_refs \in Seq(Ref) /\ Len(d.socket_refs) = Len(c.socket_refs) /\ Those(d) = Those(c)
      /\ d.socket_refs[i] = ref /\ \A j \in Those(c) : j # i => d.socket_refs[j] = c.socket_refs[j]
  BY <1>2, <1>3, <1>5, RefReplaced DEF Those
<1> HIDE DEF ref
<1>7. \A j \in Those(c) : /\ Nth(d, j) = Nth(c, j)
                          /\ d.socket_refs[j].pending = c.socket_refs[j].pending
                          /\ d.socket_refs[j].refcount = IF j = i THEN c.socket_refs[i].refcount + 1
                                                         ELSE c.socket_refs[j].refcount
  BY <1>5, <1>6 DEF Nth
<1>8. IsContext(d)
  BY <1>1, <1>3, <1>6 DEF IsContext
<1>9. HandlesKept(d, gone)
  BY <1>1, <1>3, <1>6, <1>7 DEF HandlesKept
<1>10. PendingLast(d) /\ OneBound(d, gone) /\ Polls(d, broken)
  BY <1>1, <1>3, <1>6, <1>7 DEF PendingLast, OneBound, Polls, SameThread
<1>11. IsListeners(new) /\ Counted(d, new)
  <2>1. /\ IsListeners(new) /\ DOMAIN new = DOMAIN lis /\ new[h].sockets[t] = s
        /\ \A g \in DOMAIN lis, u \in IpTypes : g # h \/ u # t => new[g].sockets[u] = lis[g].sockets[u]
    BY <1>3, <1>4, PutIs
  <2>2. ASSUME NEW j \in Those(d)
        PROVE  d.socket_refs[j].refcount = Cardinality(Users(new, Nth(d, j).ip_type, Nth(d, j).handle))
    <3>1. j \in Those(c) /\ Nth(d, j) = Nth(c, j) /\ Nth(c, j).ip_type \in IpTypes
              /\ Nth(c, j).handle # NoSocket
      BY <2>2, <1>4, <1>6, <1>7
    <3>2. c.socket_refs[j].refcount = Cardinality(Users(lis, Nth(c, j).ip_type, Nth(c, j).handle))
      BY <3>1, <1>3 DEF Counted
    <3>3. CASE j = i
      BY <3>1, <3>2, <3>3, <1>3, <1>4, <1>7, UsersPut
    <3>4. CASE j # i
      <4>1. Nth(c, j).handle # s
        BY <3>1, <3>4, <1>3 DEF HandlesKept
      <4>2. Cardinality(Users(new, Nth(c, j).ip_type, Nth(c, j).handle))
              = Cardinality(Users(lis, Nth(c, j).ip_type, Nth(c, j).handle))
        BY <3>1, <4>1, <1>3, <1>4, UsersPut
      <4> QED
        BY <3>1, <3>2, <3>4, <4>2, <1>7
    <3> QED
      BY <3>3, <3>4
  <2> HIDE DEF new
  <2>3. ASSUME NEW g \in DOMAIN new, NEW u \in IpTypes, new[g].sockets[u] # NoSocket
        PROVE  \E j \in Those(d) : Nth(d, j).handle = new[g].sockets[u] /\ Nth(d, j).ip_type = u
    <3>1. CASE g = h /\ u = t
      BY <3>1, <2>1, <1>6, <1>7
    <3>2. CASE ~(g = h /\ u = t)
      BY <3>2, <2>1, <2>3, <1>3, <1>6, <1>7 DEF Counted
    <3> QED
      BY <3>1, <3>2
  <2> QED
    BY <2>1, <2>2, <2>3 DEF Counted
<1>12. DeadListed(d) /\ Range(d.dead_sockets) = gone
  BY <1>1, <1>3 DEF DeadListed
<1> HIDE DEF gone
<1> QED
  BY <1>1, <1>6, <1>7, <1>8, <1>9, <1>10, <1>11, <1>12 DEF Between, Sound, d

(* A new one is opened, and bound if no other of its type is.               *)
LEMMA NewSocketIs ==
    ASSUME NEW c, NEW lis, NEW broken, Between(c, lis, broken), NEW t \in IpTypes,
           NEW h \in DOMAIN lis, lis[h].sockets[t] = NoSocket, FreeSockets(c) # {}
    PROVE  LET d == WithNewSocket(c, t) s == Least(FreeSockets(c)) n == Len(c.socket_refs) + 1 IN
           /\ Between(d, Put(lis, h, t, s), broken)
           /\ SameThread(c, d) /\ SameRequests(c, d)
           /\ d.open = [x \in DOMAIN c.open \cup {s} |-> IF x = s THEN {} ELSE c.open[x]]
           /\ n \in Those(d) /\ Nth(d, n).handle = s /\ Nth(d, n).ip_type = t
           /\ s \in Sockets /\ s \notin DOMAIN c.open
<1> DEFINE d == WithNewSocket(c, t)
           s == Least(FreeSockets(c))
           n == Len(c.socket_refs) + 1
           gone == Range(c.dead_sockets)
           new == Put(lis, h, t, s)
           socket == [handle |-> s, ip_type |-> t, bound |-> t \notin c.bound, polling |-> FALSE]
           ref == [socket |-> socket, refcount |-> 1, pending |-> TRUE]
<1>1. s \in Sockets /\ s \notin DOMAIN c.open /\ s # NoSocket
  <2>1. FreeSockets(c) \in SUBSET Nat
    BY SocketsAssumption DEF FreeSockets
  <2>2. s \in FreeSockets(c)
    BY <2>1, SmallestIs DEF Least
  <2> QED
    BY <2>2, SocketsAssumption DEF FreeSockets
<1> HIDE DEF s
<1>2. d = [c EXCEPT !.open = [x \in DOMAIN @ \cup {s} |-> IF x = s THEN {} ELSE @[x]],
                    !.socket_refs = Append(@, ref),
                    !.new_socket_refs = @ + 1,
                    !.bound = IF socket.bound THEN @ \cup {t} ELSE @]
  <2> DEFINE opened == [c EXCEPT !.open = [x \in DOMAIN @ \cup {s} |-> IF x = s THEN {} ELSE @[x]]]
  <2>1. d = add_socket_ref(opened, socket)
    BY DEF WithNewSocket, create_receive_socket, s
  <2>2. /\ opened.socket_refs = c.socket_refs /\ opened.new_socket_refs = c.new_socket_refs
        /\ opened.bound = c.bound
    BY DEF Between, Sound, IsContext, HasFields, Fields
  <2> QED
    BY <2>1, <2>2 DEF add_socket_ref, Between, Sound, IsContext, HasFields, Fields
<1>3. /\ HasFields(d) /\ SameThread(c, d) /\ SameRequests(c, d)
      /\ d.dead_sockets = c.dead_sockets /\ d.polled = c.polled
      /\ d.open = [x \in DOMAIN c.open \cup {s} |-> IF x = s THEN {} ELSE c.open[x]]
      /\ d.socket_refs = Append(c.socket_refs, ref)
      /\ d.new_socket_refs = c.new_socket_refs + 1
      /\ d.bound = c.bound \cup {t}
  <2>1. HasFields(c)
    BY DEF Between, Sound, IsContext
  <2> HIDE DEF ref
  <2>2. /\ HasFields(d) /\ SameThread(c, d) /\ SameRequests(c, d)
        /\ d.dead_sockets = c.dead_sockets /\ d.polled = c.polled
        /\ d.open = [x \in DOMAIN c.open \cup {s} |-> IF x = s THEN {} ELSE c.open[x]]
        /\ d.socket_refs = Append(c.socket_refs, ref)
        /\ d.new_socket_refs = c.new_socket_refs + 1
        /\ d.bound = IF socket.bound THEN c.bound \cup {t} ELSE c.bound
    BY <1>2, <2>1 DEF HasFields, Fields, SameThread, SameRequests
  <2>3. d.bound = c.bound \cup {t}
    BY <2>2
  <2> QED
    BY <2>2, <2>3
<1> HIDE DEF d
<1>4. IsContext(c) /\ HandlesKept(c, gone) /\ IsListeners(lis) /\ Counted(c, lis) /\ PendingLast(c)
      /\ OneBound(c, gone) /\ Polls(c, broken) /\ DeadListed(c)
  BY DEF Between, Sound
<1>5. socket \in Socket /\ ref \in Ref
  BY <1>1, SocketsAssumption DEF Socket, Ref
<1>6. /\ Those(c) = 1 .. n - 1 /\ n \in Nat \ {0}
      /\ \A j \in Those(c) : Nth(c, j).ip_type \in IpTypes /\ Nth(c, j).handle # NoSocket
  BY <1>4, RefTyped
<1>7. /\ d.socket_refs \in Seq(Ref) /\ Len(d.socket_refs) = n /\ Those(d) = 1 .. n
      /\ d.socket_refs[n] = ref /\ \A j \in Those(c) : d.socket_refs[j] = c.socket_refs[j]
  <2>1. c.socket_refs \in Seq(Ref)
    BY <1>4 DEF IsContext
  <2> HIDE DEF ref
  <2>2. /\ d.socket_refs \in Seq(Ref) /\ Len(d.socket_refs) = n
        /\ d.socket_refs[n] = ref /\ \A j \in 1 .. Len(c.socket_refs) :
             d.socket_refs[j] = c.socket_refs[j]
    BY <2>1, <1>3, <1>5, AppendProperties
  <2> QED
    BY <2>2, <1>6, LenProperties DEF Those
<1>8. /\ n \in Those(d) /\ Nth(d, n) = socket /\ n \notin Those(c)
      /\ \A j \in Those(d) : j = n \/ j \in Those(c)
      /\ \A j \in Those(c) : j \in Those(d) /\ Nth(d, j) = Nth(c, j)
  BY <1>6, <1>7 DEF Nth
<1>9. socket.handle = s /\ socket.ip_type = t /\ (socket.bound <=> t \notin c.bound)
      /\ ref.pending /\ ref.refcount = 1
  OBVIOUS
<1> HIDE DEF socket, ref
<1>10. DOMAIN d.open = DOMAIN c.open \cup {s}
  BY <1>3
<1>11. IsContext(d)
  <2>1. d.new_socket_refs \in 0 .. Len(d.socket_refs)
    BY <1>3, <1>4, <1>6, <1>7 DEF IsContext
  <2> QED
    BY <2>1, <1>1, <1>3, <1>4, <1>7, <1>10 DEF IsContext
<1>12. HandlesKept(d, gone)
  <2>1. \A j \in Those(c) : Nth(c, j).handle # s
    BY <1>1, <1>4 DEF HandlesKept
  <2>2. \A a \in gone : a.handle # s
    BY <1>1, <1>4 DEF HandlesKept
  <2>3. \A j, k \in Those(d) : Nth(d, j).handle = Nth(d, k).handle => j = k
    BY <2>1, <1>4, <1>8, <1>9 DEF HandlesKept
  <2>4. \A j \in Those(d), a \in gone : Nth(d, j).handle # a.handle
    BY <2>2, <1>4, <1>8, <1>9 DEF HandlesKept
  <2>5. DOMAIN d.open = {Nth(d, j).handle : j \in Those(d)} \cup {a.handle : a \in gone}
    <3>1. {Nth(d, j).handle : j \in Those(d)} = {Nth(c, j).handle : j \in Those(c)} \cup {s}
      BY <1>8, <1>9
    <3> QED
      BY <3>1, <1>4, <1>10 DEF HandlesKept
  <2> QED
    BY <2>3, <2>4, <2>5, <1>4 DEF HandlesKept
<1>13. PendingLast(d)
  <2>1. ASSUME NEW j \in Those(d)
        PROVE  d.socket_refs[j].pending <=> j > Len(d.socket_refs) - d.new_socket_refs
    <3>1. c.new_socket_refs \in Nat
      BY <1>4 DEF IsContext
    <3>2. CASE j = n
      BY <3>1, <3>2, <1>3, <1>6, <1>7, <1>9
    <3>3. CASE j \in Those(c)
      <4>1. c.socket_refs[j].pending <=> j > Len(c.socket_refs) - c.new_socket_refs
        BY <3>3, <1>4 DEF PendingLast
      <4> QED
        BY <4>1, <3>1, <3>3, <1>3, <1>6, <1>7
    <3> QED
      BY <3>2, <3>3, <1>8
  <2> QED
    BY <2>1 DEF PendingLast
<1>14. IsListeners(new) /\ Counted(d, new)
  <2>1. /\ IsListeners(new) /\ DOMAIN new = DOMAIN lis /\ new[h].sockets[t] = s
        /\ \A g \in DOMAIN lis, u \in IpTypes : g # h \/ u # t => new[g].sockets[u] = lis[g].sockets[u]
    BY <1>1, <1>4, PutIs
  <2>2. Cardinality(Users(lis, t, s)) = 0
    <3>1. Users(lis, t, s) = {}
      <4>1. SUFFICES ASSUME NEW g \in DOMAIN lis, lis[g].sockets[t] = s PROVE FALSE
        BY DEF Users
      <4>2. PICK j \in Those(c) : Nth(c, j).handle = s
        BY <4>1, <1>1, <1>4 DEF Counted
      <4> QED
        BY <4>2, <1>1, <1>4 DEF HandlesKept
    <3> QED
      BY <3>1, FS_EmptySet
  <2>3. Cardinality(Users(new, t, s)) = 1
    BY <2>2, <1>1, <1>4, UsersPut
  <2>4. ASSUME NEW j \in Those(d)
        PROVE  d.socket_refs[j].refcount = Cardinality(Users(new, Nth(d, j).ip_type, Nth(d, j).handle))
    <3>1. CASE j = n
      BY <3>1, <2>3, <1>7, <1>8, <1>9
    <3>2. CASE j \in Those(c)
      <4>1. Nth(c, j).handle # s
        BY <3>2, <1>1, <1>4 DEF HandlesKept
      <4>2. c.socket_refs[j].refcount = Cardinality(Users(lis, Nth(c, j).ip_type, Nth(c, j).handle))
        BY <3>2, <1>4 DEF Counted
      <4>3. Cardinality(Users(new, Nth(c, j).ip_type, Nth(c, j).handle))
              = Cardinality(Users(lis, Nth(c, j).ip_type, Nth(c, j).handle))
        <5>1. Nth(c, j).ip_type \in IpTypes /\ Nth(c, j).handle # NoSocket
          BY <3>2, <1>6
        <5> QED
          BY <5>1, <4>1, <1>1, <1>4, UsersPut
      <4> QED
        BY <3>2, <4>2, <4>3, <1>7, <1>8
    <3> QED
      BY <3>1, <3>2, <1>8
  <2> HIDE DEF new
  <2>5. ASSUME NEW g \in DOMAIN new, NEW u \in IpTypes, new[g].sockets[u] # NoSocket
        PROVE  \E j \in Those(d) : Nth(d, j).handle = new[g].sockets[u] /\ Nth(d, j).ip_type = u
    <3>1. CASE g = h /\ u = t
      BY <3>1, <2>1, <1>8, <1>9
    <3>2. CASE ~(g = h /\ u = t)
      <4>1. new[g].sockets[u] = lis[g].sockets[u] /\ g \in DOMAIN lis
        BY <3>2, <2>1
      <4>2. PICK j \in Those(c) : Nth(c, j).handle = lis[g].sockets[u] /\ Nth(c, j).ip_type = u
        BY <4>1, <2>5, <1>4 DEF Counted
      <4> QED
        BY <4>1, <4>2, <1>8
    <3> QED
      BY <3>1, <3>2
  <2> QED
    BY <2>1, <2>4, <2>5 DEF Counted
<1>15. OneBound(d, gone)
  <2>1. \A j, k \in Those(d) : Nth(d, j).bound /\ Nth(d, k).bound
            /\ Nth(d, j).ip_type = Nth(d, k).ip_type => j = k
    <3>1. socket.bound => \A j \in Those(c) : ~(Nth(c, j).bound /\ Nth(c, j).ip_type = t)
      BY <1>4, <1>9 DEF OneBound
    <3> QED
      BY <3>1, <1>4, <1>8, <1>9 DEF OneBound
  <2>2. ASSUME NEW u \in IpTypes
        PROVE  u \in d.bound <=> \E j \in Those(d) : Nth(d, j).bound /\ Nth(d, j).ip_type = u
    <3>1. u \in c.bound <=> \E j \in Those(c) : Nth(c, j).bound /\ Nth(c, j).ip_type = u
      BY <1>4 DEF OneBound
    <3> QED
      BY <3>1, <1>3, <1>8, <1>9
  <2>3. ASSUME NEW j \in Those(d), Nth(d, j).ip_type \notin d.bound
        PROVE  \E a \in gone : a.bound /\ a.ip_type = Nth(d, j).ip_type
    <3>1. j \in Those(c) /\ Nth(d, j) = Nth(c, j) /\ Nth(c, j).ip_type \notin c.bound
      BY <2>3, <1>3, <1>8, <1>9
    <3> QED
      BY <3>1, <1>4 DEF OneBound
  <2> QED
    BY <2>1, <2>2, <2>3 DEF OneBound
<1>16. Polls(d, broken)
  BY <1>3, <1>4, <1>7, <1>8, <1>9 DEF Polls, SameThread
<1>17. DeadListed(d) /\ Range(d.dead_sockets) = gone
  BY <1>3, <1>4 DEF DeadListed
<1>18. Between(d, new, broken)
  <2> HIDE DEF gone, new
  <2> QED
    BY <1>11, <1>12, <1>13, <1>14, <1>15, <1>16, <1>17 DEF Between, Sound
<1> QED
  BY <1>1, <1>3, <1>8, <1>9, <1>18 DEF d, s

(* A socket found with room is one of the type, and has room.               *)
LEMMA FoundIs ==
    ASSUME NEW c, IsContext(c), NEW t \in IpTypes
    PROVE  LET i == find_socket_ref_with_room(c, t) IN
           i # 0 => /\ i \in Those(c) /\ Nth(c, i).ip_type = t
                    /\ c.socket_refs[i].refcount < MaxSubs
<1> DEFINE those == {i \in RefsOfType(c, t) : c.socket_refs[i].refcount < MaxSubs}
<1>1. those \in SUBSET (1 .. Len(c.socket_refs)) /\ Len(c.socket_refs) \in Nat
  BY RefTyped DEF RefsOfType, Those
<1>2. find_socket_ref_with_room(c, t) = FirstRef(those)
  BY DEF find_socket_ref_with_room
<1>3. FirstRef(those) # 0 => FirstRef(those) \in those
  <2> HIDE DEF those
  <2> QED
    BY <1>1, FirstRefIs
<1> QED
  BY <1>2, <1>3 DEF RefsOfType, Those, Nth

(* What sacn_add_receiver_socket tells.                                     *)
IsAdded(result) ==
    /\ result.socket \in Sockets \cup {NoSocket}
    /\ result.res \in {"ok", "failed", "no_netints"}

(* To queue requests to join changes only the requests.                     *)
LEMMA QueuedKeeps ==
    ASSUME NEW c, HasFields(c), NEW requests
    PROVE  SameButRequests(c, queue_subscription(c, requests))
BY DEF queue_subscription, HasFields, Fields, SameButRequests, SameThread

-----------------------------------------------------------------------------
(* What is joined, and what is to be.                                       *)

AnyUniverse == Universes \cup {DiscoveryUniverse}

Subs(c) == BagToSet(c.subscribes)
Unsubs(c) == BagToSet(c.unsubscribes)

(* A receiver that has this socket asks for the universe on the interface.  *)
Wants(lis, s, u, n) ==
    \E h \in DOMAIN lis :
        lis[h].universe = u /\ n \in lis[h].netints /\ lis[h].sockets[Type(n)] = s

(* What the system has joined and the requests on their way make up what is *)
(* wanted, and no request is made for what is so already.                   *)
WantedOrLeft(c, lis, s, u, n) ==
    LET r == Request(s, u, n) joined == <<u, n>> \in c.open[s] IN
    /\ Wants(lis, s, u, n) <=> r \in Subs(c) \/ (joined /\ r \notin Unsubs(c))
    /\ r \in Subs(c) => ~joined
    /\ r \in Unsubs(c) => joined

(* Each request is made once.                                               *)
Once(c) ==
    /\ c.subscribes = SetToBag(Subs(c)) /\ c.unsubscribes = SetToBag(Unsubs(c))
    /\ Subs(c) \cup Unsubs(c)
          \subseteq [socket : DOMAIN c.open, universe : AnyUniverse, netint : Netints]

Asks(c, lis) ==
    /\ Once(c)
    /\ \A s \in DOMAIN c.open :
          /\ c.open[s] \subseteq AnyUniverse \X Netints
          /\ \A u \in AnyUniverse, n \in Netints : WantedOrLeft(c, lis, s, u, n)

(* Two receivers never have the same universe.                              *)
Distinct(lis) == \A g, h \in DOMAIN lis : lis[g].universe = lis[h].universe => g = h

NothingJoined(c) == \A s \in DOMAIN c.open : c.open[s] = {}

(* Bags that hold each element once are added and subtracted as sets.       *)
LEMMA SetBags ==
    ASSUME NEW S, NEW T
    PROVE  /\ BagToSet(SetToBag(S)) = S
           /\ T \subseteq S => SetToBag(S) (-) SetToBag(T) = SetToBag(S \ T)
           /\ T \cap S = {} => SetToBag(S) (+) SetToBag(T) = SetToBag(S \cup T)
<1>1. BagToSet(SetToBag(S)) = S
  BY DEF BagToSet, SetToBag
<1>2. ASSUME T \subseteq S PROVE SetToBag(S) (-) SetToBag(T) = SetToBag(S \ T)
  <2> DEFINE B == [e \in S |-> IF e \in T THEN 1 - 1 ELSE 1]
  <2>1. SetToBag(S) (-) SetToBag(T) = [e \in {d \in S : B[d] > 0} |-> B[e]]
    BY <1>2 DEF SetToBag, (-)
  <2>2. {d \in S : B[d] > 0} = S \ T
    OBVIOUS
  <2> QED
    BY <2>1, <2>2 DEF SetToBag
<1>3. ASSUME T \cap S = {} PROVE SetToBag(S) (+) SetToBag(T) = SetToBag(S \cup T)
  <2>1. SetToBag(S) (+) SetToBag(T) =
          [e \in S \cup T |-> (IF e \in S THEN 1 ELSE 0) + (IF e \in T THEN 1 ELSE 0)]
    BY DEF SetToBag, (+)
  <2>2. \A e \in S \cup T : (IF e \in S THEN 1 ELSE 0) + (IF e \in T THEN 1 ELSE 0) = 1
    BY <1>3
  <2> QED
    BY <2>1, <2>2 DEF SetToBag
<1> QED
  BY <1>1, <1>2, <1>3

(* A request tells its socket, its universe and its interface.              *)
LEMMA RequestIs ==
    ASSUME NEW s, NEW u, NEW n, NEW s2, NEW u2, NEW n2
    PROVE  /\ Request(s, u, n) = Request(s2, u2, n2) <=> s = s2 /\ u = u2 /\ n = n2
           /\ Request(s, u, n).socket = s /\ Request(s, u, n).universe = u
           /\ Request(s, u, n).netint = n
BY DEF Request

(* A request is for a group on a socket.                                    *)
LEMMA RequestOf ==
    ASSUME NEW S, NEW U, NEW N, NEW r \in [socket : S, universe : U, netint : N]
    PROVE  r = Request(r.socket, r.universe, r.netint) /\ r.socket \in S /\ r.universe \in U
             /\ r.netint \in N
BY DEF Request

(* What is asked depends on nothing else.                                   *)
LEMMA AsksSame ==
    ASSUME NEW c, NEW d, NEW lis, NEW now, Asks(c, lis), SameRequests(c, d), d.open = c.open,
           \A s \in DOMAIN c.open, u \in AnyUniverse, n \in Netints :
               Wants(now, s, u, n) <=> Wants(lis, s, u, n)
    PROVE  Asks(d, now)
<1>1. Subs(d) = Subs(c) /\ Unsubs(d) = Unsubs(c) /\ Once(d)
  BY DEF Asks, Once, Subs, Unsubs, SameRequests
<1> QED
  BY <1>1 DEF Asks, WantedOrLeft

(* The receiver h no longer wants what it had on its socket of this type.   *)
LEMMA AsksLess ==
    ASSUME NEW c, NEW lis, NEW broken, Sound(c, Range(c.dead_sockets), lis, broken),
           Asks(c, lis), Distinct(lis),
           NEW i \in Those(c), NEW h \in DOMAIN lis,
           lis[h].sockets[Nth(c, i).ip_type] = Nth(c, i).handle,
           NEW queued \in BOOLEAN, queued \/ NothingJoined(c)
    PROVE  LET s == Nth(c, i).handle
               t == Nth(c, i).ip_type
               d == unsubscribe_socket(c, Requests(s, t, lis[h].universe, lis[h].netints), queued) IN
           Asks(d, Put(lis, h, t, NoSocket)) /\ (NothingJoined(c) => NothingJoined(d))
<1> DEFINE s == Nth(c, i).handle
           t == Nth(c, i).ip_type
           R == Requests(s, t, lis[h].universe, lis[h].netints)
           d == unsubscribe_socket(c, R, queued)
           new == Put(lis, h, t, NoSocket)
           cancelled == {r \in R : BagIn(r, c.subscribes)}
           without == [c EXCEPT !.subscribes = @ (-) SetToBag(cancelled)]
           rest == R \ cancelled
<1>1. /\ IsContext(c) /\ IsListeners(lis) /\ HandlesKept(c, Range(c.dead_sockets)) /\ Counted(c, lis)
      /\ HasFields(c)
  BY DEF Sound, IsContext
<1>2. t \in IpTypes /\ s \in Sockets /\ s # NoSocket /\ s \in DOMAIN c.open
  BY <1>1, RefTyped DEF HandlesKept
<1>3. lis[h].universe \in AnyUniverse /\ lis[h].netints \subseteq Netints
  BY <1>1 DEF IsListeners, Listener, AnyUniverse
<1>4. \A n \in Netints : Type(n) \in IpTypes
  BY SocketsAssumption DEF Type
<1>5. /\ \A x \in DOMAIN c.open, u \in AnyUniverse, n \in Netints :
            Request(x, u, n) \in R <=> x = s /\ u = lis[h].universe /\ n \in lis[h].netints
              /\ Type(n) = t
      /\ R \subseteq [socket : DOMAIN c.open, universe : AnyUniverse, netint : Netints]
  <2>1. \A r \in R : \E n \in lis[h].netints : Type(n) = t /\ r = Request(s, lis[h].universe, n)
    BY DEF Requests
  <2>2. \A n \in lis[h].netints : Type(n) = t => Request(s, lis[h].universe, n) \in R
    BY DEF Requests
  <2> HIDE DEF R
  <2>3. R \subseteq [socket : DOMAIN c.open, universe : AnyUniverse, netint : Netints]
    BY <2>1, <1>2, <1>3 DEF Request
  <2> QED
    BY <2>1, <2>2, <2>3, RequestIs
<1> HIDE DEF R
<1>6. \A x \in DOMAIN c.open, u \in AnyUniverse, n \in Netints :
        /\ Request(x, u, n) \in R => Wants(lis, x, u, n)
        /\ Wants(new, x, u, n) <=> Wants(lis, x, u, n) /\ Request(x, u, n) \notin R
  <2> SUFFICES ASSUME NEW x \in DOMAIN c.open, NEW u \in AnyUniverse, NEW n \in Netints
               PROVE  /\ Request(x, u, n) \in R => Wants(lis, x, u, n)
                      /\ Wants(new, x, u, n) <=> Wants(lis, x, u, n) /\ Request(x, u, n) \notin R
    OBVIOUS
  <2>1. /\ DOMAIN new = DOMAIN lis /\ new[h].sockets[t] = NoSocket
        /\ \A g \in DOMAIN lis, v \in IpTypes : g # h \/ v # t => new[g].sockets[v] = lis[g].sockets[v]
        /\ \A g \in DOMAIN lis : new[g].universe = lis[g].universe /\ new[g].netints = lis[g].netints
    BY <1>1, <1>2, PutIs
  <2> HIDE DEF new
  <2>2. x # NoSocket
    BY <1>1, SocketsAssumption DEF IsContext
  <2>3. CASE Request(x, u, n) \in R
    <3>1. x = s /\ u = lis[h].universe /\ n \in lis[h].netints /\ Type(n) = t
      BY <2>3, <1>5
    <3>2. Wants(lis, x, u, n)
      BY <3>1 DEF Wants
    <3>3. ~Wants(new, x, u, n)
      BY <3>1, <2>1, <2>2 DEF Wants, Distinct
    <3> QED
      BY <2>3, <3>2, <3>3
  <2>4. CASE Request(x, u, n) \notin R
    <3>1. Wants(new, x, u, n) => Wants(lis, x, u, n)
      BY <2>1, <2>2, <1>4 DEF Wants
    <3>2. ASSUME Wants(lis, x, u, n) PROVE Wants(new, x, u, n)
      <4>1. PICK g \in DOMAIN lis : lis[g].universe = u /\ n \in lis[g].netints
                     /\ lis[g].sockets[Type(n)] = x
        BY <3>2 DEF Wants
      <4>2. CASE g # h \/ Type(n) # t
        BY <4>1, <4>2, <2>1, <1>4 DEF Wants
      <4>3. CASE g = h /\ Type(n) = t
        BY <4>1, <4>3, <2>4, <1>5
      <4> QED
        BY <4>2, <4>3
    <3> QED
      BY <2>4, <3>1, <3>2
  <2> QED
    BY <2>3, <2>4
<1> HIDE DEF new
<1>7. Once(c) /\ cancelled \subseteq Subs(c) /\ cancelled = R \cap Subs(c)
  BY DEF Asks, BagIn, Subs
<1>8. /\ without.subscribes = SetToBag(Subs(c) \ cancelled) /\ Subs(without) = Subs(c) \ cancelled
      /\ without.unsubscribes = c.unsubscribes /\ without.open = c.open /\ HasFields(without)
  <2>1. /\ without.subscribes = c.subscribes (-) SetToBag(cancelled)
        /\ without.unsubscribes = c.unsubscribes /\ without.open = c.open /\ HasFields(without)
    BY <1>1 DEF HasFields, Fields
  <2> HIDE DEF without, cancelled
  <2>2. without.subscribes = SetToBag(Subs(c) \ cancelled)
    BY <2>1, <1>7, SetBags DEF Once
  <2> QED
    BY <2>1, <2>2, SetBags DEF Subs
<1>9. d = IF queued THEN [without EXCEPT !.unsubscribes = @ (+) SetToBag(rest)] ELSE Left(without, rest)
  BY DEF unsubscribe_socket
<1>10. rest = R \ Subs(c) /\ Subs(c) \ cancelled = Subs(c) \ R
  BY <1>7
<1> HIDE DEF without, cancelled, d, rest
<1>11. \A x \in DOMAIN c.open, u \in AnyUniverse, n \in Netints : WantedOrLeft(c, lis, x, u, n)
  BY DEF Asks
<1>12. \A r \in rest : r = Request(r.socket, r.universe, r.netint)
           /\ <<r.universe, r.netint>> \in c.open[r.socket]
                       /\ r \notin Unsubs(c) /\ r.socket \in DOMAIN c.open
  <2> SUFFICES ASSUME NEW r \in rest
               PROVE  r = Request(r.socket, r.universe, r.netint)
                        /\ <<r.universe, r.netint>> \in c.open[r.socket]
                      /\ r \notin Unsubs(c) /\ r.socket \in DOMAIN c.open
    OBVIOUS
  <2>1. r \in [socket : DOMAIN c.open, universe : AnyUniverse, netint : Netints] /\ r \in R
            /\ r \notin Subs(c)
    BY <1>5, <1>10
  <2>2. r = Request(r.socket, r.universe, r.netint) /\ r.socket \in DOMAIN c.open
        /\ r.universe \in AnyUniverse /\ r.netint \in Netints
    BY <2>1, RequestOf
  <2>3. Wants(lis, r.socket, r.universe, r.netint)
    BY <2>1, <2>2, <1>6
  <2> QED
    BY <2>1, <2>2, <2>3, <1>11 DEF WantedOrLeft
<1>13. CASE queued
  <2>1. /\ d.subscribes = without.subscribes /\ d.open = c.open
        /\ d.unsubscribes = c.unsubscribes (+) SetToBag(rest)
    BY <1>8, <1>9, <1>13 DEF HasFields, Fields
  <2>2. d.unsubscribes = SetToBag(Unsubs(c) \cup rest)
    <3>1. rest \cap Unsubs(c) = {}
      BY <1>12
    <3> QED
      BY <2>1, <3>1, <1>7, SetBags DEF Once
  <2>3. Subs(d) = Subs(c) \ R /\ Unsubs(d) = Unsubs(c) \cup (R \ Subs(c))
    BY <2>1, <2>2, <1>8, <1>10, SetBags DEF Subs, Unsubs
  <2>4. Once(d)
    BY <2>1, <2>2, <2>3, <1>5, <1>7, <1>8, <1>10 DEF Once
  <2>5. ASSUME NEW x \in DOMAIN c.open, NEW u \in AnyUniverse, NEW n \in Netints
        PROVE  WantedOrLeft(d, new, x, u, n)
    <3>1. WantedOrLeft(c, lis, x, u, n)
      BY <1>11
    <3>2. /\ Request(x, u, n) \in R => Wants(lis, x, u, n)
          /\ Wants(new, x, u, n) <=> Wants(lis, x, u, n) /\ Request(x, u, n) \notin R
      BY <1>6
    <3> QED
      BY <3>1, <3>2, <2>1, <2>3 DEF WantedOrLeft
  <2> QED
    BY <2>1, <2>4, <2>5 DEF Asks, NothingJoined, d, new, R
<1>14. CASE ~queued
  <2>1. rest = {}
    BY <1>12, <1>14 DEF NothingJoined
  <2>2. /\ d.subscribes = without.subscribes /\ d.unsubscribes = c.unsubscribes
        /\ DOMAIN d.open = DOMAIN c.open /\ \A x \in DOMAIN c.open : d.open[x] = c.open[x]
    <3>1. /\ SameButRequests(without, d) /\ SameRequests(without, d)
      BY <1>8, <1>9, <1>14, LeftIs
    <3>2. d = [without EXCEPT !.open =
              [x \in DOMAIN @ |-> @[x] \ {<<r.universe, r.netint>> : r \in {r \in {} : r.socket = x}}]]
      BY <2>1, <1>9, <1>14 DEF Left
    <3>3. d.open = [x \in DOMAIN c.open |-> c.open[x]]
      BY <3>2, <1>8 DEF HasFields, Fields
    <3>4. DOMAIN d.open = DOMAIN c.open /\ \A x \in DOMAIN c.open : d.open[x] = c.open[x]
      BY <3>3
    <3> QED
      BY <3>1, <3>4, <1>8 DEF SameRequests
  <2>3. Subs(d) = Subs(c) \ R /\ Unsubs(d) = Unsubs(c)
    BY <2>2, <1>8, <1>10 DEF Subs, Unsubs
  <2>4. Once(d)
    BY <2>2, <2>3, <1>7, <1>8, <1>10 DEF Once
  <2>5. ASSUME NEW x \in DOMAIN c.open, NEW u \in AnyUniverse, NEW n \in Netints
        PROVE  WantedOrLeft(d, new, x, u, n)
    <3>1. WantedOrLeft(c, lis, x, u, n) /\ c.open[x] = {}
      BY <1>11, <1>14 DEF NothingJoined
    <3>2. /\ Request(x, u, n) \in R => Wants(lis, x, u, n)
          /\ Wants(new, x, u, n) <=> Wants(lis, x, u, n) /\ Request(x, u, n) \notin R
      BY <1>6
    <3> QED
      BY <3>1, <3>2, <2>2, <2>3 DEF WantedOrLeft
  <2> QED
    BY <2>2, <2>4, <2>5 DEF Asks, NothingJoined, d, new, R
<1> QED
  BY <1>13, <1>14

(* The socket of a receiver is open, and one that is gone nobody wants.     *)
LEMMA WantedIsOpen ==
    ASSUME NEW c, NEW gone, NEW lis, NEW broken, Sound(c, gone, lis, broken),
           NEW s, NEW u, NEW n \in Netints, s # NoSocket, Wants(lis, s, u, n)
    PROVE  s \in DOMAIN c.open /\ \A a \in gone : a.handle # s
<1>1. Type(n) \in IpTypes
  BY SocketsAssumption DEF Type
<1>2. PICK h \in DOMAIN lis : lis[h].sockets[Type(n)] = s
  BY DEF Wants
<1>3. PICK i \in Those(c) : Nth(c, i).handle = s
  BY <1>1, <1>2 DEF Sound, Counted
<1> QED
  BY <1>3 DEF Sound, HandlesKept

(* A socket is closed for which nothing is asked any more.                  *)
LEMMA AsksClosed ==
    ASSUME NEW c, NEW d, NEW gone, NEW lis, NEW broken, Sound(c, gone, lis, broken),
           NEW socket \in gone, Asks(c, lis),
           NothingJoined(c) \/ (Subs(c) = {} /\ Unsubs(c) = {}),
           SameRequests(c, d), d.open = Restrict(c.open, DOMAIN c.open \ {socket.handle})
    PROVE  Asks(d, lis) /\ (NothingJoined(c) => NothingJoined(d))
<1>1. /\ DOMAIN d.open = DOMAIN c.open \ {socket.handle}
      /\ \A s \in DOMAIN d.open : d.open[s] = c.open[s]
  BY DEF Restrict
<1>2. Subs(d) = Subs(c) /\ Unsubs(d) = Unsubs(c)
  BY DEF Subs, Unsubs, SameRequests
<1>3. \A r \in Subs(c) \cup Unsubs(c) : r.socket # socket.handle
  <2> SUFFICES ASSUME NEW r \in Subs(c) \cup Unsubs(c), r.socket = socket.handle PROVE FALSE
    OBVIOUS
  <2>1. r \in [socket : DOMAIN c.open, universe : AnyUniverse, netint : Netints]
    BY DEF Asks, Once
  <2>2. /\ r = Request(r.socket, r.universe, r.netint) /\ r.socket \in DOMAIN c.open
        /\ r.universe \in AnyUniverse /\ r.netint \in Netints
    BY <2>1, RequestOf
  <2>3. WantedOrLeft(c, lis, r.socket, r.universe, r.netint)
    BY <2>2 DEF Asks
  <2>4. r.socket # NoSocket
    BY <2>2, SocketsAssumption DEF Sound, IsContext
  <2>5. ~Wants(lis, r.socket, r.universe, r.netint)
    BY <2>2, <2>4, WantedIsOpen
  <2>6. r \notin Subs(c)
    BY <2>2, <2>3, <2>5 DEF WantedOrLeft
  <2>7. <<r.universe, r.netint>> \in c.open[r.socket]
    BY <2>2, <2>3, <2>6 DEF WantedOrLeft
  <2> QED
    BY <2>2, <2>6, <2>7 DEF NothingJoined
<1>4. Once(d)
  <2>1. d.subscribes = SetToBag(Subs(d)) /\ d.unsubscribes = SetToBag(Unsubs(d))
    BY <1>2 DEF Asks, Once, SameRequests
  <2>2. \A r \in Subs(d) \cup Unsubs(d) :
            r \in [socket : DOMAIN d.open, universe : AnyUniverse, netint : Netints]
    <3> SUFFICES ASSUME NEW r \in Subs(c) \cup Unsubs(c)
                 PROVE  r \in [socket : DOMAIN d.open, universe : AnyUniverse, netint : Netints]
      BY <1>2
    <3>1. r \in [socket : DOMAIN c.open, universe : AnyUniverse, netint : Netints]
              /\ r.socket # socket.handle
      BY <1>3 DEF Asks, Once
    <3> QED
      BY <3>1, <1>1
  <2> QED
    BY <2>1, <2>2 DEF Once
<1>5. \A s \in DOMAIN d.open, u \in AnyUniverse, n \in Netints : WantedOrLeft(d, lis, s, u, n)
  BY <1>1, <1>2 DEF Asks, WantedOrLeft
<1> QED
  BY <1>1, <1>4, <1>5 DEF Asks, NothingJoined

(* A new socket has joined nothing, and nobody has it yet.                  *)
LEMMA AsksOpened ==
    ASSUME NEW c, NEW d, NEW gone, NEW lis, NEW broken, Sound(c, gone, lis, broken),
           Asks(c, lis), NEW x \in Sockets, x \notin DOMAIN c.open, SameRequests(c, d),
           d.open = [s \in DOMAIN c.open \cup {x} |-> IF s = x THEN {} ELSE c.open[s]]
    PROVE  Asks(d, lis) /\ (NothingJoined(c) => NothingJoined(d))
<1>1. /\ DOMAIN d.open = DOMAIN c.open \cup {x} /\ d.open[x] = {}
      /\ \A s \in DOMAIN c.open : d.open[s] = c.open[s]
  OBVIOUS
<1>2. Subs(d) = Subs(c) /\ Unsubs(d) = Unsubs(c)
  BY DEF Subs, Unsubs, SameRequests
<1>3. Once(d)
  <2>1. d.subscribes = SetToBag(Subs(d)) /\ d.unsubscribes = SetToBag(Unsubs(d))
    BY <1>2 DEF Asks, Once, SameRequests
  <2>2. [socket : DOMAIN c.open, universe : AnyUniverse, netint : Netints]
           \subseteq [socket : DOMAIN d.open, universe : AnyUniverse, netint : Netints]
    BY <1>1
  <2> QED
    BY <2>1, <2>2, <1>2 DEF Once, Asks
<1>4. ASSUME NEW u \in AnyUniverse, NEW n \in Netints PROVE WantedOrLeft(d, lis, x, u, n)
  <2>1. x # NoSocket
    BY SocketsAssumption
  <2>2. ~Wants(lis, x, u, n)
    BY <2>1, WantedIsOpen
  <2>3. \A r \in Subs(c) \cup Unsubs(c) : r.socket # x
    <3>1. Subs(c) \cup Unsubs(c) \subseteq [socket : DOMAIN c.open, universe : AnyUniverse,
              netint : Netints]
      BY DEF Asks, Once
    <3> QED
      BY <3>1
  <2>4. Request(x, u, n) \notin Subs(d) \cup Unsubs(d)
    BY <2>3, <1>2, RequestIs
  <2> QED
    BY <2>2, <2>4, <1>1 DEF WantedOrLeft
<1>5. \A s \in DOMAIN c.open, u \in AnyUniverse, n \in Netints : WantedOrLeft(d, lis, s, u, n)
  BY <1>1, <1>2 DEF Asks, WantedOrLeft
<1>6. \A s \in DOMAIN d.open : d.open[s] \subseteq AnyUniverse \X Netints
  BY <1>1 DEF Asks
<1> QED
  BY <1>1, <1>3, <1>4, <1>5, <1>6 DEF Asks, NothingJoined

(* The receiver h asks for its universe on the socket it got.               *)
LEMMA AsksMore ==
    ASSUME NEW c, NEW lis, Asks(c, lis), Distinct(lis), IsListeners(lis), IsContext(c),
           NEW s \in DOMAIN c.open, NEW t \in IpTypes, NEW h \in DOMAIN lis,
           lis[h].sockets[t] = NoSocket
    PROVE  LET d == queue_subscription(c, Requests(s, t, lis[h].universe, lis[h].netints)) IN
           /\ Asks(d, Put(lis, h, t, s)) /\ d.open = c.open
<1> DEFINE R == Requests(s, t, lis[h].universe, lis[h].netints)
           d == queue_subscription(c, R)
           new == Put(lis, h, t, s)
           cancelled == {r \in R : BagIn(r, c.unsubscribes)}
<1>1. s # NoSocket /\ s \in Sockets \cup {NoSocket} /\ HasFields(c) /\ NoSocket \notin DOMAIN c.open
  BY SocketsAssumption DEF IsContext
<1>2. lis[h].universe \in AnyUniverse /\ lis[h].netints \subseteq Netints
  BY DEF IsListeners, Listener, AnyUniverse
<1>3. \A n \in Netints : Type(n) \in IpTypes
  BY SocketsAssumption DEF Type
<1>4. /\ \A x \in DOMAIN c.open, u \in AnyUniverse, n \in Netints :
            Request(x, u, n) \in R <=> x = s /\ u = lis[h].universe /\ n \in lis[h].netints
              /\ Type(n) = t
      /\ R \subseteq [socket : DOMAIN c.open, universe : AnyUniverse, netint : Netints]
  <2>1. \A r \in R : \E n \in lis[h].netints : Type(n) = t /\ r = Request(s, lis[h].universe, n)
    BY DEF Requests
  <2>2. \A n \in lis[h].netints : Type(n) = t => Request(s, lis[h].universe, n) \in R
    BY DEF Requests
  <2> HIDE DEF R
  <2>3. R \subseteq [socket : DOMAIN c.open, universe : AnyUniverse, netint : Netints]
    BY <2>1, <1>2 DEF Request
  <2> QED
    BY <2>1, <2>2, <2>3, RequestIs
<1>5. /\ DOMAIN new = DOMAIN lis /\ new[h].sockets[t] = s
      /\ \A g \in DOMAIN lis, v \in IpTypes : g # h \/ v # t => new[g].sockets[v] = lis[g].sockets[v]
      /\ \A g \in DOMAIN lis : new[g].universe = lis[g].universe /\ new[g].netints = lis[g].netints
  BY <1>1, PutIs
<1>6. cancelled = R \cap Unsubs(c) /\ R \ cancelled = R \ Unsubs(c)
  BY DEF BagIn, Unsubs
<1> HIDE DEF R, new
<1>7. ASSUME NEW x \in DOMAIN c.open, NEW u \in AnyUniverse, NEW n \in Netints
      PROVE  /\ Request(x, u, n) \in R => ~Wants(lis, x, u, n)
             /\ Wants(new, x, u, n) <=> Wants(lis, x, u, n) \/ Request(x, u, n) \in R
  <2>1. Type(n) \in IpTypes
    BY <1>3
  <2>2. Request(x, u, n) \in R <=> x = s /\ u = lis[h].universe /\ n \in lis[h].netints /\ Type(n) = t
    BY <1>4
  <2>3. Request(x, u, n) \in R => ~Wants(lis, x, u, n)
    BY <2>2, <1>1 DEF Wants, Distinct
  <2>4. ASSUME Wants(new, x, u, n), Request(x, u, n) \notin R PROVE Wants(lis, x, u, n)
    <3>1. PICK g \in DOMAIN lis : new[g].universe = u /\ n \in new[g].netints
                   /\ new[g].sockets[Type(n)] = x
      BY <2>4, <1>5 DEF Wants
    <3>2. g # h \/ Type(n) # t
      BY <3>1, <1>5, <2>2, <2>4
    <3> QED
      BY <3>1, <3>2, <1>5, <2>1 DEF Wants
  <2>5. ASSUME Wants(lis, x, u, n) PROVE Wants(new, x, u, n)
    <3>1. PICK g \in DOMAIN lis : lis[g].universe = u /\ n \in lis[g].netints
                   /\ lis[g].sockets[Type(n)] = x
      BY <2>5 DEF Wants
    <3>2. g # h \/ Type(n) # t
      BY <3>1, <1>1
    <3> QED
      BY <3>1, <3>2, <1>5, <2>1 DEF Wants
  <2>6. Request(x, u, n) \in R => Wants(new, x, u, n)
    BY <2>2, <1>5 DEF Wants
  <2> QED
    BY <2>3, <2>4, <2>5, <2>6
<1>8. /\ d.open = c.open /\ d.unsubscribes = c.unsubscribes (-) SetToBag(cancelled)
      /\ d.subscribes = c.subscribes (+) SetToBag(R \ cancelled)
  BY <1>1 DEF queue_subscription, HasFields, Fields
<1> HIDE DEF d, cancelled
<1>9. Once(c) /\ \A x \in DOMAIN c.open, u \in AnyUniverse,
          n \in Netints : WantedOrLeft(c, lis, x, u, n)
  BY DEF Asks
<1>10. \A r \in R : r \notin Subs(c)
  <2> SUFFICES ASSUME NEW r \in R PROVE r \notin Subs(c)
    OBVIOUS
  <2>1. /\ r = Request(r.socket, r.universe, r.netint) /\ r.socket \in DOMAIN c.open
        /\ r.universe \in AnyUniverse /\ r.netint \in Netints
    BY <1>4, RequestOf
  <2>2. ~Wants(lis, r.socket, r.universe, r.netint)
    BY <2>1, <1>7
  <2>3. WantedOrLeft(c, lis, r.socket, r.universe, r.netint)
    BY <2>1, <1>9
  <2> QED
    BY <2>1, <2>2, <2>3 DEF WantedOrLeft
<1>11. d.unsubscribes = SetToBag(Unsubs(c) \ R)
  <2>1. cancelled \subseteq Unsubs(c) /\ Unsubs(c) \ cancelled = Unsubs(c) \ R
    BY <1>6
  <2> QED
    BY <2>1, <1>8, <1>9, SetBags DEF Once
<1>12. d.subscribes = SetToBag(Subs(c) \cup (R \ Unsubs(c)))
  <2> DEFINE added == R \ Unsubs(c)
  <2>1. added \cap Subs(c) = {}
    BY <1>10
  <2>2. d.subscribes = SetToBag(Subs(c)) (+) SetToBag(added)
    BY <1>6, <1>8, <1>9 DEF Once
  <2> HIDE DEF added
  <2>3. SetToBag(Subs(c)) (+) SetToBag(added) = SetToBag(Subs(c) \cup added)
    BY <2>1, SetBags
  <2> QED
    BY <2>2, <2>3 DEF added
<1>13. Subs(d) = Subs(c) \cup (R \ Unsubs(c)) /\ Unsubs(d) = Unsubs(c) \ R
  BY <1>11, <1>12, SetBags DEF Subs, Unsubs
<1>14. Once(d)
  <2>1. \A r \in Subs(d) \cup Unsubs(d) :
            r \in [socket : DOMAIN c.open, universe : AnyUniverse, netint : Netints]
    BY <1>4, <1>9, <1>13 DEF Once
  <2> QED
    BY <2>1, <1>8, <1>11, <1>12, <1>13 DEF Once
<1>15. ASSUME NEW x \in DOMAIN c.open, NEW u \in AnyUniverse, NEW n \in Netints
       PROVE  WantedOrLeft(d, new, x, u, n)
  <2>1. WantedOrLeft(c, lis, x, u, n)
    BY <1>9
  <2>2. /\ Request(x, u, n) \in R => ~Wants(lis, x, u, n)
        /\ Wants(new, x, u, n) <=> Wants(lis, x, u, n) \/ Request(x, u, n) \in R
    BY <1>7
  <2> QED
    BY <2>1, <2>2, <1>8, <1>13 DEF WantedOrLeft
<1> QED
  BY <1>8, <1>14, <1>15 DEF Asks, d, new, R

-----------------------------------------------------------------------------
(* All of it, between two calls; what is asked is followed only where no    *)
(* universe is changed.                                                     *)

Kept(c, lis, broken, exact) ==
    /\ Between(c, lis, broken)
    /\ exact => Asks(c, lis) /\ Distinct(lis)

(* No socket has been polled yet.                                           *)
AllNew(c) == c.new_socket_refs = Len(c.socket_refs)

(* What a call of the sockets may not do.                                   *)
Follows(c, d) ==
    /\ SameThread(c, d)
    /\ NothingJoined(c) => NothingJoined(d)
    /\ AllNew(c) => AllNew(d)

(* To remove a reference asks for nothing, and leaves new ones new.         *)
LEMMA RefRemovedIs ==
    ASSUME NEW c, IsContext(c), PendingLast(c), NEW i \in Those(c)
    PROVE  LET d == remove_socket_ref(c, i) IN
           /\ SameRequests(c, d) /\ d.open = c.open /\ d.dead_sockets = c.dead_sockets
           /\ Follows(c, d)
<1> DEFINE d == remove_socket_ref(c, i)
<1>1. /\ SameRequests(c, d) /\ d.open = c.open /\ d.dead_sockets = c.dead_sockets /\ SameThread(c, d)
  BY DEF remove_socket_ref, IsContext, HasFields, Fields, SameRequests, SameThread
<1>2. AllNew(c) => AllNew(d)
  <2> SUFFICES ASSUME AllNew(c) PROVE AllNew(d)
    OBVIOUS
  <2>1. /\ c.socket_refs \in Seq(Ref) /\ i \in 1 .. Len(c.socket_refs) /\ Len(c.socket_refs) \in Nat
        /\ c.new_socket_refs = Len(c.socket_refs)
    BY DEF AllNew, IsContext, Those
  <2>2. c.socket_refs[i].pending
    BY <2>1 DEF PendingLast, Those
  <2>3. CASE c.socket_refs[i].refcount > 1
    <3> DEFINE ref == [c.socket_refs[i] EXCEPT !.refcount = @ - 1]
    <3>1. d.socket_refs = [c.socket_refs EXCEPT ![i] = ref] /\ d.new_socket_refs = c.new_socket_refs
      BY <2>3 DEF remove_socket_ref, IsContext, HasFields, Fields
    <3>2. c.socket_refs[i] \in Ref
      BY <2>1
    <3>3. ref \in Ref
      BY <3>2, <2>3, SocketsAssumption DEF Ref
    <3> HIDE DEF d, ref
    <3>4. Len(d.socket_refs) = Len(c.socket_refs)
      BY <3>1, <3>3, RefReplaced
    <3> QED
      BY <3>1, <3>4, <2>1 DEF AllNew, d
  <2>4. CASE ~(c.socket_refs[i].refcount > 1)
    <3>1. d.socket_refs = RemoveAt(c.socket_refs, i) /\ d.new_socket_refs = c.new_socket_refs - 1
      BY <2>4, <2>2 DEF remove_socket_ref, IsContext, HasFields, Fields
    <3> HIDE DEF d
    <3>2. Len(d.socket_refs) = Len(c.socket_refs) - 1
      BY <3>1, <2>1, RemoveAtIs
    <3> QED
      BY <3>1, <3>2, <2>1 DEF AllNew, d
  <2> QED
    BY <2>3, <2>4
<1> HIDE DEF d
<1> QED
  BY <1>1, <1>2 DEF Follows, NothingJoined, d

(* To leave groups joins none, and leaves new sockets new.                  *)
LEMMA UnsubscribedFollows ==
    ASSUME NEW c, HasFields(c), NEW requests, NEW queued \in BOOLEAN
    PROVE  Follows(c, unsubscribe_socket(c, requests, queued))
<1> DEFINE cancelled == {r \in requests : BagIn(r, c.subscribes)}
           without == [c EXCEPT !.subscribes = @ (-) SetToBag(cancelled)]
           rest == requests \ cancelled
           d == unsubscribe_socket(c, requests, queued)
<1>1. d = IF queued THEN [without EXCEPT !.unsubscribes = @ (+) SetToBag(rest)] ELSE Left(without, rest)
  BY DEF unsubscribe_socket
<1>2. SameButRequests(c, d)
  BY UnsubscribedKeeps
<1>3. HasFields(without) /\ without.open = c.open
  BY DEF HasFields, Fields
<1> HIDE DEF without, rest, d
<1>4. queued => d.open = without.open
  BY <1>1, <1>3 DEF HasFields, Fields
<1>5. ~queued => \A s \in DOMAIN c.open : d.open[s] \subseteq c.open[s]
  BY <1>1, <1>3, LeftIs
<1>6. NothingJoined(c) => NothingJoined(d)
  BY <1>2, <1>3, <1>4, <1>5 DEF NothingJoined, SameButRequests
<1> QED
  BY <1>2, <1>6 DEF Follows, SameButRequests, AllNew, d

(* The one that has the i-th socket gives it back.                          *)
LEMMA RefGivenBack ==
    ASSUME NEW c, NEW lis, NEW broken, NEW exact \in BOOLEAN, Kept(c, lis, broken, exact),
           NEW i \in Those(c), NEW h \in DOMAIN lis,
           lis[h].sockets[Nth(c, i).ip_type] = Nth(c, i).handle,
           NEW universe, NEW netints, exact => universe = lis[h].universe /\ netints = lis[h].netints,
           NEW queued \in BOOLEAN, exact => queued \/ NothingJoined(c)
    PROVE  LET d == unsubscribe_socket_ref(c, i, universe, netints, queued) IN
           /\ Kept(d, Put(lis, h, Nth(c, i).ip_type, NoSocket), broken, exact)
           /\ Follows(c, d) /\ (~queued => d.dead_sockets = c.dead_sockets)
<1> DEFINE ref == c.socket_refs[i]
           socket == Nth(c, i)
           gone == Range(c.dead_sockets)
           new == Put(lis, h, socket.ip_type, NoSocket)
           less == unsubscribe_socket(c, Requests(socket.handle, socket.ip_type, universe, netints),
             queued)
           removed == remove_socket_ref(less, i)
           d == unsubscribe_socket_ref(c, i, universe, netints, queued)
<1>1. d = IF ref.refcount > 1 THEN removed ELSE cleanup_receive_socket(removed, socket, queued)
  BY DEF unsubscribe_socket_ref, Nth
<1>2. SameButRequests(c, less) /\ Follows(c, less)
  BY UnsubscribedKeeps, UnsubscribedFollows DEF Kept, Between, Sound, IsContext
<1>3. exact => Asks(less, new) /\ Distinct(new)
  <2> SUFFICES ASSUME exact PROVE Asks(less, new) /\ Distinct(new)
    OBVIOUS
  <2>1. Asks(less, new)
    <3>1. Sound(c, Range(c.dead_sockets), lis, broken) /\ Asks(c, lis) /\ Distinct(lis)
      BY DEF Kept, Between
    <3> QED
      BY <3>1, AsksLess
  <2>2. socket.ip_type \in IpTypes /\ IsListeners(lis)
    BY RefTyped DEF Kept, Between, Sound
  <2>3. DOMAIN new = DOMAIN lis /\ \A g \in DOMAIN lis : new[g].universe = lis[g].universe
    BY <2>2, PutIs
  <2> QED
    BY <2>1, <2>3 DEF Kept, Distinct
<1> HIDE DEF less, d
<1>4. Sound(less, gone, lis, broken)
  BY <1>2, RequestsKeep DEF Kept, Between
<1>5. /\ less.socket_refs = c.socket_refs /\ Those(less) = Those(c) /\ Nth(less, i) = socket
      /\ less.dead_sockets = c.dead_sockets
  BY <1>2 DEF SameButRequests, Those, Nth
<1>6. SameRequests(less, removed) /\ removed.open = less.open /\ Follows(less, removed)
      /\ removed.dead_sockets = c.dead_sockets
  BY <1>4, <1>5, RefRemovedIs DEF Sound
<1>7. exact => Asks(removed, new)
  BY <1>3, <1>6, AsksSame
<1>8. Follows(c, removed)
  BY <1>2, <1>6 DEF Follows, SameThread
<1>9. CASE ref.refcount > 1
  <2>1. Sound(removed, gone, new, broken)
    BY <1>4, <1>5, <1>9, OneUserLess
  <2> HIDE DEF removed, new
  <2> QED
    BY <2>1, <1>1, <1>3, <1>5, <1>6, <1>7, <1>8, <1>9 DEF Kept, Between, DeadListed, d, new
<1>10. CASE ~(ref.refcount > 1)
  <2>1. Sound(removed, gone \cup {socket}, new, broken)
    BY <1>4, <1>5, <1>10, LastUserLess
  <2>2. socket \notin gone
    BY DEF Kept, Between, Sound, HandlesKept
  <2> HIDE DEF removed, new, gone
  <2>3. DeadListed(removed) /\ Range(removed.dead_sockets) = gone
    BY <1>6 DEF Kept, Between, DeadListed, gone
  <2>4. CASE queued
    <3> DEFINE e == [removed EXCEPT !.dead_sockets = Append(@, socket)]
    <3>1. d = e
      BY <2>4, <1>1, <1>10 DEF cleanup_receive_socket
    <3>2. Between(e, new, broken) /\ SameThread(removed, e) /\ SameRequests(removed, e)
              /\ e.open = removed.open
      <4>1. DeadMore(removed, e, new, broken)
        BY <2>1, <2>2, <2>3, DeadQueued
      <4> QED
        BY <4>1 DEF DeadMore
    <3>3. e.socket_refs = removed.socket_refs /\ e.new_socket_refs = removed.new_socket_refs
      BY <2>1 DEF Sound, IsContext, HasFields, Fields
    <3> HIDE DEF e
    <3>4. exact => Asks(e, new)
      BY <3>2, <1>7, AsksSame
    <3>5. Follows(c, e)
      BY <3>2, <3>3, <1>8 DEF Follows, SameThread, NothingJoined, AllNew
    <3> QED
      BY <3>1, <3>2, <3>4, <3>5, <2>4, <1>3 DEF Kept, d, new
  <2>5. CASE ~queued
    <3> DEFINE e == CleanedUp(removed, socket)
               more == gone \cup {socket}
    <3>1. d = e
      BY <2>5, <1>1, <1>10 DEF cleanup_receive_socket
    <3>2. socket \in more /\ Sound(removed, more, new, broken) /\ more \ {socket} = gone
      BY <2>1, <2>2
    <3> HIDE DEF more
    <3>3. /\ Sound(e, more \ {socket}, new, broken) /\ SameThread(removed, e)
          /\ SameRequests(removed, e)
          /\ e.dead_sockets = removed.dead_sockets
          /\ Len(e.socket_refs) = Len(removed.socket_refs)
          /\ e.new_socket_refs = removed.new_socket_refs
          /\ e.open = Restrict(removed.open, DOMAIN removed.open \ {socket.handle})
      <4>1. Cleaned(removed, e, more, socket, new, broken)
        BY <3>2, CleanedUpSound
      <4> QED
        BY <4>1 DEF Cleaned
    <3> HIDE DEF e
    <3>4. exact => Asks(e, new)
      <4> SUFFICES ASSUME exact PROVE Asks(e, new)
        OBVIOUS
      <4>1. NothingJoined(removed)
        BY <2>5, <1>8 DEF Follows
      <4> QED
        BY <4>1, <3>2, <3>3, <1>7, AsksClosed
    <3>5. NothingJoined(removed) => NothingJoined(e)
      BY <3>3 DEF Restrict, NothingJoined
    <3>6. Follows(c, e)
      BY <3>3, <3>5, <1>8 DEF Follows, SameThread, AllNew
    <3> QED
      BY <3>1, <3>2, <3>3, <3>4, <3>6, <2>3, <2>5, <1>3, <1>6
      DEF Kept, Between, DeadListed, d, new
  <2> QED
    BY <2>4, <2>5
<1> QED
  BY <1>9, <1>10

(* The one with the handle h may give back a socket for these groups.       *)
MayGiveBack(c, lis, broken, exact, h, universe, netints, queued) ==
    /\ Kept(c, lis, broken, exact) /\ h \in DOMAIN lis
    /\ exact => universe = lis[h].universe /\ netints = lis[h].netints
    /\ exact => queued \/ NothingJoined(c)

GaveBack(c, d, new, broken, exact, queued) ==
    Kept(d, new, broken, exact) /\ Follows(c, d) /\ (~queued => d.dead_sockets = c.dead_sockets)

(* sacn_remove_receiver_socket: a listener gives the socket of a type back. *)
LEMMA SocketGivenBack ==
    ASSUME NEW c, NEW lis, NEW broken, NEW exact \in BOOLEAN, NEW h, NEW universe, NEW netints,
           NEW queued \in BOOLEAN, MayGiveBack(c, lis, broken, exact, h, universe, netints, queued),
           NEW t \in IpTypes, lis[h].sockets[t] # NoSocket
    PROVE  GaveBack(c, sacn_remove_receiver_socket(c, lis[h].sockets[t], universe, netints, queued),
                    Put(lis, h, t, NoSocket), broken, exact, queued)
<1>0. h \in DOMAIN lis /\ Kept(c, lis, broken, exact)
  BY DEF MayGiveBack
<1>1. PICK i \in Those(c) : Nth(c, i).handle = lis[h].sockets[t] /\ Nth(c, i).ip_type = t
  BY <1>0 DEF Kept, Between, Sound, Counted
<1>2. find_socket_ref_by_handle(c, lis[h].sockets[t]) = i
  BY <1>0, <1>1, FoundByHandle DEF Kept, Between, Sound
<1>3. sacn_remove_receiver_socket(c, lis[h].sockets[t], universe, netints, queued)
        = unsubscribe_socket_ref(c, i, universe, netints, queued)
  BY <1>2 DEF sacn_remove_receiver_socket
<1> DEFINE d == unsubscribe_socket_ref(c, i, universe, netints, queued)
<1>4. GaveBack(c, d, Put(lis, h, Nth(c, i).ip_type, NoSocket), broken, exact, queued)
  BY <1>0, <1>1, RefGivenBack DEF MayGiveBack, GaveBack
<1> QED
  BY <1>1, <1>3, <1>4

(* What sacn_add_receiver_socket tells.                                     *)
HasTold(result, netints, t) ==
    /\ IsAdded(result)
    /\ result.res = "ok" <=> result.socket # NoSocket
    /\ result.res = "no_netints" => \A n \in netints : Type(n) # t

(* The receiver h asks for what it does not have on its socket yet.         *)
LEMMA Subscribes ==
    ASSUME NEW c, NEW lis, NEW broken, NEW exact \in BOOLEAN, IsListeners(lis),
           NEW h \in DOMAIN lis, NEW i \in Those(c),
           NEW t \in IpTypes, Nth(c, i).ip_type = t, lis[h].sockets[t] = NoSocket,
           Between(c, Put(lis, h, t, Nth(c, i).handle), broken),
           exact => Asks(c, lis) /\ Distinct(lis), NEW universe, NEW netints,
           exact => universe = lis[h].universe /\ netints = lis[h].netints
    PROVE  LET result == SubscribedOn(c, i, t, universe, netints) IN
           /\ Kept(result.net, Put(lis, h, t, result.socket), broken, exact)
           /\ Follows(c, result.net) /\ HasTold(result, netints, t)
<1> DEFINE s == Nth(c, i).handle
           new == Put(lis, h, t, s)
           requests == Requests(c.socket_refs[i].socket.handle, t, universe, netints)
           result == SubscribedOn(c, i, t, universe, netints)
<1>1. result = IF requests = {}
               THEN [net |-> unsubscribe_socket_ref(c, i, universe, netints, TRUE),
                     socket |-> NoSocket, res |-> "no_netints"]
               ELSE [net |-> queue_subscription(c, requests), socket |-> s, res |-> "ok"]
  BY DEF SubscribedOn, Subscribed, Nth
<1>2. s \in Sockets /\ s # NoSocket /\ s \in DOMAIN c.open
  BY RefTyped DEF Between, Sound, HandlesKept
<1>3. /\ DOMAIN new = DOMAIN lis /\ new[h].sockets[t] = s
      /\ \A g \in DOMAIN lis, u \in IpTypes : g # h \/ u # t => new[g].sockets[u] = lis[g].sockets[u]
      /\ \A g \in DOMAIN lis : new[g].universe = lis[g].universe /\ new[g].netints = lis[g].netints
  BY <1>2, PutIs
<1>4. exact => Distinct(new)
  BY <1>3 DEF Distinct
<1>5. requests = {} <=> \A n \in netints : Type(n) # t
  BY DEF Requests
<1> HIDE DEF result
<1>6. CASE requests = {}
  <2> DEFINE d == unsubscribe_socket_ref(c, i, universe, netints, TRUE)
  <2> HIDE DEF new
  <2>1. exact => Asks(c, new)
    <3> SUFFICES ASSUME exact PROVE Asks(c, new)
      OBVIOUS
    <3>1. ASSUME NEW x \in DOMAIN c.open, NEW u \in AnyUniverse, NEW n \in Netints
          PROVE  Wants(new, x, u, n) <=> Wants(lis, x, u, n)
      <4>1. Type(n) \in IpTypes
        BY SocketsAssumption DEF Type
      <4>2. n \in lis[h].netints => Type(n) # t
        BY <1>5, <1>6
      <4>3. \A g \in DOMAIN lis : n \in lis[g].netints =>
                new[g].sockets[Type(n)] = lis[g].sockets[Type(n)]
        BY <4>1, <4>2, <1>3
      <4> QED
        BY <4>3, <1>3 DEF Wants
    <3>2. SameRequests(c, c)
      BY DEF SameRequests
    <3> QED
      BY <3>1, <3>2, AsksSame
  <2>2. Kept(c, new, broken, exact)
    BY <2>1, <1>4 DEF Kept, new
  <2>3. exact => universe = new[h].universe /\ netints = new[h].netints
    BY <1>3
  <2>4. h \in DOMAIN new /\ new[h].sockets[Nth(c, i).ip_type] = Nth(c, i).handle
    BY <1>3
  <2>5. Kept(d, Put(new, h, t, NoSocket), broken, exact) /\ Follows(c, d)
    <3>1. TRUE \in BOOLEAN /\ (exact => TRUE \/ NothingJoined(c))
      OBVIOUS
    <3>2. Kept(d, Put(new, h, Nth(c, i).ip_type, NoSocket), broken, exact) /\ Follows(c, d)
      BY <2>2, <2>3, <2>4, <3>1, RefGivenBack, Zenon
    <3> QED
      BY <3>2
  <2>6. Put(new, h, t, NoSocket) = Put(lis, h, t, NoSocket)
    BY PutPut DEF new
  <2> HIDE DEF d
  <2>7. result.net = d /\ result.socket = NoSocket /\ result.res = "no_netints"
    BY <1>1, <1>6 DEF d
  <2> QED
    BY <2>5, <2>6, <2>7, <1>5, <1>6 DEF IsAdded, HasTold, result
<1>7. CASE requests # {}
  <2> DEFINE d == queue_subscription(c, requests)
  <2> HIDE DEF new
  <2>1. SameButRequests(c, d) /\ d.open = c.open
    <3>1. SameButRequests(c, d)
      BY QueuedKeeps DEF Between, Sound, IsContext
    <3>2. d.open = c.open
      BY DEF Between, Sound, IsContext, queue_subscription, HasFields, Fields
    <3> QED
      BY <3>1, <3>2
  <2>2. exact => Asks(d, new)
    <3> SUFFICES ASSUME exact PROVE Asks(d, new)
      OBVIOUS
    <3>1. d = queue_subscription(c, Requests(s, t, lis[h].universe, lis[h].netints))
      BY DEF Nth
    <3> HIDE DEF d
    <3>2. IsContext(c)
      BY DEF Between, Sound
    <3> QED
      BY <3>1, <3>2, <1>2, AsksMore DEF new
  <2> HIDE DEF d
  <2>3. Sound(d, Range(c.dead_sockets), new, broken)
    BY <2>1, RequestsKeep DEF Between, new
  <2>4. Between(d, new, broken)
    BY <2>1, <2>3 DEF Between, DeadListed, SameButRequests, new
  <2>5. Follows(c, d)
    BY <2>1 DEF Follows, SameButRequests, NothingJoined, AllNew
  <2>6. result.net = d /\ result.socket = s /\ result.res = "ok"
    BY <1>1, <1>7 DEF d
  <2> QED
    BY <2>2, <2>4, <2>5, <2>6, <1>2, <1>4 DEF Kept, IsAdded, HasTold, result, new
<1> QED
  BY <1>6, <1>7

(* sacn_add_receiver_socket: a listener has the socket it is told, if any.  *)
LEMMA SocketAdded ==
    ASSUME NEW c, NEW lis, NEW broken, NEW exact \in BOOLEAN, Kept(c, lis, broken, exact),
           NEW h \in DOMAIN lis, NEW t \in IpTypes, lis[h].sockets[t] = NoSocket,
           NEW universe, NEW netints, NEW creates \in BOOLEAN,
           exact => universe = lis[h].universe /\ netints = lis[h].netints
    PROVE  LET result == sacn_add_receiver_socket(c, t, universe, netints, creates) IN
           /\ Kept(result.net, Put(lis, h, t, result.socket), broken, exact)
           /\ Follows(c, result.net) /\ HasTold(result, netints, t)
<1> DEFINE found == find_socket_ref_with_room(c, t)
           opened == Opened(c, found, t)
           i == IF found # 0 THEN found ELSE Len(c.socket_refs) + 1
           result == sacn_add_receiver_socket(c, t, universe, netints, creates)
           s == Nth(opened, i).handle
<1>1. IsContext(c) /\ IsListeners(lis) /\ Between(c, lis, broken)
  BY DEF Kept, Between, Sound
<1>2. found # 0 => found \in Those(c) /\ Nth(c, found).ip_type = t
          /\ c.socket_refs[found].refcount < MaxSubs
  BY <1>1, FoundIs
<1>3. result = IF found = 0 /\ (~creates \/ FreeSockets(c) = {})
               THEN [net |-> c, socket |-> NoSocket, res |-> "failed"]
               ELSE SubscribedOn(opened, i, t, universe, netints)
  BY DEF sacn_add_receiver_socket
<1> HIDE DEF found, result
<1>4. CASE found = 0 /\ (~creates \/ FreeSockets(c) = {})
  <2>1. result.net = c /\ result.socket = NoSocket /\ result.res = "failed"
    BY <1>3, <1>4
  <2>2. Put(lis, h, t, NoSocket) = lis
    <3>1. Put(lis, h, t, lis[h].sockets[t]) = lis
      BY <1>1, PutSame
    <3> QED
      BY <3>1
  <2>3. Follows(c, result.net) /\ HasTold(result, netints, t)
    BY <2>1 DEF Follows, SameThread, IsAdded, HasTold
  <2> QED
    BY <2>1, <2>2, <2>3 DEF result
<1>5. CASE ~(found = 0 /\ (~creates \/ FreeSockets(c) = {}))
  <2>1. /\ i \in Those(opened) /\ Nth(opened, i).ip_type = t /\ Follows(c, opened)
        /\ Between(opened, Put(lis, h, t, s), broken)
        /\ exact => Asks(opened, lis)
    <3>1. CASE found # 0
      <4> DEFINE d == [c EXCEPT !.socket_refs[found].refcount = @ + 1]
      <4>1. opened = d /\ i = found
        BY <3>1 DEF Opened
      <4>2. /\ Between(d, Put(lis, h, t, Nth(c, found).handle), broken)
            /\ SameThread(c, d) /\ SameRequests(c, d) /\ d.open = c.open
            /\ Those(d) = Those(c) /\ Nth(d, found) = Nth(c, found)
        BY <3>1, <1>1, <1>2, OneUserMore
      <4>3. d.new_socket_refs = c.new_socket_refs
        BY <1>1 DEF IsContext, HasFields, Fields
      <4> HIDE DEF d, opened, i
      <4>4. Len(d.socket_refs) = Len(c.socket_refs)
        <5>1. IsContext(d)
          BY <4>2 DEF Between, Sound
        <5>2. /\ Those(d) = 1 .. Len(d.socket_refs) /\ Len(d.socket_refs) \in Nat
              /\ Those(c) = 1 .. Len(c.socket_refs) /\ Len(c.socket_refs) \in Nat
          BY <5>1, <1>1, RefTyped
        <5> QED
          BY <5>2, <4>2
      <4>5. Follows(c, d)
        BY <4>2, <4>3, <4>4 DEF Follows, NothingJoined, AllNew
      <4>6. exact => Asks(d, lis)
        BY <4>2, AsksSame DEF Kept
      <4> QED
        BY <3>1, <4>1, <4>2, <4>5, <4>6, <1>2
    <3>2. CASE found = 0
      <4> DEFINE d == WithNewSocket(c, t)
                 n == Len(c.socket_refs) + 1
                 x == Least(FreeSockets(c))
      <4>1. opened = d /\ i = n
        BY <3>2 DEF Opened
      <4>2. /\ Between(d, Put(lis, h, t, x), broken)
            /\ SameThread(c, d) /\ SameRequests(c, d)
            /\ d.open = [y \in DOMAIN c.open \cup {x} |-> IF y = x THEN {} ELSE c.open[y]]
            /\ n \in Those(d) /\ Nth(d, n).handle = x /\ Nth(d, n).ip_type = t
            /\ x \in Sockets /\ x \notin DOMAIN c.open
        BY <3>2, <1>1, <1>5, NewSocketIs
      <4>3. AllNew(c) => AllNew(d)
        <5>1. /\ d.new_socket_refs = c.new_socket_refs + 1
              /\ \E ref : d.socket_refs = Append(c.socket_refs, ref)
          BY <1>1 DEF WithNewSocket, add_socket_ref, IsContext, HasFields, Fields
        <5> HIDE DEF d
        <5>2. Len(d.socket_refs) = Len(c.socket_refs) + 1
          BY <5>1, <1>1 DEF IsContext
        <5> QED
          BY <5>1, <5>2 DEF AllNew
      <4> HIDE DEF d, n, x, opened, i
      <4>4. exact => Asks(d, lis)
        BY <4>2, AsksOpened DEF Kept, Between
      <4>5. NothingJoined(c) => NothingJoined(d)
        BY <4>2 DEF NothingJoined
      <4> QED
        BY <4>1, <4>2, <4>3, <4>4, <4>5 DEF Follows
    <3> QED
      BY <3>1, <3>2
  <2>2. result = SubscribedOn(opened, i, t, universe, netints)
    BY <1>3, <1>5
  <2> HIDE DEF opened, i
  <2>3. exact => Asks(opened, lis) /\ Distinct(lis)
    BY <2>1 DEF Kept
  <2>4. /\ Kept(result.net, Put(lis, h, t, result.socket), broken, exact)
        /\ Follows(opened, result.net) /\ HasTold(result, netints, t)
    BY <2>1, <2>2, <2>3, <1>1, Subscribes
  <2> QED
    BY <2>1, <2>4 DEF Follows, SameThread, result
<1> QED
  BY <1>4, <1>5

(* The one with the handle h may be given a socket of the type t.           *)
MayAdd(c, lis, broken, exact, h, t, universe, netints) ==
    /\ Kept(c, lis, broken, exact) /\ h \in DOMAIN lis
    /\ lis[h].sockets[t] = NoSocket
    /\ exact => universe = lis[h].universe /\ netints = lis[h].netints

WasAdded(c, result, lis, broken, exact, h, t, netints) ==
    /\ Kept(result.net, Put(lis, h, t, result.socket), broken, exact)
    /\ Follows(c, result.net) /\ HasTold(result, netints, t)

(* The same, its hypotheses and its conclusion named.                       *)
LEMMA AddedFor ==
    ASSUME NEW c, NEW lis, NEW broken, NEW exact \in BOOLEAN, NEW h, NEW t \in IpTypes,
           NEW universe, NEW netints, NEW creates \in BOOLEAN,
           MayAdd(c, lis, broken, exact, h, t, universe, netints)
    PROVE  WasAdded(c, sacn_add_receiver_socket(c, t, universe, netints, creates),
                    lis, broken, exact, h, t, netints)
<1> DEFINE result == sacn_add_receiver_socket(c, t, universe, netints, creates)
<1>1. /\ Kept(c, lis, broken, exact) /\ h \in DOMAIN lis /\ lis[h].sockets[t] = NoSocket
      /\ exact => universe = lis[h].universe /\ netints = lis[h].netints
  BY DEF MayAdd
<1>2. /\ Kept(result.net, Put(lis, h, t, result.socket), broken, exact)
      /\ Follows(c, result.net) /\ HasTold(result, netints, t)
  BY <1>1, SocketAdded
<1> HIDE DEF result
<1> QED
  BY <1>2 DEF WasAdded, result

-----------------------------------------------------------------------------
(* The loops of the code, as folds over sets and sequences.  Ordered loops  *)
(* go through the numbers of a sequence.                                    *)

Largest(s) == CHOOSE x \in s : \A y \in s : x >= y

Picked(loop, s) == IF loop.ordered THEN Largest(s) ELSE CHOOSE x \in s : TRUE

MayRun(loop, S) == IsFiniteSet(S) /\ (loop.ordered => \E n \in Nat : S \subseteq 1 .. n)

(* What add_receiver_sockets does for a type.                               *)
Adds(so_far, t, l, fails) ==
    IF so_far.res = "failed" \/ t \notin l.ip_supported THEN so_far
    ELSE WithAdded(so_far, t, add_sockets(so_far.net, t, so_far.l, t \notin fails))

(* What ResetAll does for a receiver.                                       *)
Emptied(l) == [l EXCEPT !.sockets = NoSockets]

Resets(so_far, h, configs, usable, fails) ==
    LET l == Emptied(so_far.listeners[h])
        new == [l EXCEPT !.netints = InternalNetints(configs[h], usable)]
        added == add_receiver_sockets(so_far.net, new, fails) IN
    IF ~so_far.ok THEN [so_far EXCEPT !.listeners[h] = l]
    ELSE IF NoNetints(configs[h], usable)
    THEN [so_far EXCEPT !.ok = FALSE, !.listeners[h] = l]
    ELSE [net |-> added.net, ok |-> added.res = "ok",
          listeners |-> [so_far.listeners EXCEPT ![h] = added.l]]

(* One round of a loop, named so that what is said of loops is said once.   *)
Round(loop, d, x) ==
    IF loop.kind = "gives back"
    THEN sacn_remove_receiver_socket(d, loop.l.sockets[x], loop.l.universe, loop.l.netints, loop.queued)
    ELSE IF loop.kind = "polls" THEN poll_add_socket(d, x)
    ELSE IF loop.kind = "adds" THEN Adds(d, loop.seq[x], loop.l, loop.fails)
    ELSE IF loop.kind = "closes" THEN CleanedUp(d, loop.seq[x])
    ELSE IF loop.kind = "empties" THEN remove_sockets(d, loop.lis[loop.seq[x]], loop.queued)
    ELSE Resets(d, loop.seq[x], loop.configs, loop.usable, loop.fails)

(* f[s] is what the rounds for the elements of s make of b.                 *)
Runs(f, loop, b, S) ==
    f = [s \in SUBSET S |-> IF s = {} THEN b
                            ELSE Round(loop, f[s \ {Picked(loop, s)}], Picked(loop, s))]

(* Among the numbers of a sequence there is a largest.                      *)
LEMMA LargestIs ==
    ASSUME NEW n \in Nat, NEW s \in SUBSET (1 .. n), s # {}
    PROVE  Largest(s) \in s /\ \A y \in s : Largest(s) >= y
<1> DEFINE T == {n - x : x \in s}
<1>1. T \in SUBSET Nat /\ T # {}
  <2>1. \A x \in s : x \in 1 .. n /\ n - x \in Nat
    OBVIOUS
  <2> QED
    BY <2>1
<1>2. PICK z \in T : \A y \in T : z <= y
  <2> HIDE DEF T
  <2> QED
    BY <1>1, SmallestIs
<1>3. PICK x \in s : z = n - x
  OBVIOUS
<1>4. \A y \in s : x >= y
  <2> TAKE y \in s
  <2>1. n - y \in T /\ x \in 1 .. n /\ y \in 1 .. n
    OBVIOUS
  <2> QED
    BY <2>1, <1>2, <1>3
<1> QED
  BY <1>4 DEF Largest

(* A round is for an element of the set.                                    *)
LEMMA PickedIs ==
    ASSUME NEW loop, NEW S, MayRun(loop, S), NEW s \in SUBSET S, s # {}
    PROVE  Picked(loop, s) \in s
<1>1. CASE loop.ordered
  <2>1. PICK n \in Nat : S \subseteq 1 .. n
    BY <1>1 DEF MayRun
  <2>2. s \in SUBSET (1 .. n)
    BY <2>1
  <2> QED
    BY <2>2, <1>1, LargestIs DEF Picked
<1>2. CASE ~loop.ordered
  BY <1>2 DEF Picked
<1> QED
  BY <1>1, <1>2

(* What holds of the empty set, and of a set when it does of all but one of *)
(* its elements, holds of a finite set.                                     *)
LEMMA ByRemoval ==
    ASSUME NEW S, IsFiniteSet(S), NEW pick, \A s \in SUBSET S : s # {} => pick[s] \in s,
           NEW Holds \in SUBSET SUBSET S, {} \in Holds,
           \A s \in SUBSET S : s # {} /\ s \ {pick[s]} \in Holds => s \in Holds
    PROVE  S \in Holds
<1> DEFINE R == StrictSubsetOrdering(S)
           Fails == (SUBSET S) \ Holds
<1>1. IsWellFoundedOn(R, SUBSET S)
  <2>1. IsWellFoundedOn(R, FiniteSubsetsOf(S))
    BY FS_StrictSubsetOrderingWellFounded
  <2>2. FiniteSubsetsOf(S) = SUBSET S
    BY FS_FiniteSubsetsOfFinite
  <2> QED
    BY <2>1, <2>2
<1>2. SUFFICES ASSUME Fails # {} PROVE FALSE
  OBVIOUS
<1>3. PICK s \in Fails : \A t \in Fails : ~(<<t, s>> \in R)
  <2>1. Fails \subseteq SUBSET S
    OBVIOUS
  <2> HIDE DEF Fails, R
  <2> QED
    BY <1>1, <1>2, <2>1, WFMin
<1>4. s # {} /\ s \ {pick[s]} \in Fails /\ pick[s] \in s
  OBVIOUS
<1>5. <<s \ {pick[s]}, s>> \in R
  BY <1>4 DEF StrictSubsetOrdering
<1> QED
  BY <1>3, <1>4, <1>5

(* So the rounds of a loop can be gone through one by one.                  *)
LEMMA BySubsets ==
    ASSUME NEW loop, NEW S, MayRun(loop, S), NEW Holds \in SUBSET SUBSET S, {} \in Holds,
           \A s \in SUBSET S : s # {} /\ s \ {Picked(loop, s)} \in Holds => s \in Holds
    PROVE  S \in Holds
<1> DEFINE pick == [s \in SUBSET S |-> Picked(loop, s)]
<1>1. \A s \in SUBSET S : pick[s] = Picked(loop, s) /\ (s # {} => pick[s] \in s)
  BY PickedIs
<1> HIDE DEF pick
<1>2. \A s \in SUBSET S : s # {} /\ s \ {pick[s]} \in Holds => s \in Holds
  BY <1>1
<1> QED
  BY <1>1, <1>2, ByRemoval DEF MayRun

(* There are the rounds for every subset.                                   *)
LEMMA RunExists ==
    ASSUME NEW S, NEW loop, MayRun(loop, S), NEW b
    PROVE  \E f : Runs(f, loop, b, S)
<1> DEFINE P(s) == Picked(loop, s)
           UpTo(n) == {s \in SUBSET S : Cardinality(s) <= n}
           Part(f, n) == f = [s \in UpTo(n) |->
                IF s = {} THEN b ELSE Round(loop, f[s \ {P(s)}], P(s))]
           Holds == {t \in SUBSET S : \E f : Part(f, Cardinality(t))}
<1>1. \A s \in SUBSET S : IsFiniteSet(s) /\ Cardinality(s) \in Nat
  BY FS_Subset, FS_CardinalityType DEF MayRun
<1>2. \A s \in SUBSET S : s # {} => /\ s \ {P(s)} \in SUBSET S
                                    /\ Cardinality(s \ {P(s)}) = Cardinality(s) - 1
  <2>1. \A s \in SUBSET S : s # {} => P(s) \in s
    BY PickedIs
  <2> QED
    BY <1>1, <2>1, FS_RemoveElement
<1>3. {} \in Holds
  <2> DEFINE f == [s \in UpTo(0) |-> b]
  <2>1. \A s \in UpTo(0) : s = {}
    BY <1>1, FS_EmptySet
  <2>2. f = [s \in UpTo(0) |-> IF s = {} THEN b ELSE Round(loop, f[s \ {P(s)}], P(s))]
    BY <2>1
  <2> HIDE DEF f
  <2>3. Part(f, 0) /\ Cardinality({}) = 0
    BY <2>2, FS_EmptySet
  <2> QED
    BY <2>3
<1>4. ASSUME NEW t \in SUBSET S, t # {}, t \ {P(t)} \in Holds PROVE t \in Holds
  <2> DEFINE n == Cardinality(t)
  <2>1. PICK f : Part(f, n - 1)
    BY <1>2, <1>4
  <2> DEFINE g == [s \in UpTo(n) |->
                     IF s = {} THEN b ELSE Round(loop, f[s \ {P(s)}], P(s))]
  <2>2. ASSUME NEW s \in UpTo(n), s # {}
        PROVE  g[s \ {P(s)}] = f[s \ {P(s)}]
    <3> DEFINE u == s \ {P(s)}
    <3>1. u \in SUBSET S /\ Cardinality(u) \in Nat /\ Cardinality(s) \in Nat
          /\ Cardinality(u) = Cardinality(s) - 1 /\ Cardinality(s) <= n /\ n \in Nat
      BY <1>1, <1>2, <2>2
    <3>2. u \in UpTo(n - 1) /\ u \in UpTo(n)
      BY <3>1
    <3> HIDE DEF u
    <3>3. f[u] = IF u = {} THEN b ELSE Round(loop, f[u \ {P(u)}], P(u))
      BY <2>1, <3>2
    <3>4. g[u] = IF u = {} THEN b ELSE Round(loop, f[u \ {P(u)}], P(u))
      BY <3>2
    <3> QED
      BY <3>3, <3>4 DEF u
  <2>3. g = [s \in UpTo(n) |->
               IF s = {} THEN b ELSE Round(loop, g[s \ {P(s)}], P(s))]
    <3> DEFINE k == [s \in UpTo(n) |->
               IF s = {} THEN b ELSE Round(loop, g[s \ {P(s)}], P(s))]
    <3>1. \A s \in UpTo(n) : g[s] = k[s]
      BY <2>2
    <3> QED
      BY <3>1
  <2> HIDE DEF g
  <2> QED
    BY <2>3
<1> HIDE DEF Holds
<1>5. S \in Holds
  <2>1. Holds \in SUBSET SUBSET S
    BY DEF Holds
  <2> QED
    BY <1>3, <1>4, <2>1, BySubsets
<1>6. PICK f : Part(f, Cardinality(S))
  BY <1>5 DEF Holds
<1>7. UpTo(Cardinality(S)) = SUBSET S
  BY FS_Subset DEF MayRun
<1> QED
  BY <1>6, <1>7 DEF Runs

(* What holds at first and after each step holds in the end.                *)
LEMMA ByPrefixes ==
    ASSUME NEW n \in Nat, NEW Holds \in SUBSET (0 .. n), 0 \in Holds,
           \A k \in 1 .. n : k - 1 \in Holds => k \in Holds
    PROVE  n \in Holds
<1> DEFINE Fails == (0 .. n) \ Holds
<1>1. SUFFICES ASSUME Fails # {} PROVE FALSE
  OBVIOUS
<1>2. PICK x \in Fails : \A y \in Fails : x <= y
  <2>1. Fails \in SUBSET Nat
    OBVIOUS
  <2> HIDE DEF Fails
  <2> QED
    BY <1>1, <2>1, SmallestIs
<1>3. x \in 1 .. n /\ x - 1 \in 0 .. n
  OBVIOUS
<1>4. x - 1 \notin Fails
  BY <1>2, <1>3
<1> QED
  BY <1>3, <1>4

(* An ordered loop goes through its sequence from the first to the last.    *)
LEMMA RunOrdered ==
    ASSUME NEW loop, loop.ordered, NEW n \in Nat, NEW b, NEW f, Runs(f, loop, b, 1 .. n)
    PROVE  /\ f[1 .. 0] = b
           /\ \A k \in 1 .. n : f[1 .. k] = Round(loop, f[1 .. k - 1], k)
<1>1. 1 .. 0 = {}
  OBVIOUS
<1>2. f[{}] = b
  <2>1. {} \in SUBSET (1 .. n)
    OBVIOUS
  <2> QED
    BY <2>1 DEF Runs
<1>3. ASSUME NEW k \in 1 .. n PROVE f[1 .. k] = Round(loop, f[1 .. k - 1], k)
  <2>1. 1 .. k \in SUBSET (1 .. n) /\ 1 .. k # {}
    OBVIOUS
  <2>2. Picked(loop, 1 .. k) = k
    <3>1. Largest(1 .. k) \in 1 .. k /\ \A y \in 1 .. k : Largest(1 .. k) >= y
      <4>1. k \in Nat /\ 1 .. k \in SUBSET (1 .. k)
        OBVIOUS
      <4> QED
        BY <2>1, <4>1, LargestIs
    <3>2. k \in 1 .. k
      OBVIOUS
    <3>3. Largest(1 .. k) = k
      BY <3>1, <3>2
    <3> QED
      BY <3>3 DEF Picked
  <2>3. (1 .. k) \ {k} = 1 .. k - 1
    OBVIOUS
  <2>4. f[1 .. k] = Round(loop, f[(1 .. k) \ {Picked(loop, 1 .. k)}], Picked(loop, 1 .. k))
    BY <2>1 DEF Runs
  <2> QED
    BY <2>2, <2>3, <2>4
<1> QED
  BY <1>1, <1>2, <1>3

(* The loops of the code are these.                                         *)
GivesBack(l, queued) == [kind |-> "gives back", ordered |-> FALSE, l |-> l, queued |-> queued]
Polling == [kind |-> "polls", ordered |-> FALSE]
Adding(seq, l, fails) ==
    [kind |-> "adds", ordered |-> TRUE, seq |-> seq, l |-> l, fails |-> fails]
Closing(seq) == [kind |-> "closes", ordered |-> TRUE, seq |-> seq]
Emptying(seq, lis, queued) ==
    [kind |-> "empties", ordered |-> TRUE, seq |-> seq, lis |-> lis, queued |-> queued]
Resetting(seq, configs, usable, fails) ==
    [kind |-> "resets", ordered |-> TRUE, seq |-> seq, configs |-> configs,
     usable |-> usable, fails |-> fails]

(* remove_sockets is such a loop, over the types.                           *)
LEMMA GivesBackRuns ==
    ASSUME NEW l, NEW queued, NEW b
    PROVE  LET S == {t \in IpTypes : l.sockets[t] # NoSocket} IN
           \E f : Runs(f, GivesBack(l, queued), b, S) /\ remove_sockets(b, l, queued) = f[S]
<1> DEFINE S == {t \in IpTypes : l.sockets[t] # NoSocket}
           loop == GivesBack(l, queued)
           Gives(d, t) == sacn_remove_receiver_socket(d, l.sockets[t], l.universe, l.netints, queued)
           Iterates(f) == f = [s \in SUBSET S |->
                IF s = {} THEN b
                ELSE Gives(f[s \ {CHOOSE x \in s : TRUE}], CHOOSE x \in s : TRUE)]
           it == CHOOSE f : Iterates(f)
<1>1. \A f : Runs(f, loop, b, S) <=> Iterates(f)
  BY DEF Runs, Round, Picked, GivesBack
<1>2. MayRun(loop, S)
  <2>1. IsFiniteSet(S)
    BY FS_Subset, SocketsAssumption
  <2> QED
    BY <2>1 DEF MayRun, GivesBack
<1> HIDE DEF loop
<1>3. PICK f : Runs(f, loop, b, S)
  BY <1>2, RunExists
<1>4. Iterates(f)
  BY <1>1, <1>3
<1>5. Iterates(it)
  BY <1>4
<1>6. remove_sockets(b, l, queued) = it[S]
  BY DEF remove_sockets, FoldSet, MapThenFoldSet
<1> HIDE DEF it
<1> QED
  BY <1>1, <1>5, <1>6 DEF loop

Pendings(c) == LET last == Len(c.socket_refs) IN last - c.new_socket_refs + 1 .. last

ToPoll(c) == {i \in Pendings(c) : c.socket_refs[i].socket.bound}

NoneNew(r, pending) ==
    [r EXCEPT !.new_socket_refs = 0,
              !.socket_refs = [i \in DOMAIN @ |->
                  IF i \in pending THEN [@[i] EXCEPT !.pending = FALSE] ELSE @[i]]]

(* sacn_add_pending_sockets has one, over the new sockets that are bound.   *)
LEMMA PollingRuns ==
    ASSUME NEW b, IsFiniteSet(ToPoll(b))
    PROVE  \E f : /\ Runs(f, Polling, b, ToPoll(b))
                  /\ sacn_add_pending_sockets(b) = NoneNew(f[ToPoll(b)], Pendings(b))
<1> DEFINE S == ToPoll(b)
           Iterates(f) == f = [s \in SUBSET S |->
                IF s = {} THEN b
                ELSE poll_add_socket(f[s \ {CHOOSE x \in s : TRUE}], CHOOSE x \in s : TRUE)]
           it == CHOOSE f : Iterates(f)
<1>1. \A f : Runs(f, Polling, b, S) <=> Iterates(f)
  BY DEF Runs, Round, Picked, Polling
<1>2. MayRun(Polling, S)
  BY DEF MayRun, Polling
<1>3. PICK f : Runs(f, Polling, b, S)
  BY <1>2, RunExists
<1>4. Iterates(f)
  BY <1>1, <1>3
<1>5. Iterates(it)
  BY <1>4
<1>6. sacn_add_pending_sockets(b) = NoneNew(it[S], Pendings(b))
  BY DEF FoldSet, MapThenFoldSet, sacn_add_pending_sockets, NoneNew, ToPoll, Pendings
<1> HIDE DEF it
<1> QED
  BY <1>1, <1>5, <1>6

(* add_receiver_sockets is one, over the types in their order.              *)
LEMMA AddingRuns ==
    ASSUME NEW n \in Nat, DOMAIN TypesInOrder = 1 .. n, NEW l, NEW fails, NEW c
    PROVE  LET b == [net |-> c, l |-> Emptied(l), res |-> "no_netints"] IN
           \E f : /\ Runs(f, Adding(TypesInOrder, l, fails), b, 1 .. n)
                  /\ add_receiver_sockets(c, l, fails) = AllOrNone(f[1 .. n])
<1> DEFINE b == [net |-> c, l |-> Emptied(l), res |-> "no_netints"]
           seq == TypesInOrder
           S == DOMAIN seq
           loop == Adding(seq, l, fails)
           Adds1(d, t) == Adds(d, t, l, fails)
           Iterates(f) == f = [s \in SUBSET S |->
                IF s = {} THEN b ELSE Adds1(f[s \ {Largest(s)}], seq[Largest(s)])]
           it == CHOOSE f : Iterates(f)
<1>1. \A f : Runs(f, loop, b, S) <=> Iterates(f)
  BY DEF Runs, Round, Picked, Adding
<1>2. MayRun(loop, S)
  <2>1. IsFiniteSet(S) /\ S \subseteq 1 .. n
    BY FS_Interval
  <2> QED
    BY <2>1 DEF MayRun
<1> HIDE DEF loop
<1>3. PICK f : Runs(f, loop, b, S)
  BY <1>2, RunExists
<1>4. Iterates(f)
  BY <1>1, <1>3
<1>5. Iterates(it)
  BY <1>4
<1>6. add_receiver_sockets(c, l, fails) = AllOrNone(it[S])
  BY DEF add_receiver_sockets, FoldLeft, MapThenFoldSet, Max, Largest, Adds, Emptied
<1> HIDE DEF it
<1> QED
  BY <1>1, <1>5, <1>6 DEF loop

(* sacn_cleanup_dead_sockets is one, over the sockets that wait.            *)
LEMMA ClosingRuns ==
    ASSUME NEW n \in Nat, NEW b, DOMAIN b.dead_sockets = 1 .. n
    PROVE  \E f : /\ Runs(f, Closing(b.dead_sockets), b, 1 .. n)
                  /\ sacn_cleanup_dead_sockets(b) = [f[1 .. n] EXCEPT !.dead_sockets = <<>>]
<1> DEFINE seq == b.dead_sockets
           S == DOMAIN seq
           loop == Closing(seq)
           Closes(d, t) == CleanedUp(d, t)
           Iterates(f) == f = [s \in SUBSET S |->
                IF s = {} THEN b ELSE Closes(f[s \ {Largest(s)}], seq[Largest(s)])]
           it == CHOOSE f : Iterates(f)
<1>1. \A f : Runs(f, loop, b, S) <=> Iterates(f)
  BY DEF Runs, Round, Picked, Closing
<1>2. MayRun(loop, S)
  <2>1. IsFiniteSet(S) /\ S \subseteq 1 .. n
    BY FS_Interval
  <2> QED
    BY <2>1 DEF MayRun
<1> HIDE DEF loop
<1>3. PICK f : Runs(f, loop, b, S)
  BY <1>2, RunExists
<1>4. Iterates(f)
  BY <1>1, <1>3
<1>5. Iterates(it)
  BY <1>4
<1>6. sacn_cleanup_dead_sockets(b) = [it[S] EXCEPT !.dead_sockets = <<>>]
  BY DEF sacn_cleanup_dead_sockets, FoldLeft, MapThenFoldSet, Max, Largest
<1> HIDE DEF it
<1> QED
  BY <1>1, <1>5, <1>6 DEF loop

(* remove_all_receiver_sockets is one, over the receivers in their order.   *)
LEMMA EmptyingRuns ==
    ASSUME NEW n \in Nat, NEW hs, DOMAIN InOrder(hs) = 1 .. n, NEW queued, NEW b
    PROVE  \E f : /\ Runs(f, Emptying(InOrder(hs), listeners, queued), b, 1 .. n)
                  /\ remove_all_receiver_sockets(b, hs, queued) = f[1 .. n]
<1> DEFINE lis == listeners
           seq == InOrder(hs)
           S == DOMAIN seq
           loop == Emptying(seq, lis, queued)
           Empties(d, t) == remove_sockets(d, lis[t], queued)
           Iterates(f) == f = [s \in SUBSET S |->
                IF s = {} THEN b ELSE Empties(f[s \ {Largest(s)}], seq[Largest(s)])]
           it == CHOOSE f : Iterates(f)
<1>1. \A f : Runs(f, loop, b, S) <=> Iterates(f)
  BY DEF Runs, Round, Picked, Emptying
<1>2. MayRun(loop, S)
  <2>1. IsFiniteSet(S) /\ S \subseteq 1 .. n
    BY FS_Interval
  <2> QED
    BY <2>1 DEF MayRun
<1> HIDE DEF loop
<1>3. PICK f : Runs(f, loop, b, S)
  BY <1>2, RunExists
<1>4. Iterates(f)
  BY <1>1, <1>3
<1>5. Iterates(it)
  BY <1>4
<1>6. remove_all_receiver_sockets(b, hs, queued) = it[S]
  BY DEF remove_all_receiver_sockets, FoldLeft, MapThenFoldSet, Max, Largest
<1> HIDE DEF it
<1> QED
  BY <1>1, <1>5, <1>6 DEF loop

ToReset(c, hs) ==
    [net |-> remove_all_receiver_sockets(c, hs, TRUE), ok |-> TRUE, listeners |-> listeners]

(* So is what a reset does afterwards.                                      *)
LEMMA ResettingRuns ==
    ASSUME NEW n \in Nat, NEW hs, DOMAIN InOrder(hs) = 1 .. n, NEW c,
           NEW configs, NEW usable, NEW fails
    PROVE  \E f : /\ Runs(f, Resetting(InOrder(hs), configs, usable, fails), ToReset(c, hs), 1 .. n)
                  /\ ResetAll(c, hs, configs, usable, fails) = f[1 .. n]
<1> DEFINE b == ToReset(c, hs)
           seq == InOrder(hs)
           S == DOMAIN seq
           loop == Resetting(seq, configs, usable, fails)
           Resets1(d, t) == Resets(d, t, configs, usable, fails)
           Iterates(f) == f = [s \in SUBSET S |->
                IF s = {} THEN b ELSE Resets1(f[s \ {Largest(s)}], seq[Largest(s)])]
           it == CHOOSE f : Iterates(f)
<1>1. \A f : Runs(f, loop, b, S) <=> Iterates(f)
  BY DEF Runs, Round, Picked, Resetting
<1>2. MayRun(loop, S)
  <2>1. IsFiniteSet(S) /\ S \subseteq 1 .. n
    BY FS_Interval
  <2> QED
    BY <2>1 DEF MayRun
<1> HIDE DEF loop
<1>3. PICK f : Runs(f, loop, b, S)
  BY <1>2, RunExists
<1>4. Iterates(f)
  BY <1>1, <1>3
<1>5. Iterates(it)
  BY <1>4
<1>6. ResetAll(c, hs, configs, usable, fails) = it[S]
  BY DEF ToReset, ResetAll, FoldLeft, MapThenFoldSet, Max, Largest, Resets, Emptied
<1> HIDE DEF it
<1> QED
  BY <1>1, <1>5, <1>6 DEF loop

(* The receiver h has given back its sockets of these types.                *)
Without(lis, h, s) ==
    [lis EXCEPT ![h] = [lis[h] EXCEPT !.sockets =
        [t \in IpTypes |-> IF t \in s THEN NoSocket ELSE lis[h].sockets[t]]]]

(* The sockets of some types were taken from a listener, which is how it    *)
(* ends.                                                                    *)
LEMMA WithoutIs ==
    ASSUME NEW lis, IsListeners(lis), NEW h \in DOMAIN lis
    PROVE  /\ Without(lis, h, {}) = lis
           /\ \A s : /\ DOMAIN Without(lis, h, s) = DOMAIN lis /\ IsListeners(Without(lis, h, s))
                     /\ \A t \in IpTypes : t \notin s =>
                           Without(lis, h, s)[h].sockets[t] = lis[h].sockets[t]
                     /\ \A g \in DOMAIN lis :
                           /\ Without(lis, h, s)[g].universe = lis[g].universe
                           /\ Without(lis, h, s)[g].netints = lis[g].netints
           /\ \A s, t : t \in s /\ t \in IpTypes =>
                Put(Without(lis, h, s \ {t}), h, t, NoSocket) = Without(lis, h, s)
           /\ \A s : (\A t \in IpTypes : t \in s \/ lis[h].sockets[t] = NoSocket) =>
                 Without(lis, h, s) = [lis EXCEPT ![h] = Emptied(lis[h])]
<1>1. lis = [g \in DOMAIN lis |-> lis[g]] /\ \A g \in DOMAIN lis : lis[g] \in Listener
  BY DEF IsListeners
<1>2. \A l \in Listener : l.sockets \in [IpTypes -> Sockets \cup {NoSocket}]
  BY DEF Listener
<1>3. Without(lis, h, {}) = lis
  <2>1. [t \in IpTypes |-> IF t \in {} THEN NoSocket ELSE lis[h].sockets[t]] = lis[h].sockets
    BY <1>1, <1>2
  <2>2. [lis[h] EXCEPT !.sockets = lis[h].sockets] = lis[h]
    BY <1>1 DEF Listener
  <2> QED
    BY <1>1, <2>1, <2>2 DEF Without
<1>4. ASSUME NEW s
      PROVE  /\ DOMAIN Without(lis, h, s) = DOMAIN lis /\ IsListeners(Without(lis, h, s))
             /\ \A t \in IpTypes : t \notin s => Without(lis, h, s)[h].sockets[t] = lis[h].sockets[t]
             /\ \A g \in DOMAIN lis : /\ Without(lis, h, s)[g].universe = lis[g].universe
                                      /\ Without(lis, h, s)[g].netints = lis[g].netints
  <2> DEFINE now == [t \in IpTypes |-> IF t \in s THEN NoSocket ELSE lis[h].sockets[t]]
             l == [lis[h] EXCEPT !.sockets = now]
  <2>1. now \in [IpTypes -> Sockets \cup {NoSocket}] /\ \A t \in IpTypes : t \notin s =>
            now[t] = lis[h].sockets[t]
    BY <1>1, <1>2
  <2>2. Without(lis, h, s) = [lis EXCEPT ![h] = l]
    BY DEF Without
  <2> HIDE DEF now
  <2>3. l \in Listener /\ l.sockets = now /\ l.universe = lis[h].universe /\ l.netints = lis[h].netints
    BY <1>1, <2>1 DEF Listener
  <2> HIDE DEF l
  <2> QED
    BY <1>1, <2>1, <2>2, <2>3 DEF IsListeners
<1>5. ASSUME NEW s, NEW t \in IpTypes, t \in s
      PROVE  Put(Without(lis, h, s \ {t}), h, t, NoSocket) = Without(lis, h, s)
  <2> DEFINE before == [u \in IpTypes |-> IF u \in s \ {t} THEN NoSocket ELSE lis[h].sockets[u]]
             now == [u \in IpTypes |-> IF u \in s THEN NoSocket ELSE lis[h].sockets[u]]
             l == [lis[h] EXCEPT !.sockets = before]
  <2>1. now = [before EXCEPT ![t] = NoSocket]
    BY <1>5
  <2>2. Without(lis, h, s \ {t}) = [lis EXCEPT ![h] = l]
    BY DEF Without
  <2>3. Without(lis, h, s) = [lis EXCEPT ![h] = [lis[h] EXCEPT !.sockets = now]]
    BY DEF Without
  <2> HIDE DEF before, now
  <2>4. [l EXCEPT !.sockets = now] = [lis[h] EXCEPT !.sockets = now] /\ l.sockets = before
    BY <1>1 DEF Listener
  <2> HIDE DEF l
  <2>5. Put([lis EXCEPT ![h] = l], h, t, NoSocket) =
            [lis EXCEPT ![h] = [l EXCEPT !.sockets = [l.sockets EXCEPT ![t] = NoSocket]]]
    BY <1>1 DEF Put
  <2> QED
    BY <2>1, <2>2, <2>3, <2>4, <2>5
<1>6. ASSUME NEW s, \A t \in IpTypes : t \in s \/ lis[h].sockets[t] = NoSocket
      PROVE  Without(lis, h, s) = [lis EXCEPT ![h] = Emptied(lis[h])]
  <2>1. [t \in IpTypes |-> IF t \in s THEN NoSocket ELSE lis[h].sockets[t]] = NoSockets
    BY <1>6 DEF NoSockets
  <2> QED
    BY <2>1 DEF Without, Emptied
<1> QED
  BY <1>3, <1>4, <1>5, <1>6

(* A receiver gives back all its sockets (remove_sockets).                  *)
LEMMA SocketsRemoved ==
    ASSUME NEW c, NEW lis, NEW broken, NEW exact \in BOOLEAN, NEW h, NEW l, NEW queued \in BOOLEAN,
           MayGiveBack(c, lis, broken, exact, h, l.universe, l.netints, queued),
           l.sockets = lis[h].sockets
    PROVE  GaveBack(c, remove_sockets(c, l, queued), [lis EXCEPT ![h] = Emptied(lis[h])],
                    broken, exact, queued)
<1> DEFINE S == {t \in IpTypes : l.sockets[t] # NoSocket}
           d == remove_sockets(c, l, queued)
           loop == GivesBack(l, queued)
           lisOf(s) == Without(lis, h, s)
           Fine(r, s) == /\ Kept(r, lisOf(s), broken, exact) /\ Follows(c, r)
                         /\ ~queued => r.dead_sockets = c.dead_sockets
<1>0. /\ Kept(c, lis, broken, exact) /\ h \in DOMAIN lis
      /\ exact => l.universe = lis[h].universe /\ l.netints = lis[h].netints
      /\ exact => queued \/ NothingJoined(c)
  BY DEF MayGiveBack
<1>1. IsListeners(lis)
  BY <1>0 DEF Kept, Between, Sound
<1>2. IsFiniteSet(S)
  BY FS_Subset, SocketsAssumption
<1>3. PICK f : Runs(f, loop, c, S) /\ d = f[S]
  BY GivesBackRuns
<1>4. MayRun(loop, S)
  BY <1>2 DEF MayRun, GivesBack
<1> DEFINE Holds == {s \in SUBSET S : Fine(f[s], s)}
<1>5. {} \in Holds
  <2>1. f[{}] = c
    <3>1. {} \in SUBSET S
      OBVIOUS
    <3> HIDE DEF S
    <3> QED
      BY <1>3, <3>1 DEF Runs
  <2>2. lisOf({}) = lis
    BY <1>0, <1>1, WithoutIs
  <2>3. Follows(c, c)
    BY DEF Follows, SameThread
  <2> HIDE DEF lisOf
  <2> QED
    BY <2>1, <2>2, <2>3, <1>0
<1>6. ASSUME NEW s \in SUBSET S, s # {}, s \ {Picked(loop, s)} \in Holds PROVE s \in Holds
  <2> DEFINE t == Picked(loop, s)
             r == f[s \ {t}]
             was == lisOf(s \ {t})
  <2>1. t \in s
    BY <1>4, <1>6, PickedIs
  <2>2. t \in IpTypes /\ l.sockets[t] # NoSocket
    BY <2>1
  <2>3. f[s] = Round(loop, r, t)
    <3>1. s \in SUBSET S
      OBVIOUS
    <3> HIDE DEF S, Holds
    <3> QED
      BY <1>3, <1>6, <3>1 DEF Runs
  <2>4. Round(loop, r, t) = sacn_remove_receiver_socket(r, l.sockets[t], l.universe, l.netints, queued)
    BY DEF Round, GivesBack
  <2>5. Fine(r, s \ {t})
    BY <1>6
  <2> HIDE DEF loop, t, r, S, Holds
  <2>6. /\ h \in DOMAIN was /\ was[h].sockets[t] = l.sockets[t]
        /\ was[h].universe = lis[h].universe /\ was[h].netints = lis[h].netints
        /\ Put(was, h, t, NoSocket) = lisOf(s)
    <3>1. t \notin s \ {t}
      OBVIOUS
    <3> QED
      BY <1>0, <1>1, <2>1, <2>2, <3>1, WithoutIs
  <2> HIDE DEF lisOf
  <2>7. exact => queued \/ NothingJoined(r)
    BY <1>0, <2>5 DEF Follows
  <2>8. exact => l.universe = was[h].universe /\ l.netints = was[h].netints
    BY <1>0, <2>6
  <2>9. Kept(r, was, broken, exact)
    BY <2>5
  <2> HIDE DEF was
  <2>10. was[h].sockets[t] # NoSocket
    BY <2>2, <2>6
  <2> DEFINE e == sacn_remove_receiver_socket(r, was[h].sockets[t], l.universe, l.netints, queued)
  <2>14. MayGiveBack(r, was, broken, exact, h, l.universe, l.netints, queued)
    BY <2>6, <2>7, <2>8, <2>9 DEF MayGiveBack
  <2>11. /\ Kept(e, Put(was, h, t, NoSocket), broken, exact)
         /\ Follows(r, e) /\ (~queued => e.dead_sockets = r.dead_sockets)
    <3>1. GaveBack(r, e, Put(was, h, t, NoSocket), broken, exact, queued)
      BY <2>2, <2>10, <2>14, SocketGivenBack
    <3> QED
      BY <3>1 DEF GaveBack
  <2>12. f[s] = e
    BY <2>3, <2>4, <2>6
  <2> HIDE DEF e
  <2>13. Follows(c, e)
    BY <2>5, <2>11 DEF Follows, SameThread
  <2>15. Fine(f[s], s)
    BY <2>5, <2>6, <2>11, <2>12, <2>13
  <2> QED
    BY <2>15 DEF Holds
<1>7. S \in Holds
  <2>1. Holds \in SUBSET SUBSET S
    OBVIOUS
  <2> HIDE DEF Holds, S, loop
  <2> QED
    BY <1>4, <1>5, <1>6, <2>1, BySubsets
<1>8. lisOf(S) = [lis EXCEPT ![h] = Emptied(lis[h])]
  <2>1. \A t \in IpTypes : t \in S \/ lis[h].sockets[t] = NoSocket
    OBVIOUS
  <2> HIDE DEF S
  <2> QED
    BY <1>0, <1>1, <2>1, WithoutIs
<1> HIDE DEF lisOf
<1>9. Fine(d, S)
  BY <1>3, <1>7
<1> HIDE DEF S
<1> QED
  BY <1>8, <1>9 DEF GaveBack

(* The numbers of a finite set in ascending order.                          *)
IsAscending(S, order) ==
    /\ order \in [1 .. Cardinality(S) -> S]
    /\ \A i, j \in DOMAIN order : i < j => order[i] < order[j]

(* To put the least element first keeps a sequence ascending.               *)
LEMMA LeastFirst ==
    ASSUME NEW s \in SUBSET Nat, IsFiniteSet(s), NEW x \in s, \A y \in s : x <= y,
           NEW o, IsAscending(s \ {x}, o)
    PROVE  IsAscending(s, [i \in 1 .. Cardinality(s) |-> IF i = 1 THEN x ELSE o[i - 1]])
<1> DEFINE n == Cardinality(s)
           more == [i \in 1 .. n |-> IF i = 1 THEN x ELSE o[i - 1]]
<1>1. n \in Nat /\ Cardinality(s \ {x}) = n - 1
  BY FS_RemoveElement, FS_CardinalityType
<1> HIDE DEF n
<1>2. /\ DOMAIN o = 1 .. n - 1 /\ \A i \in 1 .. n - 1 : o[i] \in s /\ o[i] # x
      /\ \A i, j \in 1 .. n - 1 : i < j => o[i] < o[j]
  BY <1>1 DEF IsAscending
<1>3. \A i \in 1 .. n : i # 1 => i - 1 \in 1 .. n - 1
  BY <1>1
<1>4. more \in [1 .. n -> s]
  BY <1>2, <1>3
<1>5. ASSUME NEW i \in 1 .. n, NEW j \in 1 .. n, i < j PROVE more[i] < more[j]
  <2>1. j # 1 /\ j - 1 \in 1 .. n - 1 /\ more[j] = o[j - 1] /\ more[j] \in s /\ more[j] # x
    BY <1>1, <1>2, <1>5
  <2>2. CASE i = 1
    <3>1. more[i] = x /\ x <= more[j] /\ x \in Nat /\ more[j] \in Nat
      BY <2>1, <2>2
    <3> HIDE DEF more
    <3> QED
      BY <3>1, <2>1
  <2>3. CASE i # 1
    <3>1. more[i] = o[i - 1] /\ i - 1 \in 1 .. n - 1 /\ i - 1 < j - 1
      BY <1>1, <1>5, <2>3
    <3> QED
      BY <3>1, <2>1, <1>2
  <2> QED
    BY <2>2, <2>3
<1> QED
  BY <1>4, <1>5 DEF IsAscending, n

(* Every finite set of numbers has an ascending sequence.                   *)
LEMMA AscendingExists ==
    ASSUME NEW S \in SUBSET Nat, IsFiniteSet(S)
    PROVE  \E o : IsAscending(S, o)
<1> DEFINE pick == [s \in SUBSET S |-> CHOOSE x \in s : \A y \in s : x <= y]
           Holds == {s \in SUBSET S : \E o : IsAscending(s, o)}
<1>1. \A s \in SUBSET S : s # {} => pick[s] \in s /\ \A y \in s : pick[s] <= y
  <2> TAKE s \in SUBSET S
  <2> HAVE s # {}
  <2>1. \E x \in s : \A y \in s : x <= y
    <3>1. s \in SUBSET Nat
      OBVIOUS
    <3> QED
      BY <3>1, SmallestIs
  <2>2. pick[s] = CHOOSE x \in s : \A y \in s : x <= y
    OBVIOUS
  <2> QED
    BY <2>1, <2>2
<1> HIDE DEF pick
<1>2. {} \in Holds
  <2>1. 1 .. Cardinality({}) = {}
    BY FS_EmptySet
  <2>2. IsAscending({}, [i \in {} |-> i])
    BY <2>1 DEF IsAscending
  <2> QED
    BY <2>2
<1>3. ASSUME NEW s \in SUBSET S, s # {}, s \ {pick[s]} \in Holds PROVE s \in Holds
  <2>1. PICK o : IsAscending(s \ {pick[s]}, o)
    BY <1>3
  <2>2. s \in SUBSET Nat /\ IsFiniteSet(s)
    BY FS_Subset
  <2>3. \E p : IsAscending(s, p)
    BY <1>1, <1>3, <2>1, <2>2, LeastFirst
  <2> QED
    BY <2>3
<1>4. Holds \in SUBSET SUBSET S
  OBVIOUS
<1>5. S \in Holds
  <2> HIDE DEF Holds
  <2> QED
    BY <1>1, <1>2, <1>3, <1>4, ByRemoval
<1> QED
  BY <1>5

(* What is in ascending order has every element once.                       *)
LEMMA AscendingIs ==
    ASSUME NEW S \in SUBSET Nat, IsFiniteSet(S)
    PROVE  LET o == Ascending(S) n == Cardinality(S) IN
           /\ n \in Nat /\ o \in [1 .. n -> S]
           /\ \A i, j \in 1 .. n : o[i] = o[j] => i = j
           /\ \A x \in S : \E i \in 1 .. n : o[i] = x
<1> DEFINE o == Ascending(S)
           n == Cardinality(S)
<1>1. IsAscending(S, o)
  <2>1. \E p \in [1 .. n -> S] : \A i, j \in DOMAIN p : i < j => p[i] < p[j]
    BY AscendingExists DEF IsAscending
  <2> QED
    BY <2>1 DEF Ascending, IsAscending
<1> HIDE DEF o
<1>2. n \in Nat
  BY FS_CardinalityType
<1>3. o \in [1 .. n -> S] /\ \A i, j \in 1 .. n : i < j => o[i] < o[j]
  BY <1>1 DEF IsAscending
<1> HIDE DEF n
<1>4. ASSUME NEW i \in 1 .. n, NEW j \in 1 .. n, o[i] = o[j] PROVE i = j
  <2>1. o[i] \in Nat /\ o[j] \in Nat /\ i \in Int /\ j \in Int
    <3>1. o[i] \in S /\ o[j] \in S
      BY <1>3
    <3>2. \A x \in S : x \in Nat
      OBVIOUS
    <3>3. i \in Int /\ j \in Int
      BY <1>2
    <3> QED
      BY <3>1, <3>2, <3>3, Zenon
  <2>2. ~(i < j) /\ ~(j < i)
    BY <1>3, <1>4, <2>1
  <2> QED
    BY <2>1, <2>2
<1>5. o \in Injection(1 .. n, S)
  BY <1>3, <1>4 DEF Injection, IsInjective
<1>6. Cardinality(1 .. n) = n
  BY <1>2, FS_Interval
<1>7. o \in Surjection(1 .. n, S)
  BY <1>5, <1>6, FS_Injection DEF n
<1>8. \A x \in S : \E i \in 1 .. n : o[i] = x
  BY <1>7 DEF Surjection
<1> QED
  BY <1>2, <1>3, <1>4, <1>8 DEF o, n

(* These receivers have the same sockets: those that differ have none.      *)
SameSockets(lis, now) ==
    /\ \A h \in DOMAIN lis : (h \in DOMAIN now /\ now[h] = lis[h]) \/ lis[h].sockets = NoSockets
    /\ \A h \in DOMAIN now : (h \in DOMAIN lis /\ now[h] = lis[h]) \/ now[h].sockets = NoSockets

(* Listeners without sockets do not matter to the sockets.                  *)
LEMMA SocketsMatter ==
    ASSUME NEW c, NEW lis, NEW now, NEW broken, NEW exact \in BOOLEAN, Kept(c, lis, broken, exact),
           SameSockets(lis, now), IsListeners(now), exact => Distinct(now)
    PROVE  Kept(c, now, broken, exact)
<1>0. Sound(c, Range(c.dead_sockets), lis, broken) /\ IsContext(c) /\ DeadListed(c)
  BY DEF Kept, Between, Sound
<1>1. \A t \in IpTypes : NoSockets[t] = NoSocket
  BY DEF NoSockets
<1>2. ASSUME NEW t \in IpTypes, NEW s, s # NoSocket
      PROVE  Users(now, t, s) = Users(lis, t, s)
  BY <1>1, <1>2 DEF Users, SameSockets
<1>3. Counted(c, now)
  <2>1. \A i \in Those(c) : Nth(c, i).ip_type \in IpTypes /\ Nth(c, i).handle # NoSocket
    BY <1>0, RefTyped
  <2>2. \A i \in Those(c) :
          c.socket_refs[i].refcount = Cardinality(Users(now, Nth(c, i).ip_type, Nth(c, i).handle))
    BY <1>0, <1>2, <2>1 DEF Sound, Counted
  <2>3. ASSUME NEW h \in DOMAIN now, NEW t \in IpTypes, now[h].sockets[t] # NoSocket
        PROVE  \E i \in Those(c) : Nth(c, i).handle = now[h].sockets[t] /\ Nth(c, i).ip_type = t
    <3>1. h \in DOMAIN lis /\ now[h] = lis[h]
      BY <1>1, <2>3 DEF SameSockets
    <3> QED
      BY <1>0, <3>1, <2>3 DEF Sound, Counted
  <2> QED
    BY <2>2, <2>3 DEF Counted
<1>4. Between(c, now, broken)
  BY <1>0, <1>3 DEF Between, Sound
<1>5. exact => Asks(c, now)
  <2> SUFFICES ASSUME exact PROVE Asks(c, now)
    OBVIOUS
  <2>1. ASSUME NEW s \in DOMAIN c.open, NEW u \in AnyUniverse, NEW n \in Netints
        PROVE  Wants(now, s, u, n) <=> Wants(lis, s, u, n)
    <3>1. s # NoSocket
      BY <1>0, SocketsAssumption DEF IsContext
    <3>2. Type(n) \in IpTypes
      BY SocketsAssumption DEF Type
    <3> QED
      BY <3>1, <3>2, <1>1 DEF Wants, SameSockets
  <2>2. SameRequests(c, c) /\ Asks(c, lis)
    BY DEF SameRequests, Kept
  <2> QED
    BY <2>1, <2>2, AsksSame
<1> QED
  BY <1>4, <1>5 DEF Kept

-----------------------------------------------------------------------------
(* A receiver is given its sockets (add_receiver_sockets).                  *)

SuppliedWith(l, t) ==
    t \in l.ip_supported /\ (\E n \in l.netints : Type(n) = t) => l.sockets[t] # NoSocket

Supplied(l) == \A t \in IpTypes : SuppliedWith(l, t)

(* The first types, up to the k-th, were gone through.                      *)
Going(c, r, k, lis, broken, exact, h, l) ==
    /\ r = [net |-> r.net, l |-> r.l, res |-> r.res]
    /\ Kept(r.net, [lis EXCEPT ![h] = r.l], broken, exact) /\ Follows(c, r.net)
    /\ r.l \in Listener /\ r.l = [l EXCEPT !.sockets = r.l.sockets]
    /\ \A t \in IpTypes : (\A i \in 1 .. k : TypesInOrder[i] # t) => r.l.sockets[t] = NoSocket
    /\ r.res # "failed" => \A i \in 1 .. k : SuppliedWith(r.l, TypesInOrder[i])
    /\ r.res \in {"ok", "failed", "no_netints"}
    /\ r.res = "no_netints" => \A t \in IpTypes : r.l.sockets[t] = NoSocket

(* A round of add_receiver_sockets adds the socket of one more type.        *)
LEMMA OneTypeMore ==
    ASSUME NEW c, NEW r, NEW k \in Nat, k > 0, NEW lis, NEW broken, NEW exact \in BOOLEAN,
             NEW h \in DOMAIN lis,
           NEW l \in Listener, NEW fails, Going(c, r, k - 1, lis, broken, exact, h, l),
           NEW t \in IpTypes, t = TypesInOrder[k], \A i \in 1 .. k - 1 : TypesInOrder[i] # t
    PROVE  Going(c, Adds(r, t, l, fails), k, lis, broken, exact, h, l)
<1> DEFINE e == Adds(r, t, l, fails)
           now == [lis EXCEPT ![h] = r.l]
<1>1. /\ r = [net |-> r.net, l |-> r.l, res |-> r.res]
      /\ Kept(r.net, now, broken, exact) /\ Follows(c, r.net)
      /\ r.l \in Listener /\ r.l = [l EXCEPT !.sockets = r.l.sockets]
      /\ \A u \in IpTypes : (\A i \in 1 .. k - 1 : TypesInOrder[i] # u) => r.l.sockets[u] = NoSocket
      /\ r.res # "failed" => \A i \in 1 .. k - 1 : SuppliedWith(r.l, TypesInOrder[i])
      /\ r.res \in {"ok", "failed", "no_netints"}
      /\ r.res = "no_netints" => \A u \in IpTypes : r.l.sockets[u] = NoSocket
  BY DEF Going
<1>2. /\ r.l.universe = l.universe /\ r.l.netints = l.netints /\ r.l.ip_supported = l.ip_supported
      /\ r.l.sockets \in [IpTypes -> Sockets \cup {NoSocket}] /\ r.l.sockets[t] = NoSocket
  BY <1>1 DEF Listener
<1>3. /\ \A i : i \in 1 .. k <=> i \in 1 .. k - 1 \/ i = k
      /\ \A i \in 1 .. k - 1 : i \in 1 .. k
  OBVIOUS
<1>4. CASE r.res = "failed" \/ t \notin l.ip_supported
  <2>1. e = r
    BY <1>4 DEF Adds
  <2>2. SuppliedWith(r.l, t) \/ r.res = "failed"
    BY <1>2, <1>4 DEF SuppliedWith
  <2> HIDE DEF e, now
  <2>3. Going(c, r, k, lis, broken, exact, h, l)
    BY <1>1, <1>3, <2>2 DEF Going, now
  <2> QED
    BY <2>1, <2>3 DEF e
<1>5. CASE r.res # "failed" /\ t \in l.ip_supported
  <2> DEFINE added == add_sockets(r.net, t, r.l, t \notin fails)
             m == [r.l EXCEPT !.sockets[t] = added.socket]
  <2>1. e = [net |-> added.net, l |-> m, res |-> IF added.res = "no_netints" THEN r.res ELSE added.res]
    BY <1>5 DEF Adds, WithAdded
  <2>2. /\ Kept(added.net, [lis EXCEPT ![h] = m], broken, exact) /\ Follows(c, added.net)
        /\ added.socket \in Sockets \cup {NoSocket} /\ added.res \in {"ok", "failed", "no_netints"}
        /\ added.res = "no_netints" => added.socket = NoSocket
        /\ added.res # "failed" => SuppliedWith(m, t)
    <3>1. CASE r.l.netints = {}
      <4>1. added.net = r.net /\ added.socket = NoSocket /\ added.res = "ok"
        BY <3>1 DEF add_sockets
      <4>2. m = r.l
        BY <4>1, <1>2, <1>1 DEF Listener
      <4> HIDE DEF added, m
      <4> QED
        BY <4>1, <4>2, <3>1, <1>1 DEF SuppliedWith
    <3>2. CASE r.l.netints # {}
      <4> DEFINE b == t \notin fails
      <4>1. added = sacn_add_receiver_socket(r.net, t, r.l.universe, r.l.netints, b)
        BY <3>2 DEF add_sockets
      <4>2. b \in BOOLEAN
        OBVIOUS
      <4> HIDE DEF b
      <4>3. now[h] = r.l /\ h \in DOMAIN now
        OBVIOUS
      <4>4. MayAdd(r.net, now, broken, exact, h, t, r.l.universe, r.l.netints)
        BY <4>3, <1>1, <1>2 DEF MayAdd
      <4>5. WasAdded(r.net, added, now, broken, exact, h, t, r.l.netints)
        BY <4>1, <4>2, <4>4, AddedFor
      <4> HIDE DEF added
      <4>6. Put(now, h, t, added.socket) = [lis EXCEPT ![h] = m]
        BY <4>3 DEF Put
      <4>7. added.socket \in Sockets \cup {NoSocket} =>
                m.sockets[t] = added.socket /\ m.netints = r.l.netints
        BY <1>1, <1>2 DEF Listener
      <4> HIDE DEF now, m
      <4>8. added.res # "failed" => SuppliedWith(m, t)
        BY <4>5, <4>7 DEF WasAdded, HasTold, IsAdded, SuppliedWith
      <4> QED
        BY <4>5, <4>6, <4>8, <1>1 DEF WasAdded, HasTold, IsAdded, Follows, SameThread
    <3> QED
      BY <3>1, <3>2
  <2> HIDE DEF added
  <2>3. /\ m \in Listener /\ m = [l EXCEPT !.sockets = m.sockets] /\ m.sockets[t] = added.socket
        /\ \A u \in IpTypes : u # t => m.sockets[u] = r.l.sockets[u]
        /\ m.netints = r.l.netints /\ m.ip_supported = r.l.ip_supported
    <3>1. m.sockets = [r.l.sockets EXCEPT ![t] = added.socket] /\ m \in Listener
      BY <1>1, <1>2, <2>2 DEF Listener
    <3>2. m = [r.l EXCEPT !.sockets = m.sockets]
      BY <1>1 DEF Listener
    <3>3. \A a, b : [[l EXCEPT !.sockets = a] EXCEPT !.sockets = b] = [l EXCEPT !.sockets = b]
      BY DEF Listener
    <3>4. m.netints = r.l.netints /\ m.ip_supported = r.l.ip_supported
      BY <1>1 DEF Listener
    <3> HIDE DEF m
    <3> QED
      BY <3>1, <3>2, <3>3, <3>4, <1>1, <1>2, <2>2
  <2> HIDE DEF e, m, now
  <2>4. e = [net |-> e.net, l |-> e.l, res |-> e.res] /\ e.net = added.net /\ e.l = m
            /\ e.res = IF added.res = "no_netints" THEN r.res ELSE added.res
    BY <2>1
  <2>5. \A u \in IpTypes : (\A i \in 1 .. k : TypesInOrder[i] # u) => m.sockets[u] = NoSocket
    BY <1>1, <1>3, <2>3
  <2>6. added.res # "failed" => \A i \in 1 .. k : SuppliedWith(m, TypesInOrder[i])
    <3>1. \A i \in 1 .. k - 1 : added.res # "failed" => SuppliedWith(m, TypesInOrder[i])
      BY <1>1, <1>5, <2>3 DEF SuppliedWith, Listener
    <3> QED
      BY <3>1, <1>3, <2>2
  <2>7. e.res = "no_netints" => \A u \in IpTypes : m.sockets[u] = NoSocket
    BY <1>1, <2>2, <2>3, <2>4
  <2>8. e.res \in {"ok", "failed", "no_netints"} /\ (e.res # "failed" => added.res # "failed")
    BY <1>1, <2>2, <2>4
  <2> QED
    BY <2>2, <2>3, <2>4, <2>5, <2>6, <2>7, <2>8 DEF Going, e
<1> QED
  BY <1>4, <1>5

(* The one with the handle h has no socket and may be given those of l.     *)
MayEquip(c, lis, broken, exact, h, l) ==
    /\ Kept(c, lis, broken, exact) /\ h \in DOMAIN lis
    /\ l \in Listener /\ lis[h] = Emptied(l)

Equipped(c, r, lis, broken, exact, h, l) ==
    /\ Kept(r.net, [lis EXCEPT ![h] = r.l], broken, exact) /\ Follows(c, r.net)
    /\ r.l \in Listener /\ r.l = [l EXCEPT !.sockets = r.l.sockets]
    /\ r.res = "ok" => Supplied(r.l)
    /\ r.res # "ok" => r.l.sockets = NoSockets

(* A listener without its sockets is the same otherwise.                    *)
LEMMA EmptiedIs ==
    ASSUME NEW l \in Listener
    PROVE  /\ Emptied(l) \in Listener /\ Emptied(l).sockets = NoSockets
           /\ \A t \in IpTypes : NoSockets[t] = NoSocket
           /\ Emptied(l).universe = l.universe /\ Emptied(l).netints = l.netints
           /\ Emptied(l).ip_supported = l.ip_supported
           /\ l.sockets = NoSockets => Emptied(l) = l
BY DEF Emptied, Listener, NoSockets

(* add_receiver_sockets: a listener is supplied, or has no sockets at all.  *)
LEMMA ReceiverEquipped ==
    ASSUME NEW c, NEW lis, NEW broken, NEW exact \in BOOLEAN, NEW h, NEW l, NEW fails,
           MayEquip(c, lis, broken, exact, h, l)
    PROVE  Equipped(c, add_receiver_sockets(c, l, fails), lis, broken, exact, h, l)
<1> DEFINE n == Cardinality(IpTypes)
           b == [net |-> c, l |-> Emptied(l), res |-> "no_netints"]
           loop == Adding(TypesInOrder, l, fails)
<1>0. /\ Kept(c, lis, broken, exact) /\ h \in DOMAIN lis /\ l \in Listener /\ lis[h] = Emptied(l)
      /\ IsListeners(lis)
  BY DEF MayEquip, Kept, Between, Sound
<1>1. /\ n \in Nat /\ TypesInOrder \in [1 .. n -> IpTypes]
      /\ \A i, j \in 1 .. n : TypesInOrder[i] = TypesInOrder[j] => i = j
      /\ \A t \in IpTypes : \E i \in 1 .. n : TypesInOrder[i] = t
  <2>1. IpTypes \in SUBSET Nat /\ IsFiniteSet(IpTypes)
    BY SocketsAssumption
  <2> QED
    BY <2>1, AscendingIs DEF TypesInOrder
<1> HIDE DEF n
<1>2. PICK f : /\ Runs(f, loop, b, 1 .. n)
               /\ add_receiver_sockets(c, l, fails) = AllOrNone(f[1 .. n])
  <2>1. DOMAIN TypesInOrder = 1 .. n
    BY <1>1
  <2> QED
    BY <1>1, <2>1, AddingRuns
<1>3. /\ f[1 .. 0] = b
      /\ \A k \in 1 .. n : f[1 .. k] = Round(loop, f[1 .. k - 1], k)
  <2>1. loop.ordered
    BY DEF Adding
  <2> HIDE DEF loop, b
  <2> QED
    BY <1>1, <1>2, <2>1, RunOrdered
<1>4. \A k, r : Round(loop, r, k) = Adds(r, TypesInOrder[k], l, fails)
  BY DEF Round, Adding
<1> HIDE DEF loop
<1> DEFINE Fine(r, k) == Going(c, r, k, lis, broken, exact, h, l)
           Holds == {k \in 0 .. n : Fine(f[1 .. k], k)}
<1>5. 0 \in Holds
  <2>1. [lis EXCEPT ![h] = Emptied(l)] = lis
    BY <1>0 DEF IsListeners
  <2>2. Follows(c, c)
    BY DEF Follows, SameThread
  <2>3. b = [net |-> b.net, l |-> b.l, res |-> b.res] /\ b.net = c /\ b.l = Emptied(l)
            /\ b.res = "no_netints"
    OBVIOUS
  <2>4. /\ Emptied(l) \in Listener /\ Emptied(l) = [l EXCEPT !.sockets = Emptied(l).sockets]
        /\ \A t \in IpTypes : Emptied(l).sockets[t] = NoSocket
    BY <1>0, EmptiedIs DEF Emptied
  <2>5. \A i : i \notin 1 .. 0
    OBVIOUS
  <2> HIDE DEF b
  <2>6. Fine(b, 0)
    BY <1>0, <2>1, <2>2, <2>3, <2>4, <2>5 DEF Going
  <2> HIDE DEF Fine
  <2> QED
    BY <1>1, <1>3, <2>6
<1>6. ASSUME NEW k \in 1 .. n, k - 1 \in Holds PROVE k \in Holds
  <2> DEFINE t == TypesInOrder[k]
  <2>1. t \in IpTypes /\ k \in Nat /\ k > 0 /\ k \in 0 .. n
    BY <1>1
  <2>2. \A i \in 1 .. k - 1 : TypesInOrder[i] # t
    <3>1. \A i \in 1 .. k - 1 : i \in 1 .. n /\ i # k
      BY <1>1
    <3> QED
      BY <3>1, <1>1
  <2>3. Fine(f[1 .. k - 1], k - 1)
    BY <1>6
  <2>4. f[1 .. k] = Adds(f[1 .. k - 1], t, l, fails)
    BY <1>3, <1>4
  <2> DEFINE r == f[1 .. k - 1]
  <2> HIDE DEF t, r
  <2>5. Going(c, r, k - 1, lis, broken, exact, h, l) /\ t = TypesInOrder[k]
    BY <2>3 DEF r, t
  <2>6. Going(c, Adds(r, t, l, fails), k, lis, broken, exact, h, l)
    BY <1>0, <2>1, <2>2, <2>5, OneTypeMore
  <2>7. Fine(f[1 .. k], k)
    BY <2>4, <2>6 DEF r
  <2> QED
    BY <2>1, <2>7
<1>7. n \in Holds
  <2>1. Holds \in SUBSET (0 .. n)
    OBVIOUS
  <2> HIDE DEF Holds
  <2> QED
    BY <1>1, <1>5, <1>6, <2>1, ByPrefixes
<1> DEFINE r == f[1 .. n]
           result == add_receiver_sockets(c, l, fails)
           now == [lis EXCEPT ![h] = r.l]
<1>8. /\ r = [net |-> r.net, l |-> r.l, res |-> r.res]
      /\ Kept(r.net, now, broken, exact) /\ Follows(c, r.net)
      /\ r.l \in Listener /\ r.l = [l EXCEPT !.sockets = r.l.sockets]
      /\ r.res # "failed" => Supplied(r.l)
      /\ r.res \in {"ok", "failed", "no_netints"}
      /\ r.res = "no_netints" => \A t \in IpTypes : r.l.sockets[t] = NoSocket
  <2>1. Going(c, r, n, lis, broken, exact, h, l)
    BY <1>7
  <2> HIDE DEF r
  <2> QED
    BY <2>1, <1>1 DEF Going, Supplied
<1>9. result = AllOrNone(r)
  BY <1>2
<1> HIDE DEF Holds, Fine, r, result
<1>10. (\A t \in IpTypes : r.l.sockets[t] = NoSocket) => r.l.sockets = NoSockets
  BY <1>8 DEF Listener, NoSockets
<1>11. CASE r.res = "ok" \/ (\A t \in IpTypes : r.l.sockets[t] = NoSocket)
  <2>1. result = r
    BY <1>9, <1>11 DEF AllOrNone
  <2> QED
    BY <2>1, <1>8, <1>10, <1>11 DEF Equipped, result
<1>12. CASE ~(r.res = "ok" \/ (\A t \in IpTypes : r.l.sockets[t] = NoSocket))
  <2> DEFINE d == remove_sockets(r.net, r.l, TRUE)
  <2>1. result = [r EXCEPT !.net = d, !.l.sockets = NoSockets]
    BY <1>9, <1>12 DEF AllOrNone
  <2>2. /\ result.net = d /\ result.res = r.res
        /\ result.l = Emptied(r.l)
    <3> HIDE DEF d
    <3>1. result = [net |-> d, l |-> Emptied(r.l), res |-> r.res]
      BY <2>1, <1>8 DEF Emptied
    <3> QED
      BY <3>1
  <2>3. MayGiveBack(r.net, now, broken, exact, h, r.l.universe, r.l.netints, TRUE)
            /\ r.l.sockets = now[h].sockets
    BY <1>0, <1>8 DEF MayGiveBack
  <2>4. GaveBack(r.net, d, [now EXCEPT ![h] = Emptied(now[h])], broken, exact, TRUE)
    BY <2>3, SocketsRemoved
  <2>5. [now EXCEPT ![h] = Emptied(now[h])] = [lis EXCEPT ![h] = Emptied(r.l)]
    BY <1>0
  <2>6. Emptied(r.l) \in Listener /\ Emptied(r.l) = [l EXCEPT !.sockets = Emptied(r.l).sockets]
        /\ Emptied(r.l).sockets = NoSockets
    <3>1. \A a, e : [[l EXCEPT !.sockets = a] EXCEPT !.sockets = e] = [l EXCEPT !.sockets = e]
      BY <1>0 DEF Listener
    <3>2. Emptied(r.l) = [r.l EXCEPT !.sockets = NoSockets]
      BY DEF Emptied
    <3>3. Emptied(r.l) = [l EXCEPT !.sockets = NoSockets]
      BY <1>8, <3>1, <3>2
    <3> QED
      BY <1>8, <3>3, EmptiedIs
  <2> HIDE DEF d, now
  <2>7. Kept(d, [lis EXCEPT ![h] = Emptied(r.l)], broken, exact) /\ Follows(r.net, d)
    BY <2>4, <2>5 DEF GaveBack
  <2> QED
    BY <2>2, <2>6, <2>7, <1>8, <1>12 DEF Equipped, Follows, SameThread, result
<1> QED
  BY <1>11, <1>12

-----------------------------------------------------------------------------
(* All receivers, one after the other.                                      *)

(* The receivers hs in an order, each once.                                 *)
Orders(seq, n, hs) ==
    /\ n \in Nat /\ seq \in [1 .. n -> hs]
    /\ \A i, j \in 1 .. n : seq[i] = seq[j] => i = j
    /\ \A x \in hs : \E i \in 1 .. n : seq[i] = x

(* The receivers in order are each there once.                              *)
LEMMA InOrderIs ==
    ASSUME NEW hs, IsFiniteSet(hs), hs \subseteq Handles \/ hs = {Detector}
    PROVE  \E n : Orders(InOrder(hs), n, hs)
<1>1. CASE Detector \in hs
  <2>1. hs = {Detector}
    BY <1>1, SocketsAssumption
  <2>2. Orders(<<Detector>>, 1, hs)
    BY <2>1 DEF Orders
  <2> QED
    BY <1>1, <2>2 DEF InOrder
<1>2. CASE Detector \notin hs
  <2>1. hs \in SUBSET Nat
    BY <1>2, SocketsAssumption
  <2>2. Orders(Ascending(hs), Cardinality(hs), hs)
    BY <2>1, AscendingIs DEF Orders
  <2> QED
    BY <1>2, <2>2 DEF InOrder
<1> QED
  BY <1>1, <1>2

Done(seq, k) == {seq[i] : i \in 1 .. k}

(* One more is done with every round, and all in the end.                   *)
LEMMA DoneIs ==
    ASSUME NEW seq, NEW n, NEW hs, Orders(seq, n, hs)
    PROVE  /\ Done(seq, 0) = {} /\ Done(seq, n) = hs
           /\ \A k \in 1 .. n : /\ seq[k] \in hs /\ seq[k] \notin Done(seq, k - 1)
                                /\ Done(seq, k) = Done(seq, k - 1) \cup {seq[k]}
                                /\ Done(seq, k) \subseteq hs
<1>1. n \in Nat /\ seq \in [1 .. n -> hs]
  BY DEF Orders
<1>2. Done(seq, 0) = {}
  BY DEF Done
<1>3. Done(seq, n) = hs
  BY DEF Done, Orders
<1>4. ASSUME NEW k \in 1 .. n
      PROVE  /\ seq[k] \in hs /\ seq[k] \notin Done(seq, k - 1)
             /\ Done(seq, k) = Done(seq, k - 1) \cup {seq[k]} /\ Done(seq, k) \subseteq hs
  <2>1. \A i \in 1 .. k - 1 : i \in 1 .. n /\ i # k
    BY <1>1
  <2>2. \A i : i \in 1 .. k <=> i \in 1 .. k - 1 \/ i = k
    BY <1>1
  <2>3. seq[k] \notin Done(seq, k - 1)
    BY <2>1 DEF Done, Orders
  <2>4. Done(seq, k) = Done(seq, k - 1) \cup {seq[k]}
    BY <2>2 DEF Done
  <2>5. Done(seq, k) \subseteq hs
    BY <1>1, <2>1, <2>2 DEF Done
  <2> QED
    BY <1>1, <2>3, <2>4, <2>5
<1> QED
  BY <1>2, <1>3, <1>4

AllEmptied(lis, hs) == [h \in DOMAIN lis |-> IF h \in hs THEN Emptied(lis[h]) ELSE lis[h]]

(* Some listeners without their sockets, the others as they are.            *)
LEMMA AllEmptiedIs ==
    ASSUME NEW lis, IsListeners(lis)
    PROVE  /\ AllEmptied(lis, {}) = lis
           /\ \A hs : /\ IsListeners(AllEmptied(lis, hs)) /\ DOMAIN AllEmptied(lis, hs) = DOMAIN lis
                      /\ \A h \in DOMAIN lis :
                            /\ AllEmptied(lis, hs)[h] = IF h \in hs THEN Emptied(lis[h]) ELSE lis[h]
                            /\ AllEmptied(lis, hs)[h].universe = lis[h].universe
           /\ \A hs, h : h \in DOMAIN lis /\ h \notin hs =>
                 [AllEmptied(lis, hs) EXCEPT ![h] = Emptied(lis[h])] = AllEmptied(lis, hs \cup {h})
<1>1. \A h \in DOMAIN lis : lis[h] \in Listener /\ Emptied(lis[h]) \in Listener
                            /\ Emptied(lis[h]).universe = lis[h].universe
  BY EmptiedIs DEF IsListeners
<1>2. AllEmptied(lis, {}) = lis
  BY DEF AllEmptied, IsListeners
<1>3. ASSUME NEW hs
      PROVE  /\ IsListeners(AllEmptied(lis, hs)) /\ DOMAIN AllEmptied(lis, hs) = DOMAIN lis
             /\ \A h \in DOMAIN lis :
                   /\ AllEmptied(lis, hs)[h] = IF h \in hs THEN Emptied(lis[h]) ELSE lis[h]
                   /\ AllEmptied(lis, hs)[h].universe = lis[h].universe
  BY <1>1 DEF AllEmptied, IsListeners
<1>4. ASSUME NEW hs, NEW h \in DOMAIN lis, h \notin hs
      PROVE  [AllEmptied(lis, hs) EXCEPT ![h] = Emptied(lis[h])] = AllEmptied(lis, hs \cup {h})
  BY <1>4 DEF AllEmptied
<1> QED
  BY <1>2, <1>3, <1>4

(* remove_all_receiver_sockets.                                             *)
LEMMA AllRemoved ==
    ASSUME NEW c, NEW broken, NEW exact \in BOOLEAN, Kept(c, listeners, broken, exact),
           NEW hs \in SUBSET DOMAIN listeners, hs \subseteq Handles \/ hs = {Detector},
           NEW queued \in BOOLEAN, exact => queued \/ NothingJoined(c)
    PROVE  GaveBack(c, remove_all_receiver_sockets(c, hs, queued), AllEmptied(listeners, hs),
                    broken, exact, queued)
<1>0. IsListeners(listeners)
  BY DEF Kept, Between, Sound
<1>1. PICK n : Orders(InOrder(hs), n, hs)
  <2>1. IsFiniteSet(hs)
    BY <1>0, FS_Subset DEF IsListeners
  <2> QED
    BY <2>1, InOrderIs
<1> DEFINE seq == InOrder(hs)
           loop == Emptying(seq, listeners, queued)
           d == remove_all_receiver_sockets(c, hs, queued)
           now(k) == AllEmptied(listeners, Done(seq, k))
<1>2. n \in Nat /\ DOMAIN seq = 1 .. n
  BY <1>1 DEF Orders
<1>3. PICK f : Runs(f, loop, c, 1 .. n) /\ d = f[1 .. n]
  BY <1>2, EmptyingRuns
<1>4. /\ f[1 .. 0] = c
      /\ \A k \in 1 .. n : f[1 .. k] = Round(loop, f[1 .. k - 1], k)
  <2>1. loop.ordered
    BY DEF Emptying
  <2> HIDE DEF loop
  <2> QED
    BY <1>2, <1>3, <2>1, RunOrdered
<1>5. \A k, r : Round(loop, r, k) = remove_sockets(r, listeners[seq[k]], queued)
  BY DEF Round, Emptying
<1> HIDE DEF loop, d, seq
<1>6. /\ Done(seq, 0) = {} /\ Done(seq, n) = hs
      /\ \A k \in 1 .. n : /\ seq[k] \in hs /\ seq[k] \notin Done(seq, k - 1)
                           /\ Done(seq, k) = Done(seq, k - 1) \cup {seq[k]}
  BY <1>1, DoneIs DEF seq
<1> DEFINE Fine(r, k) == GaveBack(c, r, now(k), broken, exact, queued)
           Holds == {k \in 0 .. n : Fine(f[1 .. k], k)}
<1>7. 0 \in Holds
  <2>1. now(0) = listeners
    BY <1>0, <1>6, AllEmptiedIs
  <2>2. Follows(c, c)
    BY DEF Follows, SameThread
  <2> HIDE DEF now
  <2>3. Fine(c, 0)
    BY <2>1, <2>2 DEF GaveBack
  <2> HIDE DEF Fine
  <2> QED
    BY <1>2, <1>4, <2>3
<1>8. ASSUME NEW k \in 1 .. n, k - 1 \in Holds PROVE k \in Holds
  <2> DEFINE h == seq[k]
             l == listeners[h]
             r == f[1 .. k - 1]
             was == now(k - 1)
             e == remove_sockets(r, l, queued)
  <2>1. h \in DOMAIN listeners /\ h \notin Done(seq, k - 1) /\ Done(seq, k) = Done(seq, k - 1) \cup {h}
    BY <1>6
  <2>2. GaveBack(c, r, was, broken, exact, queued)
    BY <1>8
  <2>3. f[1 .. k] = e
    BY <1>4, <1>5
  <2>4. h \in DOMAIN was /\ was[h] = l
    BY <1>0, <2>1, AllEmptiedIs
  <2>5. [was EXCEPT ![h] = Emptied(was[h])] = now(k)
    BY <1>0, <2>1, <2>4, AllEmptiedIs
  <2> HIDE DEF h, l, r, was, now
  <2>6. MayGiveBack(r, was, broken, exact, h, l.universe, l.netints, queued)
            /\ l.sockets = was[h].sockets
    BY <2>2, <2>4 DEF MayGiveBack, GaveBack, Follows
  <2>7. GaveBack(r, e, [was EXCEPT ![h] = Emptied(was[h])], broken, exact, queued)
    <3>1. CASE queued = TRUE
      BY <2>6, <3>1, SocketsRemoved
    <3>2. CASE queued = FALSE
      BY <2>6, <3>2, SocketsRemoved
    <3> QED
      BY <3>1, <3>2
  <2> HIDE DEF e
  <2>8. GaveBack(c, e, now(k), broken, exact, queued)
    BY <2>2, <2>5, <2>7 DEF GaveBack, Follows, SameThread
  <2>9. k \in 0 .. n
    BY <1>2
  <2> QED
    BY <2>3, <2>8, <2>9
<1>9. n \in Holds
  <2>1. Holds \in SUBSET (0 .. n)
    OBVIOUS
  <2> HIDE DEF Holds
  <2> QED
    BY <1>2, <1>7, <1>8, <2>1, ByPrefixes
<1> QED
  BY <1>3, <1>6, <1>9 DEF d

(* One of them gets its new sockets.                                        *)
LEMMA EmptiedBut ==
    ASSUME NEW lis, IsListeners(lis), NEW hs, NEW h \in DOMAIN lis, NEW l \in Listener
    PROVE  /\ AllEmptied([lis EXCEPT ![h] = l], hs \ {h}) = [AllEmptied(lis, hs) EXCEPT ![h] = l]
           /\ IsListeners([lis EXCEPT ![h] = l]) /\ DOMAIN [lis EXCEPT ![h] = l] = DOMAIN lis
<1>1. IsListeners([lis EXCEPT ![h] = l]) /\ DOMAIN [lis EXCEPT ![h] = l] = DOMAIN lis
  BY DEF IsListeners
<1>2. AllEmptied([lis EXCEPT ![h] = l], hs \ {h}) = [AllEmptied(lis, hs) EXCEPT ![h] = l]
  BY DEF AllEmptied
<1> QED
  BY <1>1, <1>2

(* The receivers hs have none of their old sockets any more, those done     *)
(* their new ones.                                                          *)
Midway(c, r, done, lis, broken, exact, hs) ==
    /\ r = [net |-> r.net, ok |-> r.ok, listeners |-> r.listeners]
    /\ IsListeners(r.listeners) /\ DOMAIN r.listeners = DOMAIN lis
    /\ Kept(r.net, AllEmptied(r.listeners, hs \ done), broken, exact) /\ Follows(c, r.net)
    /\ \A h \in DOMAIN lis \ hs : r.listeners[h] = lis[h]
    /\ r.ok => \A h \in done : Supplied(r.listeners[h])

(* A round of a reset gives one more its new sockets.                       *)
LEMMA OneResetMore ==
    ASSUME NEW c, NEW r, NEW done, NEW lis, NEW broken, NEW exact \in BOOLEAN,
             NEW hs \in SUBSET DOMAIN lis,
           Midway(c, r, done, lis, broken, exact, hs), NEW h \in hs \ done,
           NEW configs, NEW usable \in SUBSET Netints, NEW fails
    PROVE  Midway(c, Resets(r, h, configs, usable, fails), done \cup {h}, lis, broken, exact, hs)
<1> DEFINE l == Emptied(r.listeners[h])
           new == [l EXCEPT !.netints = InternalNetints(configs[h], usable)]
           added == add_receiver_sockets(r.net, new, fails)
           e == Resets(r, h, configs, usable, fails)
           was == AllEmptied(r.listeners, hs \ done)
           rest == hs \ (done \cup {h})
<1>1. /\ r = [net |-> r.net, ok |-> r.ok, listeners |-> r.listeners]
      /\ IsListeners(r.listeners) /\ DOMAIN r.listeners = DOMAIN lis
      /\ Kept(r.net, was, broken, exact) /\ Follows(c, r.net)
      /\ \A g \in DOMAIN lis \ hs : r.listeners[g] = lis[g]
      /\ r.ok => \A g \in done : Supplied(r.listeners[g])
  BY DEF Midway
<1>2. h \in DOMAIN r.listeners /\ h \in hs /\ h \notin done /\ rest = (hs \ done) \ {h}
  BY <1>1
<1>3. /\ l \in Listener /\ l.sockets = NoSockets /\ l.universe = r.listeners[h].universe
      /\ \A t \in IpTypes : NoSockets[t] = NoSocket
  <2>1. r.listeners[h] \in Listener
    BY <1>1, <1>2 DEF IsListeners
  <2> QED
    BY <2>1, EmptiedIs
<1>4. \A m \in Listener :
         /\ AllEmptied([r.listeners EXCEPT ![h] = m], rest) = [was EXCEPT ![h] = m]
         /\ IsListeners([r.listeners EXCEPT ![h] = m])
         /\ DOMAIN [r.listeners EXCEPT ![h] = m] = DOMAIN lis
  <2> SUFFICES ASSUME NEW m \in Listener
               PROVE  /\ AllEmptied([r.listeners EXCEPT ![h] = m], rest) = [was EXCEPT ![h] = m]
                      /\ IsListeners([r.listeners EXCEPT ![h] = m])
                      /\ DOMAIN [r.listeners EXCEPT ![h] = m] = DOMAIN lis
    OBVIOUS
  <2> DEFINE before == hs \ done
             held == r.listeners
  <2>1. rest = before \ {h} /\ IsListeners(held) /\ h \in DOMAIN held
    BY <1>1, <1>2
  <2> HIDE DEF before, held, rest
  <2>2. /\ AllEmptied([held EXCEPT ![h] = m], before \ {h}) = [AllEmptied(held, before) EXCEPT ![h] = m]
        /\ IsListeners([held EXCEPT ![h] = m]) /\ DOMAIN [held EXCEPT ![h] = m] = DOMAIN held
    BY <2>1, EmptiedBut
  <2> QED
    BY <2>1, <2>2, <1>1 DEF before, held
<1>5. /\ DOMAIN was = DOMAIN lis /\ was[h] = l /\ IsListeners(was)
      /\ [was EXCEPT ![h] = l] = was
  <2>1. /\ DOMAIN was = DOMAIN lis /\ was[h] = l /\ IsListeners(was)
    BY <1>1, <1>2, AllEmptiedIs
  <2> QED
    BY <2>1 DEF IsListeners
<1>6. e = IF ~r.ok THEN [r EXCEPT !.listeners[h] = l]
          ELSE IF NoNetints(configs[h], usable)
          THEN [r EXCEPT !.ok = FALSE, !.listeners[h] = l]
          ELSE [net |-> added.net, ok |-> added.res = "ok",
                listeners |-> [r.listeners EXCEPT ![h] = added.l]]
  BY DEF Resets
<1> HIDE DEF l, added, e, was, rest
<1>7. CASE ~r.ok \/ NoNetints(configs[h], usable)
  <2>1. e = [net |-> r.net, ok |-> e.ok, listeners |-> [r.listeners EXCEPT ![h] = l]] /\ ~e.ok
    BY <1>1, <1>6, <1>7
  <2>2. AllEmptied(e.listeners, rest) = was /\ IsListeners(e.listeners)
            /\ DOMAIN e.listeners = DOMAIN lis
    BY <1>3, <1>4, <1>5, <2>1
  <2>3. \A g \in DOMAIN lis \ hs : e.listeners[g] = lis[g]
    BY <1>1, <1>2, <2>1
  <2>4. e.net = r.net /\ e = [net |-> e.net, ok |-> e.ok, listeners |-> e.listeners]
    BY <2>1
  <2> QED
    BY <1>1, <2>1, <2>2, <2>3, <2>4 DEF Midway, e, rest
<1>8. CASE r.ok /\ ~NoNetints(configs[h], usable)
  <2> DEFINE mid == [was EXCEPT ![h] = new]
  <2>1. e = [net |-> added.net, ok |-> added.res = "ok",
             listeners |-> [r.listeners EXCEPT ![h] = added.l]]
    BY <1>6, <1>8
  <2>2. /\ new \in Listener /\ new.sockets = NoSockets /\ new.universe = l.universe
    <3>1. InternalNetints(configs[h], usable) \in SUBSET Netints
      BY DEF InternalNetints
    <3> QED
      BY <1>3, <3>1 DEF Listener
  <2>3. added = add_receiver_sockets(r.net, new, fails) /\ Emptied(new) = new
    BY <2>2, EmptiedIs DEF added
  <2> HIDE DEF new
  <2>4. /\ IsListeners(mid) /\ DOMAIN mid = DOMAIN lis /\ mid[h] = new
        /\ \A g \in DOMAIN lis : g # h => mid[g] = was[g]
        /\ \A g \in DOMAIN lis : mid[g].universe = was[g].universe
    BY <1>2, <1>3, <1>5, <2>2 DEF IsListeners
  <2> HIDE DEF mid
  <2>5. SameSockets(was, mid)
    BY <1>3, <1>5, <2>2, <2>4 DEF SameSockets
  <2>6. Kept(r.net, mid, broken, exact)
    <3>1. exact => Distinct(mid)
      BY <1>1, <1>5, <2>4 DEF Kept, Distinct
    <3> QED
      BY <1>1, <2>4, <2>5, <3>1, SocketsMatter
  <2>7. MayEquip(r.net, mid, broken, exact, h, new)
    BY <1>2, <2>2, <2>3, <2>4, <2>6 DEF MayEquip
  <2>8. Equipped(r.net, added, mid, broken, exact, h, new)
    BY <2>3, <2>7, ReceiverEquipped
  <2>9. [mid EXCEPT ![h] = added.l] = [was EXCEPT ![h] = added.l]
    BY DEF mid
  <2>10. AllEmptied(e.listeners, rest) = [was EXCEPT ![h] = added.l]
         /\ IsListeners(e.listeners) /\ DOMAIN e.listeners = DOMAIN lis
    BY <1>4, <2>1, <2>8 DEF Equipped
  <2>11. \A g \in DOMAIN lis \ hs : e.listeners[g] = lis[g]
    BY <1>1, <1>2, <2>1
  <2>12. e.ok => \A g \in done \cup {h} : Supplied(e.listeners[g])
    <3>1. e.ok => Supplied(added.l)
      BY <2>1, <2>8 DEF Equipped
    <3>2. e.listeners[h] = added.l /\ \A g \in done : e.listeners[g] = r.listeners[g]
      BY <1>2, <2>1
    <3> QED
      BY <3>1, <3>2, <1>1, <1>8
  <2>13. e.net = added.net /\ e = [net |-> e.net, ok |-> e.ok, listeners |-> e.listeners]
    BY <2>1
  <2>14. Kept(e.net, AllEmptied(e.listeners, rest), broken, exact) /\ Follows(c, e.net)
    BY <1>1, <2>8, <2>9, <2>10, <2>13 DEF Equipped, Follows, SameThread
  <2> QED
    BY <2>10, <2>11, <2>12, <2>13, <2>14 DEF Midway, e, rest
<1> QED
  BY <1>7, <1>8

(* ResetAll.                                                                *)
WasReset(c, r, broken, exact, hs) ==
    /\ Kept(r.net, r.listeners, broken, exact) /\ Follows(c, r.net)
    /\ DOMAIN r.listeners = DOMAIN listeners
    /\ \A h \in DOMAIN listeners \ hs : r.listeners[h] = listeners[h]
    /\ r.ok => \A h \in hs : Supplied(r.listeners[h])

(* A reset: all have new sockets, or it is told that not all have.          *)
LEMMA AllReset ==
    ASSUME NEW c, NEW broken, NEW exact \in BOOLEAN, Kept(c, listeners, broken, exact),
           NEW hs \in SUBSET DOMAIN listeners, hs \subseteq Handles \/ hs = {Detector},
           NEW configs, NEW usable \in SUBSET Netints, NEW fails
    PROVE  WasReset(c, ResetAll(c, hs, configs, usable, fails), broken, exact, hs)
<1>0. IsListeners(listeners)
  BY DEF Kept, Between, Sound
<1>1. PICK n : Orders(InOrder(hs), n, hs)
  <2>1. IsFiniteSet(hs)
    BY <1>0, FS_Subset DEF IsListeners
  <2> QED
    BY <2>1, InOrderIs
<1> DEFINE seq == InOrder(hs)
           loop == Resetting(seq, configs, usable, fails)
           b == ToReset(c, hs)
           d == ResetAll(c, hs, configs, usable, fails)
<1>2. n \in Nat /\ DOMAIN seq = 1 .. n
  BY <1>1 DEF Orders
<1>3. PICK f : Runs(f, loop, b, 1 .. n) /\ d = f[1 .. n]
  BY <1>2, ResettingRuns
<1>4. /\ f[1 .. 0] = b
      /\ \A k \in 1 .. n : f[1 .. k] = Round(loop, f[1 .. k - 1], k)
  <2>1. loop.ordered
    BY DEF Resetting
  <2> HIDE DEF loop, b
  <2> QED
    BY <1>2, <1>3, <2>1, RunOrdered
<1>5. \A k, r : Round(loop, r, k) = Resets(r, seq[k], configs, usable, fails)
  BY DEF Round, Resetting
<1> HIDE DEF loop, d, seq
<1>6. /\ Done(seq, 0) = {} /\ Done(seq, n) = hs
      /\ \A k \in 1 .. n : /\ seq[k] \in hs /\ seq[k] \notin Done(seq, k - 1)
                           /\ Done(seq, k) = Done(seq, k - 1) \cup {seq[k]}
  BY <1>1, DoneIs DEF seq
<1> DEFINE Fine(r, k) == Midway(c, r, Done(seq, k), listeners, broken, exact, hs)
           Holds == {k \in 0 .. n : Fine(f[1 .. k], k)}
<1>7. 0 \in Holds
  <2>1. GaveBack(c, b.net, AllEmptied(listeners, hs), broken, exact, TRUE)
    BY AllRemoved DEF ToReset
  <2>2. b = [net |-> b.net, ok |-> b.ok, listeners |-> b.listeners] /\ b.listeners = listeners
    BY DEF ToReset
  <2>3. hs \ {} = hs
    OBVIOUS
  <2> HIDE DEF b
  <2>4. Fine(b, 0)
    BY <1>0, <1>6, <2>1, <2>2, <2>3 DEF Midway, GaveBack
  <2> HIDE DEF Fine
  <2> QED
    BY <1>2, <1>4, <2>4
<1>8. ASSUME NEW k \in 1 .. n, k - 1 \in Holds PROVE k \in Holds
  <2> DEFINE h == seq[k]
             r == f[1 .. k - 1]
             done == Done(seq, k - 1)
  <2>1. h \in hs \ done /\ Done(seq, k) = done \cup {h}
    BY <1>6
  <2>2. Midway(c, r, done, listeners, broken, exact, hs)
    BY <1>8
  <2>3. f[1 .. k] = Resets(r, h, configs, usable, fails)
    BY <1>4, <1>5
  <2> HIDE DEF h, r, done
  <2>4. Midway(c, Resets(r, h, configs, usable, fails), done \cup {h}, listeners, broken, exact, hs)
    BY <2>1, <2>2, OneResetMore
  <2>5. k \in 0 .. n
    BY <1>2
  <2> QED
    BY <2>1, <2>3, <2>4, <2>5
<1>9. n \in Holds
  <2>1. Holds \in SUBSET (0 .. n)
    OBVIOUS
  <2> HIDE DEF Holds
  <2> QED
    BY <1>2, <1>7, <1>8, <2>1, ByPrefixes
<1>10. Midway(c, d, hs, listeners, broken, exact, hs)
  BY <1>3, <1>6, <1>9
<1>11. hs \ hs = {} /\ AllEmptied(d.listeners, {}) = d.listeners
  BY <1>10, AllEmptiedIs DEF Midway
<1> QED
  BY <1>10, <1>11 DEF Midway, WasReset, d

(* There is no request in an empty bag.                                     *)
LEMMA NoRequests == BagToSet(EmptyBag) = {} /\ EmptyBag = SetToBag({})
BY DEF BagToSet, EmptyBag, SetToBag

(* sacn_unsubscribe_sockets leaves what is to be left.                      *)
LEMMA AllLeftKeeps ==
    ASSUME NEW c, NEW lis, NEW broken, NEW exact \in BOOLEAN, Kept(c, lis, broken, exact)
    PROVE  LET d == AllLeft(c) IN
           /\ Kept(d, lis, broken, exact) /\ SameThread(c, d)
           /\ d.unsubscribes = EmptyBag
<1> DEFINE less == Left(c, Unsubs(c))
           d == AllLeft(c)
<1>1. Between(c, lis, broken) /\ HasFields(c)
  BY DEF Kept, Between, Sound, IsContext
<1>2. /\ SameButRequests(c, less) /\ SameRequests(c, less)
      /\ \A s \in DOMAIN c.open :
            less.open[s] = c.open[s] \ {<<r.universe, r.netint>> :
              r \in {r \in Unsubs(c) : r.socket = s}}
  BY <1>1, LeftIs
<1>3. d = [less EXCEPT !.unsubscribes = EmptyBag]
  BY DEF AllLeft, Unsubs
<1> HIDE DEF less, d
<1>4. /\ SameButRequests(c, d) /\ d.subscribes = c.subscribes /\ d.unsubscribes = EmptyBag
      /\ d.open = less.open
  BY <1>2, <1>3 DEF SameButRequests, SameRequests, HasFields, Fields, SameThread
<1>5. Between(d, lis, broken)
  BY <1>1, <1>4, RequestsKeep DEF Between, DeadListed, SameButRequests
<1>6. ASSUME Asks(c, lis)
      PROVE  Asks(d, lis)
  <2>1. Subs(d) = Subs(c) /\ Unsubs(d) = {}
    BY <1>4, NoRequests DEF Subs, Unsubs
  <2>2. DOMAIN d.open = DOMAIN c.open
    BY <1>4 DEF SameButRequests
  <2>3. Once(d)
    BY <1>4, <1>6, <2>1, <2>2, NoRequests DEF Asks, Once
  <2>4. ASSUME NEW s \in DOMAIN c.open
        PROVE  /\ d.open[s] \subseteq AnyUniverse \X Netints
               /\ \A u \in AnyUniverse, n \in Netints : WantedOrLeft(d, lis, s, u, n)
    <3>1. c.open[s] \subseteq AnyUniverse \X Netints
      BY <1>6 DEF Asks
    <3>2. d.open[s] = c.open[s] \ {<<r.universe, r.netint>> : r \in {r \in Unsubs(c) : r.socket = s}}
      BY <1>2, <1>4
    <3>3. ASSUME NEW u \in AnyUniverse, NEW n \in Netints
          PROVE  WantedOrLeft(d, lis, s, u, n)
      <4>1. \A r \in Unsubs(c) : r = Request(r.socket, r.universe, r.netint)
        BY <1>6, RequestOf DEF Asks, Once
      <4>2. <<u, n>> \in d.open[s] <=> <<u, n>> \in c.open[s] /\ Request(s, u, n) \notin Unsubs(c)
        <5>1. ASSUME NEW r \in Unsubs(c), r.socket = s, <<u, n>> = <<r.universe, r.netint>>
              PROVE  r = Request(s, u, n)
          BY <5>1, <4>1
        <5>2. ASSUME Request(s, u, n) \in Unsubs(c)
              PROVE  <<u, n>> \in {<<r.universe, r.netint>> : r \in {r \in Unsubs(c) : r.socket = s}}
          BY <5>2, RequestIs
        <5> QED
          BY <3>2, <5>1, <5>2
      <4>3. WantedOrLeft(c, lis, s, u, n)
        BY <1>6 DEF Asks
      <4> QED
        BY <4>2, <4>3, <2>1 DEF WantedOrLeft
    <3> QED
      BY <3>1, <3>2, <3>3
  <2> QED
    BY <2>2, <2>3, <2>4 DEF Asks
<1> QED
  BY <1>4, <1>5, <1>6 DEF Kept, SameButRequests, d

(* sacn_subscribe_sockets joins what is to be joined.                       *)
LEMMA JoinedKeeps ==
    ASSUME NEW c, NEW lis, NEW broken, NEW exact \in BOOLEAN, Kept(c, lis, broken, exact),
           c.unsubscribes = EmptyBag
    PROVE  LET d == Joined(c) IN
           /\ Kept(d, lis, broken, exact) /\ SameThread(c, d)
           /\ d.subscribes = EmptyBag /\ d.unsubscribes = EmptyBag
<1> DEFINE d == Joined(c)
<1>1. Between(c, lis, broken) /\ HasFields(c)
  BY DEF Kept, Between, Sound, IsContext
<1>2. /\ SameButRequests(c, d) /\ d.subscribes = EmptyBag /\ d.unsubscribes = EmptyBag
      /\ \A s \in DOMAIN c.open :
            d.open[s] = c.open[s] \cup {<<r.universe, r.netint>> : r \in {r \in Subs(c) : r.socket = s}}
  BY <1>1 DEF Joined, SameButRequests, SameThread, HasFields, Fields, Subs
<1> HIDE DEF d
<1>5. Between(d, lis, broken)
  BY <1>1, <1>2, RequestsKeep DEF Between, DeadListed, SameButRequests
<1>6. ASSUME Asks(c, lis)
      PROVE  Asks(d, lis)
  <2>1. Subs(d) = {} /\ Unsubs(d) = {} /\ Unsubs(c) = {}
    BY <1>2, NoRequests DEF Subs, Unsubs
  <2>2. DOMAIN d.open = DOMAIN c.open
    BY <1>2 DEF SameButRequests
  <2>3. Once(d)
    BY <1>2, <2>1, NoRequests DEF Once
  <2>4. ASSUME NEW s \in DOMAIN c.open
        PROVE  /\ d.open[s] \subseteq AnyUniverse \X Netints
               /\ \A u \in AnyUniverse, n \in Netints : WantedOrLeft(d, lis, s, u, n)
    <3>1. /\ c.open[s] \subseteq AnyUniverse \X Netints
          /\ Subs(c) \subseteq [socket : DOMAIN c.open, universe : AnyUniverse, netint : Netints]
      BY <1>6 DEF Asks, Once
    <3>2. d.open[s] = c.open[s] \cup {<<r.universe, r.netint>> : r \in {r \in Subs(c) : r.socket = s}}
      BY <1>2
    <3>4. \A r \in Subs(c) : /\ r = Request(r.socket, r.universe, r.netint)
                             /\ r.universe \in AnyUniverse /\ r.netint \in Netints
      BY <3>1, RequestOf
    <3>3. ASSUME NEW u \in AnyUniverse, NEW n \in Netints
          PROVE  WantedOrLeft(d, lis, s, u, n)
      <4>2. <<u, n>> \in d.open[s] <=> <<u, n>> \in c.open[s] \/ Request(s, u, n) \in Subs(c)
        <5>1. ASSUME NEW r \in Subs(c), r.socket = s, <<u, n>> = <<r.universe, r.netint>>
              PROVE  r = Request(s, u, n)
          BY <5>1, <3>4
        <5>2. ASSUME Request(s, u, n) \in Subs(c)
              PROVE  <<u, n>> \in {<<r.universe, r.netint>> : r \in {r \in Subs(c) : r.socket = s}}
          BY <5>2, RequestIs
        <5> QED
          BY <3>2, <5>1, <5>2
      <4>3. WantedOrLeft(c, lis, s, u, n)
        BY <1>6 DEF Asks
      <4> QED
        BY <4>2, <4>3, <2>1 DEF WantedOrLeft
    <3> QED
      BY <3>1, <3>2, <3>3, <3>4
  <2> QED
    BY <2>2, <2>3, <2>4 DEF Asks
<1> QED
  BY <1>2, <1>5, <1>6 DEF Kept, SameButRequests, d

(* When all sockets that were to be closed are, the list of them is         *)
(* emptied.                                                                 *)
LEMMA DeadForgotten ==
    ASSUME NEW c, NEW lis, NEW broken, NEW exact \in BOOLEAN, Sound(c, {}, lis, broken),
           exact => Asks(c, lis) /\ Distinct(lis)
    PROVE  LET d == [c EXCEPT !.dead_sockets = <<>>] IN
           /\ Kept(d, lis, broken, exact) /\ SameThread(c, d) /\ SameRequests(c, d)
           /\ d.dead_sockets = <<>>
<1> DEFINE d == [c EXCEPT !.dead_sockets = <<>>]
<1>1. /\ HasFields(d) /\ SameThread(c, d) /\ SameRequests(c, d)
      /\ d.dead_sockets = <<>>
      /\ d.socket_refs = c.socket_refs /\ d.new_socket_refs = c.new_socket_refs
      /\ d.bound = c.bound /\ d.polled = c.polled /\ d.open = c.open
  BY DEF Sound, IsContext, HasFields, Fields, SameThread, SameRequests
<1> HIDE DEF d
<1>2. Sound(d, {}, lis, broken)
  <2>1. Those(d) = Those(c) /\ \A i \in Those(c) : Nth(d, i) = Nth(c, i)
    BY <1>1 DEF Those, Nth
  <2>2. IsContext(d)
    BY <1>1 DEF Sound, IsContext
  <2>3. HandlesKept(d, {})
    BY <1>1, <2>1 DEF Sound, HandlesKept
  <2>4. Counted(d, lis) /\ PendingLast(d)
    BY <1>1, <2>1 DEF Sound, Counted, PendingLast
  <2>5. OneBound(d, {}) /\ Polls(d, broken)
    BY <1>1, <2>1 DEF Sound, OneBound, Polls, SameThread
  <2> QED
    BY <2>2, <2>3, <2>4, <2>5 DEF Sound
<1>3. Range(d.dead_sockets) = {} /\ DeadListed(d)
  BY <1>1 DEF Range, DeadListed
<1>4. Between(d, lis, broken)
  BY <1>2, <1>3 DEF Between
<1>5. ASSUME exact
      PROVE  Asks(d, lis)
  BY <1>1, <1>5, AsksSame
<1> QED
  BY <1>1, <1>4, <1>5 DEF Kept, d

NothingAsked(c) == Subs(c) = {} /\ Unsubs(c) = {}

(* The sockets that wait are closed one after the other.                    *)
LEMMA DeadClosed ==
    ASSUME NEW c, NEW lis, NEW broken, NEW exact \in BOOLEAN, Kept(c, lis, broken, exact),
           exact => NothingAsked(c)
    PROVE  LET d == sacn_cleanup_dead_sockets(c) IN
           /\ Kept(d, lis, broken, exact) /\ SameThread(c, d) /\ SameRequests(c, d)
           /\ d.dead_sockets = <<>>
<1> DEFINE dead == c.dead_sockets
           n == Len(dead)
           gone == Range(dead)
           loop == Closing(dead)
           d == sacn_cleanup_dead_sockets(c)
           Fine(r, k) == /\ Sound(r, gone \ Done(dead, k), lis, broken)
                         /\ SameThread(c, r) /\ SameRequests(c, r)
                         /\ exact => Asks(r, lis)
<1>1. /\ DeadListed(c) /\ Sound(c, gone, lis, broken)
      /\ exact => Asks(c, lis) /\ Distinct(lis)
  BY DEF Kept, Between
<1>2. /\ n \in Nat /\ DOMAIN dead = 1 .. n /\ dead \in [1 .. n -> gone]
      /\ \A x \in gone : \E i \in 1 .. n : dead[i] = x
      /\ \A i, j \in 1 .. n : dead[i] = dead[j] => i = j
  <2>1. dead \in Seq(Socket)
    BY <1>1 DEF DeadListed
  <2>2. n \in Nat /\ DOMAIN dead = 1 .. n /\ dead = [i \in 1 .. n |-> dead[i]]
    BY <2>1, LenProperties
  <2> QED
    BY <2>2, <1>1 DEF DeadListed, Range
<1>3. Orders(dead, n, gone)
  BY <1>2 DEF Orders
<1>4. PICK f : /\ Runs(f, loop, c, 1 .. n)
               /\ d = [f[1 .. n] EXCEPT !.dead_sockets = <<>>]
  BY <1>2, ClosingRuns
<1>5. /\ f[1 .. 0] = c
      /\ \A k \in 1 .. n : f[1 .. k] = Round(loop, f[1 .. k - 1], k)
  <2>1. loop.ordered
    BY DEF Closing
  <2> QED
    BY <2>1, <1>2, <1>4, RunOrdered
<1>6. \A r, k : Round(loop, r, k) = CleanedUp(r, dead[k])
  BY DEF Round, Closing
<1>7. /\ Done(dead, 0) = {} /\ Done(dead, n) = gone
      /\ \A k \in 1 .. n : /\ dead[k] \in gone /\ dead[k] \notin Done(dead, k - 1)
                           /\ Done(dead, k) = Done(dead, k - 1) \cup {dead[k]}
  BY <1>3, DoneIs
<1> HIDE DEF dead, n, gone, loop, d
<1>8. Fine(f[1 .. 0], 0)
  <2>1. gone \ Done(dead, 0) = gone
    BY <1>7
  <2>2. SameThread(c, c) /\ SameRequests(c, c)
    BY DEF SameThread, SameRequests
  <2> QED
    BY <2>1, <2>2, <1>1, <1>5
<1>9. ASSUME NEW k \in 1 .. n, Fine(f[1 .. k - 1], k - 1)
      PROVE  Fine(f[1 .. k], k)
  <2>0. PICK x : x = dead[k]
    OBVIOUS
  <2> DEFINE r == f[1 .. k - 1]
             e == CleanedUp(r, x)
             left == gone \ Done(dead, k - 1)
  <2>1. f[1 .. k] = e
    BY <2>0, <1>5, <1>6
  <2>2. x \in left /\ gone \ Done(dead, k) = left \ {x}
    BY <2>0, <1>7
  <2>3. Sound(r, left, lis, broken) /\ SameThread(c, r) /\ SameRequests(c, r) /\ (exact => Asks(r, lis))
    BY <1>9
  <2> HIDE DEF r, left
  <2>4. /\ Sound(e, left \ {x}, lis, broken)
        /\ SameThread(r, e) /\ SameRequests(r, e)
        /\ e.open = Restrict(r.open, DOMAIN r.open \ {x.handle})
    <3>1. Cleaned(r, e, left, x, lis, broken)
      BY <2>2, <2>3, CleanedUpSound
    <3> QED
      BY <3>1 DEF Cleaned
  <2>5. ASSUME exact
        PROVE  Asks(e, lis)
    <3>1. Subs(r) = {} /\ Unsubs(r) = {}
      BY <2>3, <2>5 DEF Subs, Unsubs, SameRequests, NothingAsked
    <3> HIDE DEF e
    <3> QED
      BY <3>1, <2>2, <2>3, <2>4, <2>5, AsksClosed
  <2> HIDE DEF e
  <2> QED
    BY <2>1, <2>2, <2>3, <2>4, <2>5 DEF SameThread, SameRequests
<1> DEFINE Holds == {k \in 0 .. n : Fine(f[1 .. k], k)}
<1> HIDE DEF Fine
<1>10. n \in Holds
  <2>1. 0 \in Holds
    BY <1>2, <1>8
  <2>2. \A k \in 1 .. n : k - 1 \in Holds => k \in Holds
    BY <1>2, <1>9
  <2>3. Holds \in SUBSET (0 .. n)
    OBVIOUS
  <2> HIDE DEF Holds
  <2> QED
    BY <1>2, <2>1, <2>2, <2>3, ByPrefixes
<1>11. /\ Sound(f[1 .. n], {}, lis, broken) /\ SameThread(c, f[1 .. n]) /\ SameRequests(c, f[1 .. n])
       /\ exact => Asks(f[1 .. n], lis)
  <2>1. Fine(f[1 .. n], n)
    BY <1>10
  <2>2. gone \ Done(dead, n) = {}
    BY <1>7
  <2> QED
    BY <2>1, <2>2 DEF Fine
<1>12. LET e == [f[1 .. n] EXCEPT !.dead_sockets = <<>>] IN
       /\ Kept(e, lis, broken, exact) /\ SameThread(f[1 .. n], e) /\ SameRequests(f[1 .. n], e)
       /\ e.dead_sockets = <<>>
  BY <1>11, <1>1, DeadForgotten
<1> QED
  BY <1>4, <1>11, <1>12 DEF SameThread, SameRequests, d

(* Likeness goes on from one step to the next.                              *)
LEMMA AlikeThrough ==
    ASSUME NEW c, NEW d, NEW e, IsContext(c), Alike(c, d), Alike(d, e)
    PROVE  Alike(c, e)
<1>1. Those(d) = Those(c)
  BY LenProperties DEF Alike, Those, IsContext
<1> QED
  BY <1>1 DEF Alike, SameThread

(* And begins with the state itself.                                        *)
LEMMA AlikeItself ==
    ASSUME NEW c, IsContext(c)
    PROVE  Alike(c, c)
BY DEF Alike, SameThread, IsContext

(* The bound ones of the sockets s are polled.                              *)
PollsThese(c, r, s) ==
    /\ Alike(c, r) /\ r.bound = c.bound
    /\ \A j \in Those(c) : Nth(r, j).bound = Nth(c, j).bound
    /\ r.polled \subseteq DOMAIN c.open /\ c.polled \subseteq r.polled
    /\ c.poll_context_initialized => \A i \in s : Nth(c, i).handle \in r.polled

(* A round of sacn_add_pending_sockets polls one more.                      *)
LEMMA OnePollMore ==
    ASSUME NEW c, NEW gone, NEW lis, NEW broken, Sound(c, gone, lis, broken),
           NEW r, NEW s, PollsThese(c, r, s), NEW x \in Those(c)
    PROVE  PollsThese(c, poll_add_socket(r, x), s \cup {x})
<1> DEFINE e == poll_add_socket(r, x)
<1>1. /\ IsContext(c) /\ HandlesKept(c, gone) /\ Counted(c, lis) /\ PendingLast(c)
      /\ Alike(c, r) /\ r.bound = c.bound
      /\ \A j \in Those(c) : Nth(r, j).bound = Nth(c, j).bound
      /\ r.polled \subseteq DOMAIN c.open /\ c.polled \subseteq r.polled
      /\ c.poll_context_initialized => \A i \in s : Nth(c, i).handle \in r.polled
  BY DEF Sound, PollsThese
<1>2. r.bound \subseteq IpTypes
  BY <1>1 DEF IsContext
<1>3. Those(r) = Those(c) /\ IsContext(r)
  BY <1>1, <1>2, AlikeKeeps
<1>4. /\ Alike(r, e) /\ e.bound = r.bound
      /\ \A j \in Those(r) : Nth(e, j).bound = Nth(r, j).bound
      /\ e.polled = IF r.poll_context_initialized THEN r.polled \cup {Nth(r, x).handle} ELSE r.polled
  BY <1>3, PollAddedIs
<1> HIDE DEF e
<1>5. Alike(c, e)
  BY <1>1, <1>4, AlikeThrough
<1>6. r.poll_context_initialized = c.poll_context_initialized /\ Nth(r, x).handle = Nth(c, x).handle
  BY <1>1 DEF Alike, SameThread
<1>7. Nth(c, x).handle \in DOMAIN c.open
  BY <1>1 DEF HandlesKept
<1> QED
  BY <1>1, <1>3, <1>4, <1>5, <1>6, <1>7 DEF PollsThese, e

(* The new sockets are new no longer.                                       *)
LEMMA NoneNewIs ==
    ASSUME NEW c, NEW lis, NEW broken, NEW exact \in BOOLEAN, Kept(c, lis, broken, exact),
           NEW r, PollsThese(c, r, ToPoll(c))
    PROVE  LET d == NoneNew(r, Pendings(c)) IN
           /\ Kept(d, lis, broken, exact) /\ SameThread(c, d) /\ SameRequests(c, d)
           /\ d.dead_sockets = c.dead_sockets /\ d.new_socket_refs = 0
<1> DEFINE n == Len(c.socket_refs)
           gone == Range(c.dead_sockets)
           d == NoneNew(r, Pendings(c))
<1>1. /\ IsContext(c) /\ HandlesKept(c, gone) /\ Counted(c, lis) /\ PendingLast(c)
      /\ OneBound(c, gone) /\ Polls(c, broken) /\ IsListeners(lis) /\ DeadListed(c)
      /\ exact => Asks(c, lis) /\ Distinct(lis)
  BY DEF Kept, Between, Sound
<1>2. /\ Alike(c, r) /\ r.bound = c.bound
      /\ \A j \in Those(c) : Nth(r, j).bound = Nth(c, j).bound
      /\ r.polled \subseteq DOMAIN c.open /\ c.polled \subseteq r.polled
      /\ c.poll_context_initialized => \A i \in ToPoll(c) : Nth(c, i).handle \in r.polled
  BY DEF PollsThese
<1>3. /\ Those(c) = 1 .. n /\ n \in Nat /\ c.new_socket_refs \in 0 .. n
      /\ \A i \in 1 .. n : i \in Pendings(c) <=> c.socket_refs[i].pending
  <2>1. Those(c) = 1 .. n /\ n \in Nat /\ c.new_socket_refs \in 0 .. n
    BY <1>1, RefTyped DEF IsContext
  <2>2. \A i \in 1 .. n : i \in Pendings(c) <=> i > n - c.new_socket_refs
    BY <2>1 DEF Pendings
  <2> QED
    BY <1>1, <2>1, <2>2 DEF PendingLast
<1>4. /\ HasFields(r) /\ r.socket_refs \in Seq(Ref) /\ Len(r.socket_refs) = n
      /\ DOMAIN r.socket_refs = 1 .. n /\ \A i \in 1 .. n : r.socket_refs[i] \in Ref
  BY <1>2, <1>3, LenProperties DEF Alike
<1>5. /\ HasFields(d) /\ SameThread(r, d) /\ SameRequests(r, d) /\ d.new_socket_refs = 0
      /\ d.bound = r.bound /\ d.polled = r.polled /\ d.open = r.open /\ d.dead_sockets = r.dead_sockets
      /\ d.socket_refs = [i \in 1 .. n |-> IF i \in Pendings(c)
           THEN [r.socket_refs[i] EXCEPT !.pending = FALSE]
                                           ELSE r.socket_refs[i]]
  BY <1>4 DEF NoneNew, HasFields, Fields, SameThread, SameRequests
<1> HIDE DEF d
<1>6. /\ SameThread(c, d) /\ SameRequests(c, d) /\ d.dead_sockets = c.dead_sockets /\ d.open = c.open
      /\ d.bound = c.bound
  BY <1>2, <1>5 DEF Alike, SameThread, SameRequests
<1>7. /\ Those(d) = 1 .. n
      /\ \A i \in 1 .. n : /\ d.socket_refs[i] \in Ref /\ ~d.socket_refs[i].pending
                           /\ Nth(d, i) = Nth(r, i) /\ d.socket_refs[i].refcount =
                                r.socket_refs[i].refcount
  <2>1. \A i \in 1 .. n : d.socket_refs[i] = IF i \in Pendings(c)
            THEN [r.socket_refs[i] EXCEPT !.pending = FALSE]
                                             ELSE r.socket_refs[i]
    BY <1>5
  <2>2. \A i \in 1 .. n : r.socket_refs[i].pending = c.socket_refs[i].pending
    BY <1>2, <1>3 DEF Alike
  <2>3. ASSUME NEW i \in 1 .. n
        PROVE  /\ d.socket_refs[i] \in Ref /\ ~d.socket_refs[i].pending
               /\ d.socket_refs[i].socket = r.socket_refs[i].socket
               /\ d.socket_refs[i].refcount = r.socket_refs[i].refcount
    <3>1. CASE i \in Pendings(c)
      BY <3>1, <2>1, <1>4 DEF Ref
    <3>2. CASE i \notin Pendings(c)
      BY <3>2, <2>1, <2>2, <1>3, <1>4
    <3> QED
      BY <3>1, <3>2
  <2> QED
    BY <2>3, <1>5 DEF Those, Nth
<1>8. /\ d.socket_refs \in Seq(Ref) /\ Len(d.socket_refs) = n
  <2>1. d.socket_refs \in [1 .. n -> Ref]
    BY <1>5, <1>7
  <2> QED
    BY <2>1, <1>3, LenProperties, ElementOfSeq
<1>9. \A i \in 1 .. n : /\ Nth(d, i).handle = Nth(c, i).handle /\ Nth(d, i).ip_type = Nth(c, i).ip_type
                        /\ Nth(d, i).bound = Nth(c, i).bound
                        /\ d.socket_refs[i].refcount = c.socket_refs[i].refcount
  BY <1>2, <1>3, <1>7 DEF Alike
<1>10. IsContext(d)
  BY <1>1, <1>2, <1>3, <1>5, <1>6, <1>8 DEF IsContext
<1>11. HandlesKept(d, gone)
  <2>1. {Nth(d, i).handle : i \in Those(d)} = {Nth(c, i).handle : i \in Those(c)}
    BY <1>3, <1>7, <1>9
  <2> QED
    BY <2>1, <1>1, <1>3, <1>6, <1>7, <1>9 DEF HandlesKept
<1>12. Counted(d, lis)
  BY <1>1, <1>3, <1>7, <1>9 DEF Counted
<1>13. PendingLast(d)
  <2>1. n - 0 = n /\ \A i \in 1 .. n : ~(i > n)
    BY <1>3
  <2> QED
    BY <2>1, <1>5, <1>7, <1>8 DEF PendingLast
<1>14. OneBound(d, gone)
  BY <1>1, <1>3, <1>6, <1>7, <1>9 DEF OneBound
<1>15. Polls(d, broken)
  <2> SUFFICES ASSUME d.poll_context_initialized, ~broken, NEW i \in Those(d), Nth(d, i).bound
               PROVE  Nth(d, i).handle \in d.polled
    BY DEF Polls
  <2>1. c.poll_context_initialized /\ i \in 1 .. n /\ Nth(c, i).bound
    BY <1>6, <1>7, <1>9 DEF SameThread
  <2>2. CASE c.socket_refs[i].pending
    <3>1. i \in ToPoll(c)
      BY <2>1, <2>2, <1>3 DEF ToPoll, Nth
    <3> QED
      BY <3>1, <2>1, <1>2, <1>5, <1>9
  <2>3. CASE ~c.socket_refs[i].pending
    BY <2>1, <2>3, <1>1, <1>2, <1>3, <1>5, <1>9 DEF Polls
  <2> QED
    BY <2>2, <2>3
<1>16. Sound(d, gone, lis, broken)
  BY <1>1, <1>10, <1>11, <1>12, <1>13, <1>14, <1>15 DEF Sound
<1>17. Between(d, lis, broken)
  BY <1>1, <1>6, <1>16 DEF Between, DeadListed
<1>18. ASSUME exact
       PROVE  Asks(d, lis)
  BY <1>18, <1>1, <1>6, AsksSame
<1> QED
  BY <1>1, <1>5, <1>6, <1>17, <1>18 DEF Kept, d

(* sacn_add_pending_sockets: no socket is new any more, those bound are     *)
(* polled.                                                                  *)
LEMMA PendingAdded ==
    ASSUME NEW c, NEW lis, NEW broken, NEW exact \in BOOLEAN, Kept(c, lis, broken, exact)
    PROVE  LET d == sacn_add_pending_sockets(c) IN
           /\ Kept(d, lis, broken, exact) /\ SameThread(c, d) /\ SameRequests(c, d)
           /\ d.dead_sockets = c.dead_sockets /\ d.new_socket_refs = 0
<1> DEFINE S == ToPoll(c)
           gone == Range(c.dead_sockets)
           n == Len(c.socket_refs)
<1>1. Sound(c, gone, lis, broken) /\ IsContext(c)
  BY DEF Kept, Between, Sound
<1>2. n \in Nat /\ Those(c) = 1 .. n /\ c.new_socket_refs \in 0 .. n
  BY <1>1, RefTyped DEF IsContext
<1>3. S \subseteq Those(c) /\ IsFiniteSet(S)
  <2>1. S \subseteq 1 .. n
    BY <1>2 DEF ToPoll, Pendings
  <2>2. IsFiniteSet(1 .. n)
    BY <1>2, FS_Interval
  <2>3. IsFiniteSet(S)
    BY <2>1, <2>2, FS_Subset
  <2> QED
    BY <2>1, <2>3, <1>2
<1>4. PICK f : /\ Runs(f, Polling, c, S)
               /\ sacn_add_pending_sockets(c) = NoneNew(f[S], Pendings(c))
  BY <1>3, PollingRuns
<1> HIDE DEF S
<1>5. /\ f[{}] = c
      /\ \A s \in SUBSET S : s # {} =>
           f[s] = poll_add_socket(f[s \ {Picked(Polling, s)}], Picked(Polling, s))
  <2>1. \A s \in SUBSET S : f[s] = IF s = {} THEN c
            ELSE Round(Polling, f[s \ {Picked(Polling, s)}], Picked(Polling, s))
    BY <1>4 DEF Runs
  <2>2. \A r, x : Round(Polling, r, x) = poll_add_socket(r, x)
    BY DEF Round, Polling
  <2> QED
    BY <2>1, <2>2
<1> DEFINE Holds == {s \in SUBSET S : PollsThese(c, f[s], s)}
<1>6. {} \in Holds
  <2>1. PollsThese(c, c, {})
    BY <1>1, AlikeItself DEF PollsThese, IsContext
  <2> QED
    BY <2>1, <1>5
<1>7. MayRun(Polling, S)
  BY <1>3 DEF MayRun, Polling
<1>8. ASSUME NEW s \in SUBSET S, s # {}, s \ {Picked(Polling, s)} \in Holds
      PROVE  s \in Holds
  <2>1. PICK x : x = Picked(Polling, s)
    OBVIOUS
  <2>2. x \in s
    BY <2>1, <1>7, <1>8, PickedIs
  <2>3. PICK r : r = f[s \ {x}]
    OBVIOUS
  <2>4. PICK t : t = s \ {x}
    OBVIOUS
  <2>5. PollsThese(c, r, t)
    BY <1>8, <2>1, <2>3, <2>4
  <2>6. x \in Those(c)
    BY <2>2, <1>3
  <2>7. PollsThese(c, poll_add_socket(r, x), t \cup {x})
    BY <2>5, <2>6, <1>1, OnePollMore
  <2>8. f[s] = poll_add_socket(r, x) /\ t \cup {x} = s
    BY <1>5, <1>8, <2>1, <2>2, <2>3, <2>4
  <2> QED
    BY <2>7, <2>8
<1>9. S \in Holds
  <2>1. Holds \in SUBSET SUBSET S
    OBVIOUS
  <2> HIDE DEF Holds
  <2> QED
    BY <1>6, <1>7, <1>8, <2>1, BySubsets
<1>10. PICK r : r = f[S] /\ PollsThese(c, r, ToPoll(c))
  BY <1>9 DEF S
<1> QED
  BY <1>4, <1>10, NoneNewIs

(* The thread has polled nothing before it runs, nothing is joined before   *)
(* it is started.                                                           *)
Fits(c) ==
    /\ c.running \in BOOLEAN
    /\ ~c.poll_context_initialized /\ (c.running \/ ~c.deinit_signal) => AllNew(c)
    /\ c.poll_context_initialized => c.running
    /\ ~c.running /\ ~c.deinit_signal => NothingJoined(c)

Named ==
    /\ scenario \in Scenarios
    /\ sys \in [receiver : SUBSET Netints, detector : SUBSET Netints]
    /\ DOMAIN listeners \subseteq Handles \cup {Detector}
    /\ failed \subseteq DOMAIN listeners /\ changed \subseteq DOMAIN listeners
    /\ net.deinit_signal => Detector \notin DOMAIN listeners

AllSupplied == \A h \in DOMAIN listeners \ failed : Supplied(listeners[h])

(* What every operation and every pass of the thread keeps.                 *)
Inv ==
    /\ Named /\ Kept(net, listeners, deaf, ~scenario.changes)
    /\ Fits(net) /\ AllSupplied

(* What no call of the sockets may do keeps what the thread relies on.      *)
LEMMA FitsFollow ==
    ASSUME NEW c, NEW d, Fits(c), Follows(c, d)
    PROVE  Fits(d)
BY DEF Fits, Follows, SameThread

(* What the thread does does not matter to the sockets.                     *)
LEMMA ThreadTold ==
    ASSUME NEW c, NEW d, NEW lis, NEW broken, NEW exact \in BOOLEAN, Kept(c, lis, broken, exact),
           HasFields(d), d.socket_refs = c.socket_refs, d.new_socket_refs = c.new_socket_refs,
           d.bound = c.bound, d.dead_sockets = c.dead_sockets, d.open = c.open,
           SameRequests(c, d), d.polled \subseteq c.polled, NEW now, Polls(d, now)
    PROVE  Kept(d, lis, now, exact)
<1>1. Sound(c, Range(c.dead_sockets), lis, broken)
  BY DEF Kept, Between
<1>2. Those(d) = Those(c) /\ \A i \in Those(c) : Nth(d, i) = Nth(c, i)
  BY DEF Those, Nth
<1>3. IsContext(d)
  BY <1>1 DEF Sound, IsContext
<1>4. HandlesKept(d, Range(d.dead_sockets))
  BY <1>1, <1>2 DEF Sound, HandlesKept
<1>5. Counted(d, lis) /\ PendingLast(d)
  BY <1>1, <1>2 DEF Sound, Counted, PendingLast
<1>6. OneBound(d, Range(d.dead_sockets))
  BY <1>1, <1>2 DEF Sound, OneBound
<1>7. Between(d, lis, now)
  BY <1>1, <1>3, <1>4, <1>5, <1>6 DEF Between, Sound, Kept, DeadListed
<1>8. ASSUME exact
      PROVE  Asks(d, lis)
  BY <1>8, AsksSame DEF Kept
<1> QED
  BY <1>7, <1>8 DEF Kept

(* Nothing is open, and there is no receiver.                               *)
LEMMA NothingKept ==
    ASSUME NEW c, NEW open, DOMAIN open = {}, c = [NewContext EXCEPT !.open = open], NEW lis,
             lis = [h \in {} |-> NoSockets], NEW broken, NEW exact \in BOOLEAN
    PROVE  Kept(c, lis, broken, exact) /\ Fits(c)
<1>1. /\ HasFields(c) /\ c.socket_refs = <<>> /\ c.new_socket_refs = 0 /\ c.bound = {}
      /\ DOMAIN c.open = {}
      /\ c.polled = {} /\ c.dead_sockets = <<>> /\ c.subscribes = EmptyBag /\ c.unsubscribes = EmptyBag
      /\ c.running = FALSE /\ ~c.poll_context_initialized
  BY DEF NewContext, HasFields, Fields
<1>2. Those(c) = {} /\ Range(c.dead_sockets) = {} /\ Len(c.socket_refs) = 0
          /\ c.socket_refs \in Seq(Ref)
  <2>1. <<>> \in Seq(Ref) /\ Len(<<>>) = 0 /\ DOMAIN <<>> = {}
    OBVIOUS
  <2>2. PICK refs, dead : refs = c.socket_refs /\ dead = c.dead_sockets
    OBVIOUS
  <2>3. refs = <<>> /\ dead = <<>>
    BY <1>1, <2>2
  <2> QED
    BY <2>1, <2>2, <2>3 DEF Those, Range
<1>3. IsContext(c) /\ HandlesKept(c, {}) /\ PendingLast(c) /\ OneBound(c, {}) /\ Polls(c, broken)
  <2>1. IsContext(c)
    BY <1>1, <1>2 DEF IsContext
  <2>2. HandlesKept(c, {})
    BY <1>1, <1>2 DEF HandlesKept
  <2>3. PendingLast(c) /\ OneBound(c, {}) /\ Polls(c, broken)
    BY <1>1, <1>2 DEF PendingLast, OneBound, Polls
  <2> QED
    BY <2>1, <2>2, <2>3
<1>4. DOMAIN lis = {} /\ IsListeners(lis)
  BY FS_EmptySet DEF IsListeners
<1>5. Counted(c, lis) /\ Distinct(lis)
  BY <1>2, <1>4 DEF Counted, Distinct
<1>6. Between(c, lis, broken)
  <2>1. DeadListed(c)
    <3>1. PICK dead : dead = c.dead_sockets
      OBVIOUS
    <3>2. dead = <<>>
      BY <3>1, <1>1
    <3>3. dead \in Seq(Socket) /\ DOMAIN dead = {}
      BY ONLY <3>2
    <3> QED
      BY <3>1, <3>3 DEF DeadListed
  <2>2. Sound(c, {}, lis, broken)
    BY <1>3, <1>4, <1>5 DEF Sound
  <2> QED
    BY <1>2, <2>1, <2>2 DEF Between
<1>7. Asks(c, lis)
  BY <1>1, NoRequests DEF Asks, Once, Subs, Unsubs
<1>8. AllNew(c) /\ NothingJoined(c)
  BY <1>1, <1>2 DEF AllNew, NothingJoined
<1> QED
  BY <1>1, <1>5, <1>6, <1>7, <1>8 DEF Kept, Fits

(* What the application may do, as the assumptions on the constants have    *)
(* it.                                                                      *)
LEMMA ScenarioIs ==
    ASSUME scenario \in Scenarios
    PROVE  /\ (~scenario.changes) \in BOOLEAN
           /\ scenario.netints \subseteq Netints /\ scenario.handles \subseteq Handles \cup {Detector}
           /\ scenario.universes \subseteq Universes
           /\ \A types \in scenario.types : types \in SUBSET IpTypes
           /\ \A working \in scenario.workings : working \in SUBSET Netints
<1>1. /\ scenario.handles \subseteq Handles \cup {Detector} /\ scenario.netints \subseteq Netints
      /\ scenario.types \subseteq (SUBSET IpTypes) \ {{}}
      /\ scenario.universes \subseteq Universes /\ scenario.workings \subseteq SUBSET scenario.netints
  BY SocketsAssumption
<1> QED
  BY <1>1

(* The invariant holds before anything is created.                          *)
LEMMA InitKept == Init => Inv
<1> SUFFICES ASSUME Init PROVE Inv
  OBVIOUS
<1>1. Kept(net, listeners, deaf, ~scenario.changes) /\ Fits(net)
  <2>1. net = [NewContext EXCEPT !.open = NewContext.open] /\ DOMAIN NewContext.open = {}
    BY DEF Init, NewContext
  <2> QED
    BY <2>1, NothingKept, ScenarioIs DEF Init
<1>2. DOMAIN listeners = {} /\ net.deinit_signal = FALSE
  BY DEF Init, NewContext
<1>3. Named
  BY <1>2, ScenarioIs DEF Init, Named
<1>4. AllSupplied
  BY <1>2 DEF AllSupplied
<1> QED
  BY <1>1, <1>3, <1>4 DEF Inv

OneMore(h, l) ==
    /\ IsListeners(With(h, l)) /\ DOMAIN With(h, l) = DOMAIN listeners \cup {h}
    /\ With(h, l)[h] = l /\ \A g \in DOMAIN listeners : With(h, l)[g] = listeners[g]
    /\ \A m : [With(h, l) EXCEPT ![h] = m] = With(h, m)
    /\ l.sockets = NoSockets => SameSockets(listeners, With(h, l)) /\ SameSockets(With(h, l), listeners)
    /\ Distinct(listeners) /\ ~IsTaken(l.universe) => Distinct(With(h, l))

(* One more receiver, whose universe no other has.                          *)
LEMMA WithIs ==
    ASSUME IsListeners(listeners), NEW h, h \notin DOMAIN listeners, NEW l \in Listener
    PROVE  OneMore(h, l)
<1> DEFINE lis == With(h, l)
<1>1. /\ DOMAIN lis = DOMAIN listeners \cup {h} /\ lis[h] = l
      /\ \A g \in DOMAIN listeners : lis[g] = listeners[g]
      /\ lis = [x \in DOMAIN listeners \cup {h} |-> lis[x]]
  BY DEF With
<1>2. \A m : [lis EXCEPT ![h] = m] = With(h, m)
  BY DEF With
<1> HIDE DEF lis
<1>3. IsListeners(lis)
  <2>1. IsFiniteSet(DOMAIN lis)
    BY <1>1, FS_AddElement DEF IsListeners
  <2>2. \A x \in DOMAIN lis : lis[x] \in Listener
    BY <1>1 DEF IsListeners
  <2> QED
    BY <2>1, <2>2, <1>1 DEF IsListeners
<1>4. l.sockets = NoSockets => SameSockets(listeners, lis) /\ SameSockets(lis, listeners)
  BY <1>1 DEF SameSockets
<1>5. ASSUME Distinct(listeners), ~IsTaken(l.universe)
      PROVE  Distinct(lis)
  <2>1. \A g \in DOMAIN listeners : lis[g].universe # lis[h].universe
    BY <1>1, <1>5 DEF IsTaken
  <2>2. \A g, k \in DOMAIN listeners : lis[g].universe = lis[k].universe => g = k
    BY <1>1, <1>5 DEF Distinct
  <2> QED
    BY <1>1, <2>1, <2>2 DEF Distinct
<1> QED
  BY <1>1, <1>2, <1>3, <1>4, <1>5 DEF OneMore, lis

(* The interfaces used are among the system's.                              *)
LEMMA Usable ==
    ASSUME NEW config, NEW usable \in SUBSET Netints
    PROVE  InternalNetints(config, usable) \in SUBSET Netints
BY DEF InternalNetints

(* What is told of the rest by an invariant kept.                           *)
LEMMA InvIs ==
    ASSUME Inv
    PROVE  /\ (~scenario.changes) \in BOOLEAN
           /\ IsListeners(listeners) /\ HasFields(net)
           /\ ~scenario.changes => Distinct(listeners)
           /\ sys.receiver \in SUBSET Netints /\ sys.detector \in SUBSET Netints
<1>1. scenario \in Scenarios /\ Kept(net, listeners, deaf, ~scenario.changes)
  BY DEF Inv, Named
<1>2. IsListeners(listeners) /\ HasFields(net) /\ (~scenario.changes => Distinct(listeners))
  BY <1>1 DEF Kept, Between, Sound, IsContext
<1>3. sys.receiver \in SUBSET Netints /\ sys.detector \in SUBSET Netints
  BY DEF Inv, Named
<1> QED
  BY <1>1, <1>2, <1>3, ScenarioIs

(* Running the thread is all that starting it does to the sockets.          *)
LEMMA RunningKeeps ==
    ASSUME NEW c, NEW lis, NEW broken, NEW exact \in BOOLEAN, Kept(c, lis, broken, exact),
           Fits(c), ~c.deinit_signal
    PROVE  LET d == [c EXCEPT !.running = TRUE] IN
           Kept(d, lis, broken, exact) /\ Fits(d) /\ d.deinit_signal = c.deinit_signal
<1> DEFINE d == [c EXCEPT !.running = TRUE]
<1>1. HasFields(c) /\ Polls(c, broken)
  BY DEF Kept, Between, Sound, IsContext
<1>2. /\ HasFields(d) /\ SameRequests(c, d) /\ d.dead_sockets = c.dead_sockets
      /\ d.socket_refs = c.socket_refs /\ d.new_socket_refs = c.new_socket_refs
      /\ d.bound = c.bound /\ d.polled = c.polled /\ d.open = c.open
      /\ d.running /\ d.deinit_signal = c.deinit_signal
      /\ d.poll_context_initialized = c.poll_context_initialized
  BY <1>1 DEF HasFields, Fields, SameRequests
<1> HIDE DEF d
<1>3. Polls(d, broken)
  BY <1>1, <1>2 DEF Polls, Those, Nth
<1>4. Kept(d, lis, broken, exact)
  BY <1>2, <1>3, ThreadTold
<1>5. Fits(d)
  BY <1>2 DEF Fits, AllNew
<1> QED
  BY <1>2, <1>4, <1>5 DEF d

(* create_sacn_receiver and sacn_source_detector_create keep the invariant, *)
(* whether sockets are added, the thread is started, or neither.            *)
LEMMA CreateKeeps ==
    ASSUME Inv, NEW h, NEW universe \in UniverseOf(h), NEW config, NEW ip_supported \in scenario.types,
           Create(h, universe, config, ip_supported)
    PROVE  Inv'
<1> DEFINE l == [universe |-> universe, netints |-> InternalNetints(config, UsedSys(h)),
                 ip_supported |-> ip_supported, sockets |-> NoSockets]
           exact == ~scenario.changes
           lis == With(h, l)
<1>1. /\ h \in scenario.handles \ DOMAIN listeners /\ MayCall /\ ~IsTaken(universe)
      /\ UNCHANGED <<scenario, sys, failed, changed, deaf>>
  BY DEF Create
<1>2. PICK fails \in Failures, starts \in {TRUE, net.running} :
        LET added == add_receiver_sockets(net, l, fails) IN
        /\ net' = IF added.res = "ok" THEN assign_to_thread(added, starts) ELSE added.net
        /\ listeners' = IF added.res = "ok" /\ starts THEN With(h, added.l) ELSE listeners
  BY DEF Create
<1> DEFINE added == add_receiver_sockets(net, l, fails)
<1>3. /\ net' = IF added.res = "ok" THEN assign_to_thread(added, starts) ELSE added.net
      /\ listeners' = IF added.res = "ok" /\ starts THEN With(h, added.l) ELSE listeners
  BY <1>2
<1>4. /\ exact \in BOOLEAN /\ IsListeners(listeners) /\ HasFields(net)
      /\ exact => Distinct(listeners)
      /\ sys.receiver \in SUBSET Netints /\ sys.detector \in SUBSET Netints
  BY InvIs
<1>5. /\ Kept(net, listeners, deaf, exact) /\ Named /\ Fits(net) /\ AllSupplied
      /\ scenario \in Scenarios
  BY DEF Inv, Named
<1>6. l \in Listener /\ l.sockets = NoSockets /\ l.universe = universe
  <2>1. universe \in Universes \cup {DiscoveryUniverse}
    BY <1>5, ScenarioIs DEF UniverseOf
  <2>2. UsedSys(h) \in SUBSET Netints
    BY <1>4 DEF UsedSys
  <2>3. InternalNetints(config, UsedSys(h)) \in SUBSET Netints /\ ip_supported \in SUBSET IpTypes
    BY <2>2, <1>5, Usable, ScenarioIs
  <2>4. NoSockets \in [IpTypes -> Sockets \cup {NoSocket}]
    BY DEF NoSockets
  <2> QED
    BY <2>1, <2>3, <2>4 DEF Listener
<1> HIDE DEF l, added
<1>7. /\ IsListeners(lis) /\ lis[h] = l /\ h \in DOMAIN lis
      /\ SameSockets(listeners, lis) /\ (exact => Distinct(lis))
      /\ \A m : [lis EXCEPT ![h] = m] = With(h, m)
  <2>1. OneMore(h, l)
    BY <1>1, <1>4, <1>6, WithIs
  <2>2. /\ IsListeners(lis) /\ lis[h] = l /\ h \in DOMAIN lis /\ SameSockets(listeners, lis)
        /\ Distinct(listeners) => Distinct(lis)
        /\ \A m : [lis EXCEPT ![h] = m] = With(h, m)
    BY <2>1, <1>1, <1>6 DEF OneMore
  <2> HIDE DEF lis, exact
  <2> QED
    BY <2>2, <1>4
<1>8. Kept(net, lis, deaf, exact)
  <2> HIDE DEF lis, exact
  <2> QED
    BY <1>4, <1>5, <1>7, SocketsMatter
<1>9. MayEquip(net, lis, deaf, exact, h, l)
  <2>1. Emptied(l) = l
    BY <1>6, EmptiedIs
  <2> QED
    BY <1>6, <1>7, <1>8, <2>1 DEF MayEquip
<1>10. Equipped(net, added, lis, deaf, exact, h, l)
  <2> HIDE DEF lis, exact
  <2> QED
    BY <1>4, <1>9, ReceiverEquipped DEF added
<1>11. /\ Kept(added.net, With(h, added.l), deaf, exact) /\ Follows(net, added.net)
       /\ added.l \in Listener /\ added.l.universe = universe
       /\ added.res = "ok" => Supplied(added.l)
       /\ added.res # "ok" => added.l.sockets = NoSockets
  <2>1. /\ Kept(added.net, [lis EXCEPT ![h] = added.l], deaf, exact) /\ Follows(net, added.net)
        /\ added.l \in Listener /\ added.l = [l EXCEPT !.sockets = added.l.sockets]
        /\ added.res = "ok" => Supplied(added.l)
        /\ added.res # "ok" => added.l.sockets = NoSockets
    BY <1>10 DEF Equipped
  <2>2. [lis EXCEPT ![h] = added.l] = With(h, added.l)
    BY <1>7
  <2>3. added.l.universe = l.universe
    BY <2>1, <1>6 DEF Listener
  <2> QED
    BY <2>1, <2>2, <2>3, <1>6
<1>12. /\ IsListeners(With(h, added.l)) /\ DOMAIN With(h, added.l) = DOMAIN listeners \cup {h}
       /\ With(h, added.l)[h] = added.l
       /\ \A g \in DOMAIN listeners : With(h, added.l)[g] = listeners[g]
       /\ \A m : [With(h, added.l) EXCEPT ![h] = m] = With(h, m)
       /\ added.l.sockets = NoSockets => SameSockets(With(h, added.l), listeners)
  <2>1. OneMore(h, added.l)
    BY <1>1, <1>4, <1>11, WithIs
  <2> QED
    BY <2>1 DEF OneMore
<1>13. Fits(added.net) /\ ~added.net.deinit_signal /\ ~net.deinit_signal
       /\ added.net.running = net.running
  BY <1>1, <1>5, <1>11, FitsFollow DEF MayCall, Follows, SameThread
<1>14. Named' /\ AllSupplied' /\ Kept(net', listeners', deaf, exact) /\ Fits(net')
  <2>1. CASE added.res # "ok"
    <3>1. net' = added.net /\ listeners' = listeners
      BY <2>1, <1>3
    <3>2. Kept(added.net, listeners, deaf, exact)
      <4>1. SameSockets(With(h, added.l), listeners)
        BY <2>1, <1>11, <1>12
      <4> HIDE DEF exact
      <4> QED
        BY <4>1, <1>4, <1>11, SocketsMatter
    <3> QED
      BY <3>1, <3>2, <1>1, <1>5, <1>13 DEF Named, AllSupplied
  <2>2. CASE added.res = "ok" /\ starts
    <3>1. net' = [added.net EXCEPT !.running = TRUE] /\ listeners' = With(h, added.l)
      BY <2>2, <1>3 DEF assign_to_thread
    <3>2. /\ Kept(net', listeners', deaf, exact) /\ Fits(net')
          /\ net'.deinit_signal = added.net.deinit_signal
      <4> HIDE DEF exact
      <4> QED
        BY <3>1, <1>4, <1>11, <1>13, RunningKeeps
    <3>3. Named'
      BY <3>1, <3>2, <1>1, <1>5, <1>12, <1>13, ScenarioIs DEF Named
    <3>4. AllSupplied'
      BY <2>2, <3>1, <1>1, <1>5, <1>11, <1>12 DEF AllSupplied
    <3> QED
      BY <3>2, <3>3, <3>4
  <2>3. CASE added.res = "ok" /\ ~starts
    <3> DEFINE d == remove_sockets(added.net, added.l, FALSE)
               less == With(h, Emptied(added.l))
    <3>1. net' = d /\ listeners' = listeners
      BY <2>3, <1>3 DEF assign_to_thread
    <3>2. ~net.running
      BY <2>3
    <3>3. NothingJoined(added.net)
      BY <3>2, <1>13 DEF Fits
    <3>4. MayGiveBack(added.net, With(h, added.l), deaf, exact, h, added.l.universe,
              added.l.netints, FALSE)
      BY <3>3, <1>11, <1>12 DEF MayGiveBack
    <3>5. GaveBack(added.net, d, [With(h, added.l) EXCEPT ![h] = Emptied(With(h, added.l)[h])],
                   deaf, exact, FALSE)
      <4>1. added.l.sockets = With(h, added.l)[h].sockets
        BY <1>12
      <4> HIDE DEF exact
      <4> QED
        BY <3>4, <4>1, <1>4, SocketsRemoved
    <3>6. Kept(d, less, deaf, exact) /\ Follows(added.net, d)
      <4>1. [With(h, added.l) EXCEPT ![h] = Emptied(With(h, added.l)[h])] = less
        BY <1>12
      <4> QED
        BY <3>5, <4>1 DEF GaveBack
    <3>7. SameSockets(less, listeners)
      <4>1. Emptied(added.l) \in Listener /\ Emptied(added.l).sockets = NoSockets
        BY <1>11, EmptiedIs
      <4>2. OneMore(h, Emptied(added.l))
        BY <4>1, <1>1, <1>4, WithIs
      <4> QED
        BY <4>1, <4>2 DEF OneMore
    <3>8. Kept(d, listeners, deaf, exact)
      <4> HIDE DEF exact, less
      <4> QED
        BY <3>6, <3>7, <1>4, SocketsMatter
    <3>9. Fits(d) /\ d.deinit_signal = net.deinit_signal
      <4>1. Fits(d)
        BY <3>6, <1>13, FitsFollow
      <4>2. SameThread(added.net, d) /\ SameThread(net, added.net)
        BY <3>6, <1>11 DEF Follows
      <4> QED
        BY <4>1, <4>2 DEF SameThread
    <3> HIDE DEF d
    <3> QED
      BY <3>1, <3>8, <3>9, <1>1, <1>5, <1>13 DEF Named, AllSupplied
  <2> QED
    BY <2>1, <2>2, <2>3
<1> QED
  BY <1>1, <1>14 DEF Inv

(* The receivers without one of them.                                       *)
LEMMA RestrictedIs ==
    ASSUME IsListeners(listeners), NEW h \in DOMAIN listeners
    PROVE  LET now == Restrict(listeners, DOMAIN listeners \ {h})
               emptied == [listeners EXCEPT ![h] = Emptied(listeners[h])] IN
           /\ IsListeners(now) /\ DOMAIN now = DOMAIN listeners \ {h}
           /\ \A g \in DOMAIN now : now[g] = listeners[g]
           /\ SameSockets(emptied, now) /\ (Distinct(listeners) => Distinct(now))
<1> DEFINE now == Restrict(listeners, DOMAIN listeners \ {h})
           emptied == [listeners EXCEPT ![h] = Emptied(listeners[h])]
<1>1. /\ DOMAIN now = DOMAIN listeners \ {h} /\ \A g \in DOMAIN now : now[g] = listeners[g]
      /\ now = [g \in DOMAIN now |-> now[g]]
  BY DEF Restrict
<1>2. Emptied(listeners[h]).sockets = NoSockets
  BY EmptiedIs DEF IsListeners
<1>3. /\ DOMAIN emptied = DOMAIN listeners /\ emptied[h].sockets = NoSockets
      /\ \A g \in DOMAIN listeners \ {h} : emptied[g] = listeners[g]
  BY <1>2 DEF IsListeners
<1> HIDE DEF now, emptied
<1>4. IsListeners(now)
  <2>1. IsFiniteSet(DOMAIN now)
    BY <1>1, FS_RemoveElement DEF IsListeners
  <2>2. \A g \in DOMAIN now : now[g] \in Listener
    BY <1>1 DEF IsListeners
  <2> QED
    BY <2>1, <2>2, <1>1 DEF IsListeners
<1>5. SameSockets(emptied, now)
  BY <1>1, <1>3 DEF SameSockets
<1>6. Distinct(listeners) => Distinct(now)
  BY <1>1 DEF Distinct
<1> QED
  BY <1>1, <1>4, <1>5, <1>6 DEF now, emptied

(* destroy_sacn_receiver and sacn_source_detector_destroy keep it.          *)
LEMMA DestroyKeeps ==
    ASSUME Inv, NEW h, Destroy(h)
    PROVE  Inv'
<1> DEFINE exact == ~scenario.changes
           emptied == [listeners EXCEPT ![h] = Emptied(listeners[h])]
           now == Restrict(listeners, DOMAIN listeners \ {h})
<1>1. /\ h \in DOMAIN listeners /\ MayCall
      /\ net' = remove_sockets(net, listeners[h], net.running) /\ listeners' = now
      /\ failed' = failed \ {h} /\ changed' = changed \ {h}
      /\ UNCHANGED <<scenario, sys, deaf>>
  BY DEF Destroy, remove_from_thread
<1>2. /\ exact \in BOOLEAN /\ IsListeners(listeners) /\ (exact => Distinct(listeners))
  BY InvIs
<1>3. /\ Kept(net, listeners, deaf, exact) /\ Named /\ Fits(net) /\ AllSupplied
  BY DEF Inv
<1>4. /\ IsListeners(now) /\ DOMAIN now = DOMAIN listeners \ {h}
      /\ \A g \in DOMAIN now : now[g] = listeners[g]
      /\ SameSockets(emptied, now) /\ (Distinct(listeners) => Distinct(now))
  BY <1>1, <1>2, RestrictedIs
<1> HIDE DEF exact, now
<1>5. /\ Kept(net', emptied, deaf, exact) /\ Follows(net, net')
  <2>1. net.running \in BOOLEAN
    BY <1>3 DEF Fits
  <2>2. CASE net.running = TRUE
    <3>1. MayGiveBack(net, listeners, deaf, exact, h, listeners[h].universe, listeners[h].netints, TRUE)
      BY <1>1, <1>3 DEF MayGiveBack
    <3>2. GaveBack(net, remove_sockets(net, listeners[h], TRUE), emptied, deaf, exact, TRUE)
      BY <3>1, <1>2, SocketsRemoved
    <3> QED
      BY <3>2, <2>2, <1>1 DEF GaveBack
  <2>3. CASE net.running = FALSE
    <3>0. NothingJoined(net)
      BY <2>3, <1>1, <1>3 DEF Fits, MayCall
    <3>1. MayGiveBack(net, listeners, deaf, exact, h, listeners[h].universe, listeners[h].netints,
              FALSE)
      BY <3>0, <1>1, <1>3 DEF MayGiveBack
    <3>2. GaveBack(net, remove_sockets(net, listeners[h], FALSE), emptied, deaf, exact, FALSE)
      BY <3>1, <1>2, SocketsRemoved
    <3> QED
      BY <3>2, <2>3, <1>1 DEF GaveBack
  <2> QED
    BY <2>1, <2>2, <2>3
<1> HIDE DEF emptied
<1>6. Kept(net', now, deaf, exact)
  BY <1>2, <1>4, <1>5, SocketsMatter
<1>7. Fits(net') /\ net'.deinit_signal = net.deinit_signal
  BY <1>3, <1>5, FitsFollow DEF Follows, SameThread
<1>8. Named'
  BY <1>1, <1>3, <1>4, <1>7 DEF Named
<1>9. AllSupplied'
  BY <1>1, <1>3, <1>4 DEF AllSupplied
<1> QED
  BY <1>1, <1>6, <1>7, <1>8, <1>9 DEF Inv, exact

(* change_sacn_receiver_universe keeps it, with nothing said of what is     *)
(* joined.                                                                  *)
LEMMA ChangeUniverseKeeps ==
    ASSUME Inv, NEW h, NEW universe \in scenario.universes, ChangeUniverse(h, universe)
    PROVE  Inv'
<1> DEFINE l == [listeners[h] EXCEPT !.universe = universe]
           less == remove_sockets(net, l, TRUE)
           emptied == [listeners EXCEPT ![h] = Emptied(listeners[h])]
           now == [listeners EXCEPT ![h] = Emptied(l)]
<1>1. /\ scenario.changes /\ h \in (DOMAIN listeners) \ (failed \cup {Detector})
      /\ changed' = changed \cup {h} /\ UNCHANGED <<scenario, sys, deaf>>
  BY DEF ChangeUniverse
<1>2. PICK fails \in Failures :
        LET added == add_receiver_sockets(less, l, fails) IN
        /\ net' = added.net
        /\ listeners' = [listeners EXCEPT ![h] = added.l]
        /\ failed' = IF added.res = "ok" THEN failed ELSE failed \cup {h}
  BY DEF ChangeUniverse
<1> DEFINE added == add_receiver_sockets(less, l, fails)
<1>3. /\ net' = added.net
      /\ listeners' = [listeners EXCEPT ![h] = added.l]
      /\ failed' = IF added.res = "ok" THEN failed ELSE failed \cup {h}
  BY <1>2
<1>4. /\ IsListeners(listeners) /\ Kept(net, listeners, deaf, FALSE)
      /\ Named /\ Fits(net) /\ AllSupplied /\ scenario \in Scenarios
  BY <1>1, InvIs DEF Inv, Named, Kept
<1>5. /\ l \in Listener /\ l.sockets = listeners[h].sockets /\ listeners[h] \in Listener
  <2>1. listeners[h] \in Listener /\ universe \in Universes
    BY <1>1, <1>4, ScenarioIs DEF IsListeners
  <2> QED
    BY <2>1 DEF Listener
<1> HIDE DEF l, added, less
<1>6. Kept(less, emptied, deaf, FALSE) /\ Follows(net, less)
  <2>1. MayGiveBack(net, listeners, deaf, FALSE, h, l.universe, l.netints, TRUE)
    BY <1>1, <1>4 DEF MayGiveBack
  <2>2. GaveBack(net, less, emptied, deaf, FALSE, TRUE)
    BY <2>1, <1>5, SocketsRemoved DEF less
  <2> QED
    BY <2>2 DEF GaveBack
<1>7. /\ IsListeners(now) /\ SameSockets(emptied, now) /\ h \in DOMAIN now /\ now[h] = Emptied(l)
      /\ \A m : [now EXCEPT ![h] = m] = [listeners EXCEPT ![h] = m]
  <2>1. /\ Emptied(l) \in Listener /\ Emptied(l).sockets = NoSockets
        /\ Emptied(listeners[h]).sockets = NoSockets
    BY <1>5, EmptiedIs
  <2>2. IsListeners(now)
    BY <2>1, <1>1, <1>4 DEF IsListeners
  <2>3. SameSockets(emptied, now)
    BY <2>1, <1>1, <1>4 DEF SameSockets, IsListeners
  <2> QED
    BY <2>2, <2>3, <1>1, <1>4 DEF IsListeners
<1> HIDE DEF now, emptied
<1>8. Kept(less, now, deaf, FALSE)
  BY <1>6, <1>7, SocketsMatter
<1>9. Equipped(less, added, now, deaf, FALSE, h, l)
  <2>1. MayEquip(less, now, deaf, FALSE, h, l)
    BY <1>5, <1>7, <1>8 DEF MayEquip
  <2> QED
    BY <2>1, ReceiverEquipped DEF added
<1>10. /\ Kept(net', listeners', deaf, FALSE) /\ Follows(less, net') /\ added.l \in Listener
       /\ added.res = "ok" => Supplied(added.l)
  <2>1. [now EXCEPT ![h] = added.l] = listeners'
    BY <1>3, <1>7
  <2> QED
    BY <2>1, <1>3, <1>9 DEF Equipped
<1>11. Fits(net') /\ net'.deinit_signal = net.deinit_signal
  <2>1. Fits(less)
    BY <1>4, <1>6, FitsFollow
  <2>2. Fits(net')
    BY <2>1, <1>10, FitsFollow
  <2> QED
    BY <2>2, <1>6, <1>10 DEF Follows, SameThread
<1>12. /\ DOMAIN listeners' = DOMAIN listeners /\ listeners'[h] = added.l
       /\ \A g \in DOMAIN listeners \ {h} : listeners'[g] = listeners[g]
  BY <1>1, <1>3, <1>4 DEF IsListeners
<1>13. Named'
  BY <1>1, <1>3, <1>4, <1>11, <1>12 DEF Named
<1>14. AllSupplied'
  BY <1>1, <1>3, <1>4, <1>10, <1>12 DEF AllSupplied
<1>15. Kept(net', listeners', deaf', ~scenario'.changes)
  BY <1>1, <1>10 DEF Kept
<1> QED
  BY <1>11, <1>13, <1>14, <1>15 DEF Inv

AreReset(hs, configs, working, fails) ==
    LET result == ResetAll(net, hs, configs, working, fails) IN
    /\ net' = result.net /\ listeners' = result.listeners
    /\ failed' = IF result.ok THEN failed ELSE failed \cup hs

(* Of both resets.                                                          *)
LEMMA ResetKeeps ==
    ASSUME Inv, NEW hs \in SUBSET DOMAIN listeners, hs \subseteq Handles \/ hs = {Detector},
           NEW configs, NEW working \in SUBSET Netints, NEW fails,
           sys' \in [receiver : SUBSET Netints, detector : SUBSET Netints],
           UNCHANGED <<scenario, changed, deaf>>,
           IF working = {} THEN failed' = failed \cup hs /\ UNCHANGED <<listeners, net>>
           ELSE AreReset(hs, configs, working, fails)
    PROVE  Inv'
<1> DEFINE exact == ~scenario.changes
<1>1. /\ exact \in BOOLEAN /\ IsListeners(listeners)
      /\ Kept(net, listeners, deaf, exact) /\ Named /\ Fits(net) /\ AllSupplied
  BY InvIs DEF Inv
<1> HIDE DEF exact
<1>2. CASE working = {}
  <2>1. failed' = failed \cup hs /\ UNCHANGED <<listeners, net>>
    BY <1>2
  <2>2. Named'
    BY <2>1, <1>1 DEF Named
  <2>3. AllSupplied'
    BY <2>1, <1>1 DEF AllSupplied
  <2>4. Kept(net', listeners', deaf', exact) /\ Fits(net')
    BY <2>1, <1>1
  <2> QED
    BY <2>2, <2>3, <2>4 DEF Inv, exact
<1>3. CASE working # {}
  <2> DEFINE r == ResetAll(net, hs, configs, working, fails)
  <2>1. /\ net' = r.net /\ listeners' = r.listeners
        /\ failed' = IF r.ok THEN failed ELSE failed \cup hs
    BY <1>3 DEF AreReset
  <2>2. WasReset(net, r, deaf, exact, hs)
    BY <1>1, AllReset
  <2> HIDE DEF r
  <2>3. /\ Kept(net', listeners', deaf, exact) /\ Follows(net, net')
        /\ DOMAIN listeners' = DOMAIN listeners
        /\ \A h \in DOMAIN listeners \ hs : listeners'[h] = listeners[h]
        /\ r.ok => \A h \in hs : Supplied(listeners'[h])
    BY <2>1, <2>2 DEF WasReset
  <2>4. Fits(net') /\ net'.deinit_signal = net.deinit_signal
    BY <2>3, <1>1, FitsFollow DEF Follows, SameThread
  <2>5. Named'
    BY <2>1, <2>3, <2>4, <1>1 DEF Named
  <2>6. AllSupplied'
    BY <2>1, <2>3, <1>1 DEF AllSupplied
  <2> QED
    BY <2>3, <2>4, <2>5, <2>6 DEF Inv, exact
<1> QED
  BY <1>2, <1>3

(* The interfaces that work now replace those of the receivers or of the    *)
(* detector.                                                                *)
LEMMA SysChanged ==
    ASSUME Inv, NEW working \in SUBSET Netints,
           sys' = [sys EXCEPT !.receiver = working] \/ sys' = [sys EXCEPT !.detector = working]
    PROVE  sys' \in [receiver : SUBSET Netints, detector : SUBSET Netints]
BY DEF Inv, Named

(* sacn_receiver_reset_networking keeps it.                                 *)
LEMMA ResetReceiversKeeps ==
    ASSUME Inv, NEW working \in scenario.workings, NEW configs, ResetReceivers(working, configs)
    PROVE  Inv'
<1> DEFINE hs == DOMAIN listeners \ {Detector}
<1>1. /\ sys' = [sys EXCEPT !.receiver = working] /\ UNCHANGED <<scenario, changed, deaf>>
  BY DEF ResetReceivers
<1>2. PICK fails \in Failures :
        IF working = {} THEN failed' = failed \cup hs /\ UNCHANGED <<listeners, net>>
        ELSE AreReset(hs, configs, working, fails)
  BY DEF ResetReceivers, AreReset
<1>3. working \in SUBSET Netints /\ hs \in SUBSET DOMAIN listeners /\ hs \subseteq Handles
  BY ScenarioIs DEF Inv, Named
<1>4. sys' \in [receiver : SUBSET Netints, detector : SUBSET Netints]
  BY <1>1, <1>3, SysChanged
<1> HIDE DEF hs
<1> QED
  BY <1>1, <1>2, <1>3, <1>4, ResetKeeps

(* So does sacn_source_detector_reset_networking.                           *)
LEMMA ResetDetectorKeeps ==
    ASSUME Inv, NEW working \in scenario.workings, ResetDetector(working)
    PROVE  Inv'
<1> DEFINE hs == DOMAIN listeners \cap {Detector}
           configs == [h \in hs |-> Default]
<1>1. /\ sys' = [sys EXCEPT !.detector = working] /\ UNCHANGED <<scenario, changed, deaf>>
  BY DEF ResetDetector
<1>2. PICK fails \in Failures :
        IF working = {} THEN failed' = failed \cup hs /\ UNCHANGED <<listeners, net>>
        ELSE AreReset(hs, configs, working, fails)
  BY DEF ResetDetector, AreReset
<1>3. /\ working \in SUBSET Netints /\ hs \in SUBSET DOMAIN listeners
      /\ hs \subseteq Handles \/ hs = {Detector}
  BY ScenarioIs DEF Inv, Named
<1>4. sys' \in [receiver : SUBSET Netints, detector : SUBSET Netints]
  BY <1>1, <1>3, SysChanged
<1> HIDE DEF configs
<1> HIDE DEF hs
<1> QED
  BY <1>1, <1>2, <1>3, <1>4, ResetKeeps

(* The parts of the invariant, by name.                                     *)
LEMMA NetIs ==
    ASSUME Inv
    PROVE  /\ (~scenario.changes) \in BOOLEAN /\ Kept(net, listeners, deaf, ~scenario.changes)
           /\ IsContext(net) /\ HasFields(net) /\ PendingLast(net) /\ Polls(net, deaf)
           /\ Named /\ Fits(net) /\ AllSupplied
BY InvIs DEF Inv, Kept, Between, Sound, IsContext

(* The thread begins: no socket has been polled, for all are new.           *)
LEMMA ThreadStartsKeeps ==
    ASSUME Inv, ThreadStarts
    PROVE  Inv'
<1> DEFINE exact == ~scenario.changes
<1>1. /\ net.running /\ ~net.poll_context_initialized
      /\ net' = [net EXCEPT !.poll_context_initialized = TRUE]
      /\ UNCHANGED <<scenario, sys, listeners, failed, changed, deaf>>
  BY DEF ThreadStarts
<1>2. /\ exact \in BOOLEAN /\ Kept(net, listeners, deaf, exact) /\ IsContext(net) /\ HasFields(net)
      /\ PendingLast(net) /\ Named /\ Fits(net) /\ AllSupplied
  BY NetIs
<1> HIDE DEF exact
<1>3. /\ HasFields(net') /\ SameRequests(net, net') /\ net'.dead_sockets = net.dead_sockets
      /\ net'.socket_refs = net.socket_refs /\ net'.new_socket_refs = net.new_socket_refs
      /\ net'.bound = net.bound /\ net'.polled = net.polled /\ net'.open = net.open
      /\ net'.running = net.running /\ net'.deinit_signal = net.deinit_signal
      /\ net'.poll_context_initialized
  BY <1>1, <1>2 DEF HasFields, Fields, SameRequests
<1>4. Polls(net', deaf)
  <2>1. net.new_socket_refs = Len(net.socket_refs) /\ Those(net) = 1 .. Len(net.socket_refs)
        /\ Len(net.socket_refs) \in Nat
    BY <1>1, <1>2, RefTyped DEF Fits, AllNew
  <2>2. \A i \in Those(net) : net.socket_refs[i].pending
    BY <2>1, <1>2 DEF PendingLast
  <2> QED
    BY <2>2, <1>3 DEF Polls, Those
<1>5. Kept(net', listeners, deaf, exact)
  BY <1>2, <1>3, <1>4, ThreadTold
<1>6. Fits(net')
  BY <1>1, <1>2, <1>3 DEF Fits
<1>7. Named' /\ AllSupplied'
  BY <1>1, <1>2, <1>3 DEF Named, AllSupplied
<1> QED
  BY <1>1, <1>5, <1>6, <1>7 DEF Inv, exact

(* A pass of the thread through the queues keeps it.                        *)
LEMMA PassKeeps ==
    ASSUME Inv, Pass
    PROVE  Inv'
<1> DEFINE exact == ~scenario.changes
           left == AllLeft(net)
           joined == Joined(left)
           closed == sacn_cleanup_dead_sockets(joined)
           added == sacn_add_pending_sockets(closed)
<1>1. /\ net.running /\ net.poll_context_initialized /\ net' = added
      /\ UNCHANGED <<scenario, sys, listeners, failed, changed, deaf>>
  BY DEF Pass, Passed
<1>2. /\ exact \in BOOLEAN /\ Kept(net, listeners, deaf, exact)
      /\ Named /\ Fits(net) /\ AllSupplied
  BY NetIs
<1> HIDE DEF exact
<1>3. Kept(left, listeners, deaf, exact) /\ SameThread(net, left) /\ left.unsubscribes = EmptyBag
  BY <1>2, AllLeftKeeps
<1> HIDE DEF left
<1>4. /\ Kept(joined, listeners, deaf, exact) /\ SameThread(left, joined)
      /\ joined.subscribes = EmptyBag /\ joined.unsubscribes = EmptyBag
  BY <1>2, <1>3, JoinedKeeps
<1> HIDE DEF joined
<1>5. NothingAsked(joined)
  BY <1>4, NoRequests DEF NothingAsked, Subs, Unsubs
<1>6. Kept(closed, listeners, deaf, exact) /\ SameThread(joined, closed)
  BY <1>2, <1>4, <1>5, DeadClosed
<1> HIDE DEF closed
<1>7. Kept(added, listeners, deaf, exact) /\ SameThread(closed, added)
  BY <1>2, <1>6, PendingAdded
<1> HIDE DEF added
<1>8. SameThread(net, net')
  BY <1>1, <1>3, <1>4, <1>6, <1>7 DEF SameThread
<1>9. Fits(net') /\ net'.deinit_signal = net.deinit_signal
  BY <1>1, <1>2, <1>8 DEF Fits, SameThread
<1>10. Named' /\ AllSupplied'
  BY <1>1, <1>2, <1>9 DEF Named, AllSupplied
<1> QED
  BY <1>1, <1>7, <1>9, <1>10 DEF Inv, exact

(* A read that fails, the signal to end and the end of the thread.          *)
LEMMA ThreadToldOf ==
    ASSUME Inv, NEW broken, deaf' = broken, UNCHANGED <<scenario, sys, listeners, failed, changed>>,
           HasFields(net'), SameRequests(net, net'), net'.dead_sockets = net.dead_sockets,
           net'.socket_refs = net.socket_refs, net'.new_socket_refs = net.new_socket_refs,
           net'.bound = net.bound, net'.open = net.open, net'.polled \subseteq net.polled,
           Polls(net', broken), Fits(net'), net'.deinit_signal => Detector \notin DOMAIN listeners
    PROVE  Inv'
<1> DEFINE exact == ~scenario.changes
<1>1. exact \in BOOLEAN /\ Kept(net, listeners, deaf, exact) /\ Named /\ AllSupplied
  BY NetIs
<1> HIDE DEF exact
<1>2. Kept(net', listeners, broken, exact)
  BY <1>1, ThreadTold
<1>3. Named' /\ AllSupplied'
  BY <1>1 DEF Named, AllSupplied
<1> QED
  BY <1>2, <1>3 DEF Inv, exact

(* A read fails, and the socket is polled no longer.                        *)
LEMMA ReadFailsKeeps ==
    ASSUME Inv, NEW socket, ReadFails(socket)
    PROVE  Inv'
<1>1. /\ net.running /\ net.poll_context_initialized
      /\ net' = [net EXCEPT !.polled = @ \ {socket}] /\ deaf' = TRUE
      /\ UNCHANGED <<scenario, sys, listeners, failed, changed>>
  BY DEF ReadFails
<1>2. HasFields(net) /\ Fits(net) /\ Named
  BY NetIs
<1>3. /\ HasFields(net') /\ SameRequests(net, net') /\ net'.dead_sockets = net.dead_sockets
      /\ net'.socket_refs = net.socket_refs /\ net'.new_socket_refs = net.new_socket_refs
      /\ net'.bound = net.bound /\ net'.polled \subseteq net.polled /\ net'.open = net.open
      /\ net'.running = net.running /\ net'.deinit_signal = net.deinit_signal
      /\ net'.poll_context_initialized = net.poll_context_initialized
  BY <1>1, <1>2 DEF HasFields, Fields, SameRequests
<1>4. Polls(net', TRUE)
  BY DEF Polls
<1>5. Fits(net')
  BY <1>2, <1>3 DEF Fits, AllNew, NothingJoined
<1>6. net'.deinit_signal => Detector \notin DOMAIN listeners
  BY <1>2, <1>3 DEF Named
<1> QED
  BY <1>1, <1>3, <1>4, <1>5, <1>6, ThreadToldOf

(* The thread is told to end.                                               *)
LEMMA DeinitSignalsKeeps ==
    ASSUME Inv, DeinitSignals
    PROVE  Inv'
<1>1. /\ net.running /\ Detector \notin DOMAIN listeners
      /\ net' = [net EXCEPT !.deinit_signal = TRUE]
      /\ UNCHANGED <<scenario, sys, listeners, failed, changed, deaf>>
  BY DEF DeinitSignals
<1>2. HasFields(net) /\ Fits(net) /\ Polls(net, deaf)
  BY NetIs
<1>3. /\ HasFields(net') /\ SameRequests(net, net') /\ net'.dead_sockets = net.dead_sockets
      /\ net'.socket_refs = net.socket_refs /\ net'.new_socket_refs = net.new_socket_refs
      /\ net'.bound = net.bound /\ net'.polled = net.polled /\ net'.open = net.open
      /\ net'.running = net.running
      /\ net'.poll_context_initialized = net.poll_context_initialized
  BY <1>1, <1>2 DEF HasFields, Fields, SameRequests
<1>4. Polls(net', deaf)
  BY <1>2, <1>3 DEF Polls, Those, Nth
<1>5. Fits(net')
  BY <1>1, <1>2, <1>3 DEF Fits, AllNew
<1> QED
  BY <1>1, <1>3, <1>4, <1>5, ThreadToldOf

(* The thread ends.                                                         *)
LEMMA ThreadEndsKeeps ==
    ASSUME Inv, ThreadEnds
    PROVE  Inv'
<1>1. /\ net.deinit_signal
      /\ net' = [net EXCEPT !.running = FALSE, !.poll_context_initialized = FALSE, !.polled = {}]
      /\ UNCHANGED <<scenario, sys, listeners, failed, changed, deaf>>
  BY DEF ThreadEnds
<1>2. HasFields(net) /\ Named
  BY NetIs
<1>3. /\ HasFields(net') /\ SameRequests(net, net') /\ net'.dead_sockets = net.dead_sockets
      /\ net'.socket_refs = net.socket_refs /\ net'.new_socket_refs = net.new_socket_refs
      /\ net'.bound = net.bound /\ net'.polled = {} /\ net'.open = net.open
      /\ net'.running = FALSE /\ net'.deinit_signal = net.deinit_signal
      /\ ~net'.poll_context_initialized
  BY <1>1, <1>2 DEF HasFields, Fields, SameRequests
<1>4. Polls(net', deaf)
  BY <1>3 DEF Polls
<1>5. Fits(net')
  BY <1>1, <1>3 DEF Fits
<1>6. net'.deinit_signal => Detector \notin DOMAIN listeners
  BY <1>2, <1>3 DEF Named
<1>7. net'.polled \subseteq net.polled
  BY <1>3
<1> QED
  BY <1>1, <1>3, <1>4, <1>5, <1>6, <1>7, ThreadToldOf

(* The sockets left are closed, all of them: none is open afterwards.       *)
LEMMA DeinitCleansUpKeeps ==
    ASSUME Inv, DeinitCleansUp
    PROVE  Inv'
<1> DEFINE hs == DOMAIN listeners
           c == sacn_cleanup_dead_sockets(net)
           d == remove_all_receiver_sockets(c, hs, FALSE)
           none == AllEmptied(listeners, hs)
<1>1. /\ net.deinit_signal
      /\ net' = [NewContext EXCEPT !.open = d.open] /\ listeners' = [h \in {} |-> NoSockets]
      /\ sys' = [sys EXCEPT !.receiver = scenario.netints, !.detector = scenario.netints]
      /\ failed' = {} /\ changed' = {} /\ deaf' = FALSE /\ scenario' = scenario
  BY DEF DeinitCleansUp
<1>2. /\ Kept(net, listeners, deaf, FALSE) /\ Named
  BY NetIs DEF Kept
<1>3. IsListeners(listeners) /\ hs \subseteq Handles
  BY <1>1, <1>2, InvIs DEF Named
<1>4. Kept(c, listeners, deaf, FALSE) /\ c.dead_sockets = <<>>
  BY <1>2, DeadClosed
<1> HIDE DEF c
<1>5. GaveBack(c, d, none, deaf, FALSE, FALSE)
  BY <1>3, <1>4, AllRemoved
<1> HIDE DEF d
<1>6. d.dead_sockets = <<>> /\ Sound(d, {}, none, deaf)
  BY <1>4, <1>5 DEF GaveBack, Kept, Between, Range
<1>7. \A h \in DOMAIN none : \A t \in IpTypes : none[h].sockets[t] = NoSocket
  <2>1. \A h \in DOMAIN listeners : listeners[h] \in Listener
    BY <1>3 DEF IsListeners
  <2>2. DOMAIN none = DOMAIN listeners /\ \A h \in DOMAIN listeners : none[h] = Emptied(listeners[h])
    BY DEF AllEmptied
  <2> QED
    BY <2>1, <2>2, EmptiedIs
<1> HIDE DEF none
<1>8. Those(d) = {}
  <2> SUFFICES ASSUME NEW i \in Those(d) PROVE FALSE
    OBVIOUS
  <2>1. /\ Nth(d, i).ip_type \in IpTypes /\ Nth(d, i).handle # NoSocket /\ d.socket_refs[i] \in Ref
    BY <1>6, RefTyped DEF Sound
  <2>2. Users(none, Nth(d, i).ip_type, Nth(d, i).handle) = {}
    BY <2>1, <1>7 DEF Users
  <2>3. d.socket_refs[i].refcount = 0
    BY <2>2, <1>6, FS_EmptySet DEF Sound, Counted
  <2> QED
    BY <2>1, <2>3, SocketsAssumption DEF Ref
<1>9. DOMAIN d.open = {}
  BY <1>6, <1>8 DEF Sound, HandlesKept
<1>10. Kept(net', listeners', deaf', ~scenario'.changes) /\ Fits(net')
  <2>1. (~scenario'.changes) \in BOOLEAN
    BY <1>1, InvIs
  <2> QED
    BY <2>1, <1>1, <1>9, NothingKept
<1>11. Named'
  <2>1. net'.deinit_signal = FALSE /\ DOMAIN listeners' = {}
    BY <1>1 DEF NewContext
  <2> QED
    BY <2>1, <1>1, <1>2, ScenarioIs DEF Named
<1>12. AllSupplied'
  BY <1>1 DEF AllSupplied
<1> QED
  BY <1>10, <1>11, <1>12 DEF Inv

(* Every step keeps the invariant.                                          *)
LEMMA NextKeeps ==
    ASSUME Inv, Next
    PROVE  Inv'
<1>1. CASE \E h \in scenario.handles :
              \/ \E universe \in UniverseOf(h), config \in Configs, types \in scenario.types :
                    Create(h, universe, config, types)
              \/ Destroy(h)
              \/ \E universe \in scenario.universes : ChangeUniverse(h, universe)
  BY <1>1, CreateKeeps, DestroyKeeps, ChangeUniverseKeeps
<1>2. CASE \E working \in scenario.workings :
              \/ \E configs \in [DOMAIN listeners \ {Detector} -> Configs] :
                    ResetReceivers(working, configs)
              \/ ResetDetector(working)
  BY <1>2, ResetReceiversKeeps, ResetDetectorKeeps
<1>3. CASE ThreadStarts
  BY <1>3, ThreadStartsKeeps
<1>4. CASE Pass
  BY <1>4, PassKeeps
<1>5. CASE \E socket \in Sockets : ReadFails(socket)
  BY <1>5, ReadFailsKeeps
<1>6. CASE DeinitSignals
  BY <1>6, DeinitSignalsKeeps
<1>7. CASE ThreadEnds
  BY <1>7, ThreadEndsKeeps
<1>8. CASE DeinitCleansUp
  BY <1>8, DeinitCleansUpKeeps
<1> QED
  BY <1>1, <1>2, <1>3, <1>4, <1>5, <1>6, <1>7, <1>8 DEF Next

(* The invariant holds in every behaviour.                                  *)
LEMMA InvKept == Spec => []Inv
<1>1. Inv /\ [Next]_vars => Inv'
  <2> SUFFICES ASSUME Inv, [Next]_vars PROVE Inv'
    OBVIOUS
  <2>1. CASE Next
    BY <2>1, NextKeeps
  <2>2. CASE UNCHANGED vars
    BY <2>2 DEF Inv, Named, AllSupplied, vars
  <2> QED
    BY <2>1, <2>2
<1> QED
  BY InitKept, <1>1, PTL DEF Spec

(* What it says of the sockets, by name.                                    *)
LEMMA SoundNow ==
    ASSUME Inv
    PROVE  /\ Between(net, listeners, deaf) /\ Sound(net, Range(net.dead_sockets), listeners, deaf)
           /\ IsContext(net) /\ HandlesKept(net, Range(net.dead_sockets)) /\ IsListeners(listeners)
           /\ Counted(net, listeners) /\ PendingLast(net) /\ OneBound(net, Range(net.dead_sockets))
           /\ Polls(net, deaf) /\ DeadListed(net)
           /\ Those(net) = 1 .. Len(net.socket_refs) /\ Len(net.socket_refs) \in Nat
           /\ \A i \in Those(net) : /\ net.socket_refs[i] \in Ref /\ Nth(net, i).handle \in Sockets
                                    /\ Nth(net, i).ip_type \in IpTypes /\ Nth(net, i).handle # NoSocket
BY RefTyped DEF Inv, Kept, Between, Sound

(* A handle is in a list or the other, once.                                *)
LEMMA Together ==
    ASSUME NEW S, NEW s \in Seq(S), NEW t \in Seq(S),
           \A i, j \in DOMAIN s : s[i] = s[j] => i = j,
           \A i, j \in DOMAIN t : t[i] = t[j] => i = j,
           \A i \in DOMAIN s, j \in DOMAIN t : s[i] # t[j]
    PROVE  /\ IsInjective(s \o t)
           /\ Range(s \o t) = {s[i] : i \in DOMAIN s} \cup {t[i] : i \in DOMAIN t}
<1> DEFINE m == Len(s)
           n == Len(t)
           both == s \o t
<1>1. m \in Nat /\ n \in Nat /\ DOMAIN s = 1 .. m /\ DOMAIN t = 1 .. n
  BY LenProperties
<1>2. /\ DOMAIN both = 1 .. m + n
      /\ \A i \in 1 .. m : both[i] = s[i]
      /\ \A i \in m + 1 .. m + n : both[i] = t[i - m]
  BY <1>1
<1> HIDE DEF both, m, n
<1>3. \A i \in 1 .. m + n : i \in 1 .. m \/ (i \in m + 1 .. m + n /\ i - m \in 1 .. n)
  BY <1>1
<1>4. \A j \in 1 .. n : m + j \in m + 1 .. m + n /\ m + j \in 1 .. m + n /\ (m + j) - m = j
  BY <1>1
<1>5. \A i \in 1 .. m : i \in 1 .. m + n
  BY <1>1
<1>6. IsInjective(both)
  <2> SUFFICES ASSUME NEW i \in 1 .. m + n, NEW j \in 1 .. m + n, both[i] = both[j]
               PROVE  i = j
    BY <1>2 DEF IsInjective
  <2>1. CASE i \in 1 .. m /\ j \in 1 .. m
    BY <2>1, <1>1, <1>2
  <2>2. CASE i \in 1 .. m /\ j \notin 1 .. m
    BY <2>2, <1>1, <1>2, <1>3
  <2>3. CASE i \notin 1 .. m /\ j \in 1 .. m
    <3>1. i - m \in 1 .. n /\ both[i] = t[i - m] /\ both[j] = s[j]
      BY <2>3, <1>2, <1>3
    <3>2. s[j] # t[i - m]
      BY <3>1, <2>3, <1>1
    <3> QED
      BY <3>1, <3>2
  <2>4. CASE i \notin 1 .. m /\ j \notin 1 .. m
    <3>1. i - m \in 1 .. n /\ j - m \in 1 .. n /\ t[i - m] = t[j - m]
      BY <2>4, <1>2, <1>3
    <3>2. i - m = j - m
      BY <3>1, <1>1
    <3> QED
      BY <3>2, <1>1
  <2> QED
    BY <2>1, <2>2, <2>3, <2>4
<1>7. Range(both) = {s[i] : i \in 1 .. m} \cup {t[i] : i \in 1 .. n}
  <2>1. Range(both) = {both[i] : i \in 1 .. m + n}
    BY <1>2 DEF Range
  <2>2. \A i \in 1 .. m + n : both[i] \in {s[j] : j \in 1 .. m} \cup {t[j] : j \in 1 .. n}
    BY <1>2, <1>3
  <2>3. \A i \in 1 .. m : s[i] \in {both[j] : j \in 1 .. m + n}
    BY <1>2, <1>5
  <2>4. \A i \in 1 .. n : t[i] \in {both[j] : j \in 1 .. m + n}
    BY <1>2, <1>4
  <2> QED
    BY <2>1, <2>2, <2>3, <2>4
<1> QED
  BY <1>1, <1>6, <1>7 DEF both

(* By the invariant sockets, references and handles agree.                  *)
LEMMA ConsistentNow ==
    ASSUME Inv
    PROVE  Consistent
<1> DEFINE dead == net.dead_sockets
<1>1. TypeOK
  <2>1. /\ Named /\ IsContext(net) /\ IsListeners(listeners)
        /\ \A i \in DOMAIN net.socket_refs : net.socket_refs[i] \in Ref
    BY SoundNow DEF Inv, Those
  <2> QED
    BY <2>1 DEF TypeOK, Named, IsContext, IsListeners, Ref
<1>2. SocketsKept
  <2> DEFINE s == [i \in Refs |-> RefHandle(i)]
             t == [i \in DOMAIN dead |-> dead[i].handle]
  <2>1. /\ Refs = 1 .. Len(net.socket_refs) /\ Len(net.socket_refs) \in Nat /\ Those(net) = Refs
        /\ \A i \in Refs : RefHandle(i) = Nth(net, i).handle /\ RefHandle(i) \in Sockets
    BY SoundNow DEF Refs, RefHandle, Those, Nth
  <2>2. s \in Seq(Sockets)
    <3>1. s \in [1 .. Len(net.socket_refs) -> Sockets]
      BY <2>1
    <3> QED
      BY <3>1, <2>1, SeqDef
  <2>3. dead \in Seq(Socket) /\ DOMAIN dead = 1 .. Len(dead) /\ Len(dead) \in Nat
    BY SoundNow, LenProperties DEF DeadListed
  <2>4. t \in Seq(Sockets)
    <3>1. \A i \in 1 .. Len(dead) : dead[i].handle \in Sockets
      <4>1. \A i \in 1 .. Len(dead) : dead[i] \in Socket
        BY <2>3, ElementOfSeq
      <4> QED
        BY <4>1 DEF Socket
    <3>2. t \in [1 .. Len(dead) -> Sockets]
      BY <2>3, <3>1
    <3> QED
      BY <3>2, <2>3, SeqDef
  <2>5. \A i \in DOMAIN dead : dead[i] \in Range(dead)
    BY DEF Range
  <2>6. /\ \A i, j \in Refs : RefHandle(i) = RefHandle(j) => i = j
        /\ \A i, j \in DOMAIN dead : dead[i].handle = dead[j].handle => i = j
        /\ \A i \in Refs, j \in DOMAIN dead : RefHandle(i) # dead[j].handle
    <3>1. HandlesKept(net, Range(dead)) /\ DeadListed(net)
      BY SoundNow
    <3> QED
      BY <3>1, <2>1, <2>5 DEF HandlesKept, DeadListed
  <2>7. DOMAIN net.open = {RefHandle(i) : i \in Refs} \cup {dead[i].handle : i \in DOMAIN dead}
    <3>1. DOMAIN net.open = {Nth(net, i).handle : i \in Those(net)} \cup {a.handle : a \in Range(dead)}
      BY SoundNow DEF HandlesKept
    <3>2. {a.handle : a \in Range(dead)} = {dead[i].handle : i \in DOMAIN dead}
      BY DEF Range
    <3> QED
      BY <3>1, <3>2, <2>1
  <2>8. /\ DOMAIN s = Refs /\ \A i \in Refs : s[i] = RefHandle(i)
        /\ DOMAIN t = DOMAIN dead /\ \A i \in DOMAIN dead : t[i] = dead[i].handle
    OBVIOUS
  <2> HIDE DEF s, t
  <2>9. IsInjective(s \o t) /\ Range(s \o t) = {s[i] : i \in DOMAIN s} \cup {t[i] : i \in DOMAIN t}
    BY <2>2, <2>4, <2>6, <2>8, Together
  <2>10. Range(s \o t) = DOMAIN net.open
    BY <2>7, <2>8, <2>9
  <2> QED
    BY <2>9, <2>10 DEF SocketsKept, s, t
<1>3. RefCountsExact
  BY SoundNow
  DEF RefCountsExact, Counted, PendingLast, Users, Those, Nth, Refs, RefHandle, RefType
<1> QED
  BY <1>1, <1>2, <1>3 DEF Consistent

(* By the invariant one socket of a type is bound and polled.               *)
LEMMA OneIsBoundNow ==
    ASSUME Inv
    PROVE  OneIsBound
<1> SUFFICES ASSUME NEW t \in IpTypes
             PROVE  LET those == {i \in Refs : RefType(i) = t}
                        bound == {i \in those : net.socket_refs[i].socket.bound} IN
                    /\ Cardinality(bound) <= 1 /\ (t \in net.bound <=> bound # {})
                    /\ Quiet /\ those # {} => \E i \in bound : ~deaf => RefHandle(i) \in net.polled
  BY DEF OneIsBound
<1> DEFINE those == {i \in Refs : RefType(i) = t}
           bound == {i \in those : net.socket_refs[i].socket.bound}
<1>1. /\ OneBound(net, Range(net.dead_sockets)) /\ Polls(net, deaf) /\ PendingLast(net)
      /\ Those(net) = 1 .. Len(net.socket_refs) /\ Len(net.socket_refs) \in Nat
  BY SoundNow
<1>2. \A i : i \in bound <=> i \in Those(net) /\ Nth(net, i).bound /\ Nth(net, i).ip_type = t
  BY DEF Refs, RefType, Those, Nth
<1>3. \A i : i \in those <=> i \in Those(net) /\ Nth(net, i).ip_type = t
  BY DEF Refs, RefType, Those, Nth
<1> HIDE DEF bound, those
<1>4. \A i, j \in bound : i = j
  BY <1>1, <1>2 DEF OneBound
<1>5. Cardinality(bound) <= 1
  <2>1. CASE bound = {}
    BY <2>1, FS_EmptySet
  <2>2. CASE bound # {}
    <3>1. PICK i : bound = {i}
      BY <2>2, <1>4
    <3>2. Cardinality(bound) = 1
      BY <3>1, FS_Singleton
    <3> QED
      BY <3>2
  <2> QED
    BY <2>1, <2>2
<1>6. t \in net.bound <=> bound # {}
  BY <1>1, <1>2 DEF OneBound
<1>7. ASSUME Quiet, those # {}
      PROVE  \E i \in bound : ~deaf => RefHandle(i) \in net.polled
  <2>1. Range(net.dead_sockets) = {} /\ net.new_socket_refs = 0 /\ net.poll_context_initialized
    BY <1>7 DEF Quiet, Range
  <2>2. t \in net.bound
    BY <2>1, <1>1, <1>3, <1>7 DEF OneBound
  <2>3. PICK i \in bound : TRUE
    BY <2>2, <1>6
  <2>4. ~net.socket_refs[i].pending
    BY <2>1, <1>1, <1>2 DEF PendingLast
  <2>5. ~deaf => Nth(net, i).handle \in net.polled
    BY <2>1, <2>4, <1>1, <1>2 DEF Polls
  <2> QED
    BY <2>3, <2>5 DEF RefHandle, Nth
<1> QED
  BY <1>5, <1>6, <1>7 DEF bound, those

(* By the invariant the groups joined are those asked for.                  *)
LEMMA HearsExactlyNow ==
    ASSUME Inv
    PROVE  HearsExactly
<1> SUFFICES ASSUME Quiet, ~scenario.changes
             PROVE  /\ \A h \in (DOMAIN listeners) \ failed : Hears(h)
                    /\ \A i \in Refs :
                        net.open[RefHandle(i)] \subseteq
                            UNION {GroupsOf(h, RefType(i)) :
                                     h \in {h \in DOMAIN listeners :
                                              listeners[h].sockets[RefType(i)] = RefHandle(i)}}
  BY DEF HearsExactly, HearsItsUniverse, JoinedExactly
<1>1. Asks(net, listeners) /\ AllSupplied
  BY DEF Inv, Kept
<1>2. Subs(net) = {} /\ Unsubs(net) = {}
  BY NoRequests DEF Quiet, Subs, Unsubs
<1>3. \A s \in DOMAIN net.open, u \in AnyUniverse, n \in Netints :
        Wants(listeners, s, u, n) <=> <<u, n>> \in net.open[s]
  BY <1>1, <1>2 DEF Asks, WantedOrLeft
<1>4. /\ Sound(net, Range(net.dead_sockets), listeners, deaf) /\ IsListeners(listeners)
      /\ HandlesKept(net, Range(net.dead_sockets)) /\ Counted(net, listeners)
      /\ \A i \in Those(net) : Nth(net, i).handle # NoSocket
  BY SoundNow
<1>5. \A n \in Netints : Type(n) \in IpTypes
  BY SocketsAssumption DEF Type
<1>6. ASSUME NEW h \in (DOMAIN listeners) \ failed
      PROVE  Hears(h)
  <2> DEFINE l == listeners[h]
  <2>1. l \in Listener /\ Supplied(l)
    BY <1>1, <1>4 DEF AllSupplied, IsListeners
  <2>2. l.universe \in AnyUniverse /\ l.netints \in SUBSET Netints
    BY <2>1 DEF Listener, AnyUniverse
  <2>3. ASSUME NEW t \in l.ip_supported, NEW n \in l.netints, Type(n) = t
        PROVE  <<l.universe, n>> \in UNION {net.open[s] : s \in DOMAIN net.open}
    <3>1. PICK s : s = l.sockets[t]
      OBVIOUS
    <3>2. n \in Netints /\ t \in IpTypes
      BY <2>2, <2>3, <1>5
    <3>3. s # NoSocket
      BY <2>1, <2>3, <3>1, <3>2 DEF Supplied, SuppliedWith
    <3>4. Wants(listeners, s, l.universe, n)
      BY <2>3, <3>1 DEF Wants
    <3>5. PICK u : u = l.universe
      OBVIOUS
    <3>6. s \in DOMAIN net.open
      BY <3>2, <3>3, <3>4, <3>5, <1>4, WantedIsOpen
    <3>7. <<l.universe, n>> \in net.open[s]
      BY <3>2, <3>4, <3>6, <2>2, <1>3
    <3> QED
      BY <3>6, <3>7
  <2> QED
    BY <2>3 DEF Hears, GroupsOf
<1>7. ASSUME NEW i \in Refs, NEW g \in net.open[RefHandle(i)]
      PROVE  \E h \in DOMAIN listeners :
                listeners[h].sockets[RefType(i)] = RefHandle(i) /\ g \in GroupsOf(h, RefType(i))
  <2>1. PICK s : s = RefHandle(i)
    OBVIOUS
  <2>2. i \in Those(net) /\ s = Nth(net, i).handle /\ RefType(i) = Nth(net, i).ip_type
    BY <2>1 DEF Refs, RefHandle, RefType, Those, Nth
  <2>3. s \in DOMAIN net.open
    BY <2>2, <1>4 DEF HandlesKept
  <2>4. PICK u \in AnyUniverse, n \in Netints : g = <<u, n>>
    BY <1>1, <1>7, <2>1, <2>3 DEF Asks
  <2>5. PICK h \in DOMAIN listeners : /\ listeners[h].universe = u /\ n \in listeners[h].netints
                                     /\ listeners[h].sockets[Type(n)] = s
    BY <1>3, <1>7, <2>1, <2>3, <2>4 DEF Wants
  <2>6. Type(n) = RefType(i)
    <3>1. PICK j \in Those(net) : Nth(net, j).handle = s /\ Nth(net, j).ip_type = Type(n)
      BY <2>2, <2>4, <2>5, <1>4, <1>5 DEF Counted
    <3>2. j = i
      BY <3>1, <2>2, <1>4 DEF HandlesKept
    <3> QED
      BY <3>1, <3>2, <2>2
  <2>7. g \in GroupsOf(h, RefType(i))
    BY <2>4, <2>5, <2>6 DEF GroupsOf
  <2> QED
    BY <2>1, <2>5, <2>6, <2>7
<1> QED
  BY <1>6, <1>7

(* However many receivers share sockets and whichever calls fail: the       *)
(* sockets open are those in use and those waiting to be closed, each once, *)
(* and each is counted for exactly those that have it.                      *)
THEOREM SocketsConsistent == Spec => []Consistent
BY InvKept, ConsistentNow, PTL

(* Of the sockets of a type one at most is bound; when the thread has done  *)
(* what was queued one is, and is polled unless a read has failed.          *)
THEOREM OneSocketIsBound == Spec => []OneIsBound
BY InvKept, OneIsBoundNow, PTL

(* When the thread has done what was queued, and no universe was changed,   *)
(* the groups joined are exactly those the receivers ask for: requests to   *)
(* leave and to join of receivers that share sockets cancel out as they     *)
(* should.                                                                  *)
THEOREM GroupsHeardExactly == Spec => []HearsExactly
BY InvKept, HearsExactlyNow, PTL

-----------------------------------------------------------------------------
(* SacnRefCount.                                                            *)

USE ObjectsAssumption

Holders == {o \in Objects : pc[o] \in Holding}

(* An object is inside sacn_global_init() or sacn_global_deinit() exactly   *)
(* when it owns the mutex.                                                  *)
MutexHeld == \A o \in Objects : pc[o] \in Inside <=> sacn_global_mutex = o

(* The object that closes the library has released the last reference.      *)
ClosingIsLast == \A o \in Objects : pc[o] = "closing" => sacn_ref_count = 0

(* The library is up exactly between the first reference and the last, and  *)
(* has been initialized once.                                               *)
LibraryState ==
    /\ Initialized => up = FEATURES_ALL /\ counts = [f \in FEATURES_ALL |-> 1]
    /\ ~Initialized => up = {} /\ counts = [f \in FEATURES_ALL |-> 0]

HeldInv == RefCountTypeOK /\ RefCountExact /\ MutexHeld /\ ClosingIsLast /\ LibraryState

-----------------------------------------------------------------------------
(* How the number of users changes with the place of one object.            *)

(* There are finitely many users, so they can be counted.                   *)
LEMMA HoldersFinite == IsFiniteSet(Holders) /\ Cardinality(Holders) \in Nat
BY FS_Subset, FS_CardinalityType DEF Holders

(* An object that moves between two places on the same side leaves them.    *)
LEMMA HoldersSame ==
    ASSUME RefCountTypeOK, NEW o \in Objects, NEW s, pc' = [pc EXCEPT ![o] = s],
           pc[o] \in Holding <=> s \in Holding
    PROVE  Holders' = Holders
BY DEF Holders, RefCountTypeOK

(* An object that takes a reference is one more.                            *)
LEMMA HoldersMore ==
    ASSUME RefCountTypeOK, NEW o \in Objects, NEW s, pc' = [pc EXCEPT ![o] = s],
           pc[o] \notin Holding, s \in Holding
    PROVE  Cardinality(Holders') = Cardinality(Holders) + 1
<1>1. Holders' = Holders \cup {o} /\ o \notin Holders
  BY DEF Holders, RefCountTypeOK
<1> QED
  BY <1>1, HoldersFinite, FS_AddElement

(* An object that releases its reference is one less.                       *)
LEMMA HoldersLess ==
    ASSUME RefCountTypeOK, NEW o \in Objects, NEW s, pc' = [pc EXCEPT ![o] = s],
           pc[o] \in Holding, s \notin Holding
    PROVE  Cardinality(Holders') = Cardinality(Holders) - 1
<1>1. Holders' = Holders \ {o} /\ o \in Holders
  BY DEF Holders, RefCountTypeOK
<1> QED
  BY <1>1, HoldersFinite, FS_RemoveElement

(* An object that is using the library holds a reference.                   *)
LEMMA UserCounted ==
    ASSUME RefCountTypeOK, RefCountExact, NEW o \in Objects, pc[o] \in Holding
    PROVE  sacn_ref_count > 0
<1>1. o \in Holders
  BY DEF Holders
<1>2. Cardinality(Holders) # 0
  BY <1>1, HoldersFinite, FS_EmptySet
<1> QED
  BY <1>2, HoldersFinite DEF RefCountExact, Holders, RefCountTypeOK

-----------------------------------------------------------------------------

(* The invariant holds when no object has used sACN yet.                    *)
LEMMA InitInv == RefCountInit => HeldInv
<1> SUFFICES ASSUME RefCountInit PROVE HeldInv
  OBVIOUS
<1>1. Holders = {}
  BY DEF RefCountInit, Holders, Holding
<1>2. RefCountExact
  BY <1>1, FS_EmptySet DEF RefCountExact, Holders, RefCountInit
<1>3. RefCountTypeOK
  BY DEF RefCountInit, RefCountTypeOK, FEATURES_ALL
<1>4. MutexHeld /\ ClosingIsLast /\ LibraryState
  BY DEF RefCountInit, MutexHeld, ClosingIsLast, LibraryState, Initialized, Inside
<1> QED
  BY <1>2, <1>3, <1>4 DEF HeldInv

(* The steps of an object that touch neither the mutex nor the library.     *)
LEMMA GoesInv ==
    ASSUME HeldInv, NEW o \in Objects, NEW from \in Holding, NEW to \in Holding,
           Goes(o, from, to)
    PROVE  HeldInv'
<1>1. RefCountTypeOK'
  BY DEF HeldInv, RefCountTypeOK, Goes
<1>2. RefCountExact'
  BY HoldersSame DEF HeldInv, RefCountExact, Holders, Goes
<1>3. \A p \in Objects : /\ pc'[p] \in Inside <=> pc[p] \in Inside
                         /\ pc'[p] = "closing" <=> pc[p] = "closing"
  BY DEF HeldInv, RefCountTypeOK, Goes, Holding, Inside
<1>4. MutexHeld' /\ ClosingIsLast' /\ LibraryState'
  BY <1>3 DEF HeldInv, MutexHeld, ClosingIsLast, LibraryState, Initialized, Goes
<1> QED
  BY <1>1, <1>2, <1>4 DEF HeldInv

(* Only the owner of the mutex can be inside, so nobody closes the library  *)
(* while another object is inside, or while the mutex is free.              *)
LEMMA NobodyCloses ==
    ASSUME HeldInv, NEW o \in Objects,
           sacn_global_mutex = NoObject \/ sacn_global_mutex = o
    PROVE  \A p \in Objects : p # o => pc[p] # "closing"
BY DEF HeldInv, MutexHeld, Inside

(* Entering sacn_global_init() or sacn_global_deinit() keeps it.            *)
LEMMA LockInv ==
    ASSUME HeldInv, NEW o \in Objects, EnterInit(o) \/ EnterDeinit(o)
    PROVE  HeldInv'
<1>1. CASE EnterInit(o)
  <2>1. RefCountTypeOK'
    BY <1>1 DEF HeldInv, RefCountTypeOK, EnterInit, Lock, Inside
  <2>2. RefCountExact'
    BY <1>1, HoldersSame DEF HeldInv, RefCountExact, Holders, EnterInit, Holding
  <2>3. MutexHeld'
    BY <1>1 DEF HeldInv, RefCountTypeOK, MutexHeld, EnterInit, Lock, Inside
  <2>4. \A p \in Objects : pc'[p] = "closing" <=> pc[p] = "closing"
    BY <1>1 DEF HeldInv, RefCountTypeOK, EnterInit
  <2>5. ClosingIsLast' /\ LibraryState'
    BY <1>1, <2>4 DEF HeldInv, ClosingIsLast, LibraryState, Initialized, EnterInit
  <2> QED
    BY <2>1, <2>2, <2>3, <2>5 DEF HeldInv
<1>2. CASE EnterDeinit(o)
  <2>1. sacn_ref_count > 0 /\ sacn_ref_count \in Nat
    BY <1>2 DEF HeldInv, RefCountTypeOK, EnterDeinit
  <2> DEFINE s == IF LastHolder THEN "closing" ELSE "leaving"
  <2>2. s \in Inside /\ s \notin Holding /\ pc[o] \in Holding
    BY <1>2 DEF Inside, Holding, EnterDeinit
  <2>3. pc' = [pc EXCEPT ![o] = s]
    BY <1>2 DEF EnterDeinit
  <2>4. RefCountTypeOK'
    BY <1>2, <2>1, <2>2, <2>3 DEF HeldInv, RefCountTypeOK, EnterDeinit, Lock
  <2>5. RefCountExact'
    <3>1. Cardinality(Holders') = Cardinality(Holders) - 1
      BY <2>2, <2>3, HoldersLess DEF HeldInv
    <3> QED
      BY <1>2, <3>1 DEF HeldInv, RefCountExact, Holders, EnterDeinit
  <2>6. MutexHeld'
    BY <1>2, <2>2, <2>3 DEF HeldInv, RefCountTypeOK, MutexHeld, EnterDeinit, Lock, Inside
  <2>7. \A p \in Objects : p # o => pc'[p] # "closing"
    BY <1>2, <2>3, NobodyCloses DEF HeldInv, RefCountTypeOK, EnterDeinit, Lock
  <2>8. pc'[o] = "closing" <=> sacn_ref_count' = 0
    BY <1>2, <2>1, <2>3 DEF HeldInv, RefCountTypeOK, EnterDeinit, LastHolder
  <2>9. ClosingIsLast'
    BY <2>7, <2>8 DEF ClosingIsLast
  <2>10. Initialized /\ Initialized'
    BY <1>2, <2>1, <2>4, <2>8 DEF Initialized, RefCountTypeOK
  <2>11. LibraryState'
    BY <1>2, <2>10 DEF HeldInv, LibraryState, EnterDeinit
  <2> QED
    BY <2>4, <2>5, <2>6, <2>9, <2>11 DEF HeldInv
<1> QED
  BY <1>1, <1>2

(* So does the end of sacn_global_init(), with or without sacn::Init().     *)
LEMMA LeaveInitInv ==
    ASSUME HeldInv, NEW o \in Objects, LeaveInit(o)
    PROVE  HeldInv'
<1>1. pc[o] \in Inside /\ pc[o] \notin Holding /\ "starting" \in Holding
      /\ pc' = [pc EXCEPT ![o] = "starting"]
  BY DEF LeaveInit, Inside, Holding
<1>2. sacn_global_mutex = o
  BY <1>1 DEF HeldInv, MutexHeld
<1>3. \A p \in Objects : pc[p] # "closing"
  BY <1>2, NobodyCloses DEF LeaveInit
<1>4. sacn_ref_count \in Nat /\ sacn_ref_count' = sacn_ref_count + 1
  BY DEF HeldInv, RefCountTypeOK, LeaveInit
<1>5. up' = FEATURES_ALL /\ counts' = [f \in FEATURES_ALL |-> 1]
  <2>1. CASE FirstHolder
    <3>1. up = {} /\ counts = [f \in FEATURES_ALL |-> 0]
      BY <1>3, <2>1 DEF HeldInv, LibraryState, Initialized, FirstHolder
    <3>2. Library!InitFeatures(FEATURES_ALL)
      BY <2>1 DEF LeaveInit
    <3> QED
      BY <3>1, <3>2
         DEF Library!InitFeatures, Library!ToInit, Library!Features, FEATURES_ALL
  <2>2. CASE ~FirstHolder
    BY <1>4, <2>2 DEF HeldInv, LibraryState, Initialized, FirstHolder, LeaveInit
  <2> QED
    BY <2>1, <2>2
<1>6. RefCountTypeOK'
  BY <1>1, <1>4, <1>5 DEF HeldInv, RefCountTypeOK, LeaveInit, Unlock
<1>7. RefCountExact'
  <2>1. Cardinality(Holders') = Cardinality(Holders) + 1
    BY <1>1, HoldersMore DEF HeldInv
  <2> QED
    BY <1>4, <2>1 DEF HeldInv, RefCountExact, Holders
<1>8. MutexHeld'
  BY <1>1, <1>2 DEF HeldInv, RefCountTypeOK, MutexHeld, LeaveInit, Unlock, Inside, Holding
<1>9. ClosingIsLast'
  BY <1>1, <1>3 DEF HeldInv, RefCountTypeOK, ClosingIsLast
<1>10. LibraryState'
  BY <1>4, <1>5 DEF LibraryState, Initialized
<1> QED
  BY <1>6, <1>7, <1>8, <1>9, <1>10 DEF HeldInv

(* The two ways out of the mutex that leave the count and the library alone. *)
LEMMA UnlockInv ==
    ASSUME HeldInv, NEW o \in Objects, InitFails(o) \/ LeaveDeinit(o)
    PROVE  HeldInv'
<1>1. /\ pc[o] \in {"initializing", "leaving"}
      /\ pc' = [pc EXCEPT ![o] = "down"] /\ sacn_global_mutex' = NoObject
      /\ UNCHANGED <<sacn_ref_count, counts, up>>
  BY DEF InitFails, LeaveDeinit, Unlock, Library!InitFeaturesFails
<1>2. sacn_global_mutex = o
  BY <1>1 DEF HeldInv, MutexHeld, Inside
<1>3. RefCountTypeOK'
  BY <1>1 DEF HeldInv, RefCountTypeOK
<1>4. RefCountExact'
  BY <1>1, HoldersSame DEF HeldInv, RefCountExact, Holders, Holding
<1>5. MutexHeld'
  BY <1>1, <1>2 DEF HeldInv, RefCountTypeOK, MutexHeld, Inside
<1>6. \A p \in Objects : pc'[p] = "closing" <=> pc[p] = "closing"
  BY <1>1 DEF HeldInv, RefCountTypeOK
<1>7. ClosingIsLast' /\ LibraryState'
  BY <1>1, <1>6 DEF HeldInv, ClosingIsLast, LibraryState, Initialized
<1> QED
  BY <1>3, <1>4, <1>5, <1>7 DEF HeldInv

(* So does sacn::Deinit() by the object that released the last reference.   *)
LEMMA CloseInv ==
    ASSUME HeldInv, NEW o \in Objects, Close(o)
    PROVE  HeldInv'
<1>1. pc[o] = "closing" /\ pc' = [pc EXCEPT ![o] = "leaving"]
      /\ sacn_ref_count = 0 /\ sacn_ref_count' = 0
  BY DEF Close, HeldInv, ClosingIsLast
<1>2. sacn_global_mutex = o /\ sacn_global_mutex' = o
  BY <1>1 DEF HeldInv, MutexHeld, Inside, Close
<1>3. \A p \in Objects : pc'[p] # "closing"
  BY <1>1, <1>2, NobodyCloses DEF HeldInv, RefCountTypeOK
<1>4. up = FEATURES_ALL /\ counts = [f \in FEATURES_ALL |-> 1]
  BY <1>1 DEF HeldInv, LibraryState, Initialized
<1>5. up' = {} /\ counts' = [f \in FEATURES_ALL |-> 0]
  BY <1>4 DEF Close, Library!DeinitFeatures, Library!ToDeinit,
              Library!Decremented, Library!Features, FEATURES_ALL
<1>6. RefCountTypeOK'
  BY <1>1, <1>5 DEF HeldInv, RefCountTypeOK, Close, Inside
<1>7. RefCountExact'
  BY <1>1, HoldersSame DEF HeldInv, RefCountExact, Holders, Holding
<1>8. MutexHeld'
  BY <1>1, <1>2 DEF HeldInv, RefCountTypeOK, MutexHeld, Inside
<1>9. ClosingIsLast' /\ LibraryState'
  BY <1>1, <1>3, <1>5 DEF ClosingIsLast, LibraryState, Initialized
<1> QED
  BY <1>6, <1>7, <1>8, <1>9 DEF HeldInv

(* Every step keeps the invariant.                                          *)
LEMMA NextInv == HeldInv /\ [RefCountNext]_refCountVars => HeldInv'
<1> SUFFICES ASSUME HeldInv, [RefCountNext]_refCountVars PROVE HeldInv'
  OBVIOUS
<1>1. CASE UNCHANGED refCountVars
  BY <1>1 DEF refCountVars, HeldInv, RefCountTypeOK, RefCountExact, MutexHeld, ClosingIsLast,
              LibraryState, Initialized
<1>2. CASE RefCountNext
  <2> PICK o \in Objects :
        \/ EnterInit(o) \/ LeaveInit(o) \/ InitFails(o)
        \/ Start(o) \/ StartFails(o) \/ Use(o) \/ Used(o) \/ Shutdown(o)
        \/ EnterDeinit(o) \/ Close(o) \/ LeaveDeinit(o)
    BY <1>2 DEF RefCountNext
  <2>1. CASE EnterInit(o) \/ EnterDeinit(o)
    BY <2>1, LockInv
  <2>2. CASE LeaveInit(o)
    BY <2>2, LeaveInitInv
  <2>3. CASE InitFails(o) \/ LeaveDeinit(o)
    BY <2>3, UnlockInv
  <2>4. CASE Close(o)
    BY <2>4, CloseInv
  <2>5. CASE Start(o) \/ StartFails(o) \/ Use(o) \/ Used(o) \/ Shutdown(o)
    BY <2>5, GoesInv DEF Start, StartFails, Use, Used, Shutdown,
                         AfterFailedStart, Holding
  <2> QED
    BY <2>1, <2>2, <2>3, <2>4, <2>5
<1> QED
  BY <1>1, <1>2

(* The invariant holds of every behaviour.                                 *)
THEOREM InvCorrect == RefCountSpec => []HeldInv
BY InitInv, NextInv, PTL DEF RefCountSpec

-----------------------------------------------------------------------------

(* sacn_ref_count never miscounts, whatever the objects do and whichever    *)
(* of their starts fail.                                                    *)
THEOREM RefCountCorrect == RefCountSpec => [](RefCountTypeOK /\ RefCountExact)
<1>1. HeldInv => RefCountTypeOK /\ RefCountExact
  BY DEF HeldInv
<1> QED
  BY <1>1, InvCorrect, PTL

(* The library is up while any object starts, calls or shuts down a source, *)
(* and nobody is in sacn::Deinit then.                                      *)
THEOREM UpForUsersCorrect == RefCountSpec => []UpForUsers
<1>1. HeldInv => UpForUsers
  <2> SUFFICES ASSUME HeldInv, NEW o \in Objects, pc[o] \in Holding
               PROVE  up = FEATURES_ALL /\ \A other \in Objects : pc[other] # "closing"
    BY DEF UpForUsers
  <2>1. sacn_ref_count > 0
    BY UserCounted DEF HeldInv
  <2>2. up = FEATURES_ALL
    BY <2>1 DEF HeldInv, LibraryState, Initialized
  <2>3. \A other \in Objects : pc[other] # "closing"
    BY <2>1 DEF HeldInv, ClosingIsLast
  <2> QED
    BY <2>2, <2>3
<1> QED
  BY <1>1, InvCorrect, PTL

(* When no object uses sACN any more, the library is down.                  *)
THEOREM DownWhenUnusedCorrect == RefCountSpec => []DownWhenUnused
<1>1. HeldInv => DownWhenUnused
  <2> SUFFICES ASSUME HeldInv, \A o \in Objects : pc[o] = "down" PROVE up = {}
    BY DEF DownWhenUnused
  <2>1. Holders = {}
    BY DEF Holders, Holding
  <2>2. sacn_ref_count = 0
    BY <2>1, FS_EmptySet DEF HeldInv, RefCountExact, Holders
  <2> QED
    BY <2>2 DEF HeldInv, LibraryState, Initialized
<1> QED
  BY <1>1, InvCorrect, PTL

(* All of it together: the count holds the library up for those who need    *)
(* it, and for nobody else.                                                 *)
THEOREM LibraryHeldCorrect == RefCountSpec => []LibraryHeld
<1>1. (RefCountTypeOK /\ RefCountExact) /\ UpForUsers /\ DownWhenUnused => LibraryHeld
  BY DEF LibraryHeld
<1> QED
  BY <1>1, RefCountCorrect, UpForUsersCorrect, DownWhenUnusedCorrect, PTL

-----------------------------------------------------------------------------
(* The library's own specification, implemented by the objects together.    *)

(* What the objects have outstanding, as SacnRefCount tells the library.    *)
Outstanding == [F \in (SUBSET FEATURES_ALL) \ {{}} |->
                  IF F = FEATURES_ALL /\ Initialized THEN 1 ELSE 0]

(* A step that leaves the library alone is none of its business.            *)
LEMMA QuietStep ==
    ASSUME UNCHANGED <<counts, up>>, Initialized' = Initialized
    PROVE  UNCHANGED Library!vars
BY DEF Library!vars

(* sacn::Init() by the first object is a step of the library's client.      *)
LEMMA FirstInitStep ==
    ASSUME HeldInv, NEW o \in Objects, LeaveInit(o), FirstHolder
    PROVE  Library!Next
<1>1. /\ pc[o] = "initializing" /\ pc' = [pc EXCEPT ![o] = "starting"]
      /\ sacn_ref_count = 0 /\ sacn_ref_count' = 1
      /\ Library!InitFeatures(FEATURES_ALL)
  BY DEF LeaveInit, FirstHolder
<1>2. sacn_global_mutex = o
  BY <1>1 DEF HeldInv, MutexHeld, Inside
<1>3. ~Initialized
  BY <1>1, <1>2, NobodyCloses DEF Initialized
<1>4. Initialized'
  BY <1>1 DEF Initialized
<1>5. FEATURES_ALL \in (SUBSET FEATURES_ALL) \ {{}}
  BY DEF FEATURES_ALL
<1>6. Outstanding[FEATURES_ALL] = 0 /\ Outstanding' = [Outstanding EXCEPT ![FEATURES_ALL] = @ + 1]
  BY <1>3, <1>4, <1>5 DEF Outstanding
<1>7. Library!sacn_init_features(FEATURES_ALL)
  BY <1>1, <1>6 DEF Library!sacn_init_features, Outstanding
<1> QED
  BY <1>5, <1>7 DEF Library!Next, Library!FeatureSets, Library!Features, FEATURES_ALL

(* sacn::Deinit() by the last object is a step of the library's client.     *)
LEMMA LastDeinitStep ==
    ASSUME HeldInv, NEW o \in Objects, Close(o)
    PROVE  Library!Next
<1>1. /\ pc[o] = "closing" /\ pc' = [pc EXCEPT ![o] = "leaving"]
      /\ sacn_ref_count = 0 /\ sacn_ref_count' = 0
      /\ Library!DeinitFeatures(FEATURES_ALL)
  BY DEF Close, HeldInv, ClosingIsLast
<1>2. sacn_global_mutex = o
  BY <1>1 DEF HeldInv, MutexHeld, Inside
<1>3. Initialized
  BY <1>1 DEF Initialized
<1>4. ~Initialized'
  BY <1>1, <1>2, NobodyCloses DEF Initialized, HeldInv, RefCountTypeOK
<1>5. FEATURES_ALL \in (SUBSET FEATURES_ALL) \ {{}}
  BY DEF FEATURES_ALL
<1>6. Outstanding[FEATURES_ALL] = 1 /\ Outstanding' = [Outstanding EXCEPT ![FEATURES_ALL] = @ - 1]
  <2>1. Outstanding[FEATURES_ALL] = 1 /\ Outstanding[FEATURES_ALL] - 1 = 0
    BY <1>3, <1>5 DEF Outstanding
  <2>2. Outstanding' = [Outstanding EXCEPT ![FEATURES_ALL] = 0]
    BY <1>4, <1>5 DEF Outstanding
  <2> QED
    BY <2>1, <2>2
<1>7. Library!sacn_deinit_features(FEATURES_ALL)
  BY <1>1, <1>6 DEF Library!sacn_deinit_features, Outstanding
<1> QED
  BY <1>5, <1>7 DEF Library!Next, Library!FeatureSets, Library!Features, FEATURES_ALL

(* The objects together call sacn::Deinit exactly as often as sacn::Init,   *)
(* in turn: every step of theirs is a proper step of the library's client,  *)
(* or none of its business.                                                 *)
THEOREM LibraryUsedProperlyCorrect == RefCountSpec => LibraryUsedProperly
<1>1. HeldInv /\ [RefCountNext]_refCountVars => [Library!Next]_(Library!vars)
  <2> SUFFICES ASSUME HeldInv, [RefCountNext]_refCountVars PROVE [Library!Next]_(Library!vars)
    OBVIOUS
  <2>1. CASE UNCHANGED refCountVars
    BY <2>1, QuietStep DEF refCountVars, Initialized
  <2>2. ASSUME NEW o \in Objects, LeaveInit(o)
        PROVE  [Library!Next]_(Library!vars)
    <3>1. CASE FirstHolder
      BY <2>2, <3>1, FirstInitStep
    <3>2. CASE ~FirstHolder
      <4>1. UNCHANGED <<counts, up>>
        BY <2>2, <3>2 DEF LeaveInit
      <4>2. Initialized /\ Initialized'
        BY <2>2, <3>2 DEF LeaveInit, FirstHolder, Initialized, HeldInv, RefCountTypeOK
      <4> QED
        BY <4>1, <4>2, QuietStep
    <3> QED
      BY <3>1, <3>2
  <2>3. ASSUME NEW o \in Objects, EnterDeinit(o)
        PROVE  [Library!Next]_(Library!vars)
    <3>1. Initialized
      BY <2>3 DEF EnterDeinit, Initialized
    <3>2. Initialized'
      BY <2>3 DEF EnterDeinit, LastHolder, Initialized, HeldInv, RefCountTypeOK
    <3> QED
      BY <2>3, <3>1, <3>2, QuietStep DEF EnterDeinit
  <2>4. ASSUME NEW o \in Objects, Close(o)
        PROVE  [Library!Next]_(Library!vars)
    BY <2>4, LastDeinitStep
  <2>5. ASSUME NEW o \in Objects, NEW s, s # "closing", pc[o] # "closing",
               pc' = [pc EXCEPT ![o] = s], UNCHANGED <<sacn_ref_count, counts, up>>
        PROVE  [Library!Next]_(Library!vars)
    BY <2>5, QuietStep DEF Initialized, HeldInv, RefCountTypeOK
  <2>6. CASE RefCountNext
    <3> PICK o \in Objects :
          \/ EnterInit(o) \/ LeaveInit(o) \/ InitFails(o)
          \/ Start(o) \/ StartFails(o) \/ Use(o) \/ Used(o) \/ Shutdown(o)
          \/ EnterDeinit(o) \/ Close(o) \/ LeaveDeinit(o)
      BY <2>6 DEF RefCountNext
    <3>1. CASE EnterInit(o) \/ InitFails(o) \/ LeaveDeinit(o)
      BY <2>5, <3>1 DEF EnterInit, InitFails, LeaveDeinit, Library!InitFeaturesFails
    <3>2. CASE Start(o) \/ StartFails(o) \/ Use(o) \/ Used(o) \/ Shutdown(o)
      BY <2>5, <3>2 DEF Start, StartFails, Use, Used, Shutdown, Goes, AfterFailedStart
    <3> QED
      BY <2>2, <2>3, <2>4, <3>1, <3>2
  <2> QED
    BY <2>1, <2>6
<1> QED
  BY <1>1, InvCorrect, PTL DEF RefCountSpec, LibraryUsedProperly
=============================================================================
