---------------------------- MODULE SocketsProofs ---------------------------
(***************************************************************************)
(* Sockets for any number of workers and connections: however they wander, *)
(* no socket is in two places, and the registrations in the kernel agree   *)
(* with lst_pending.  At the end: no client is cut off.                    *)
(***************************************************************************)
EXTENDS Sockets, SequenceTheorems, FiniteSetTheorems, TLAPS

-----------------------------------------------------------------------------
(* Sequences without repetition.                                           *)

LEMMA HeadOnce ==
  ASSUME NEW S, NEW q \in Seq(S), q # <<>>
  PROVE  /\ Head(q) \in S /\ Tail(q) \in Seq(S)
         /\ Head(q) \in ToSet(q) /\ ToSet(Tail(q)) \subseteq ToSet(q)
         /\ IsInjective(q) => IsInjective(Tail(q)) /\ Head(q) \notin ToSet(Tail(q))
  <1> DEFINE r == Tail(q)
  <1>1. /\ Head(q) \in S /\ r \in Seq(S) /\ Len(r) = Len(q) - 1
        /\ \A i \in 1..Len(r) : r[i] = q[i + 1]
    BY HeadTailProperties
  <1>2. Len(q) \in Nat \ {0} /\ DOMAIN q = 1..Len(q) /\ DOMAIN r = 1..Len(r) /\ q[1] = Head(q)
    BY <1>1, EmptySeq, LenProperties
  <1> HIDE DEF r
  <1>3. 1 \in DOMAIN q /\ \A i \in DOMAIN r : i + 1 \in DOMAIN q /\ i + 1 # 1 /\ r[i] = q[i + 1]
    BY <1>1, <1>2
  <1>4. Head(q) \in ToSet(q)
    BY <1>2, <1>3 DEF ToSet
  <1>5. ToSet(r) \subseteq ToSet(q)
    BY <1>3 DEF ToSet
  <1>6. ASSUME IsInjective(q) PROVE IsInjective(r) /\ Head(q) \notin ToSet(r)
    <2>1. ASSUME NEW i \in DOMAIN r, NEW j \in DOMAIN r, r[i] = r[j] PROVE i = j
      <3>1. i + 1 = j + 1
        BY <1>3, <1>6, <2>1 DEF IsInjective
      <3> QED
        BY <1>1, <1>2, <3>1
    <2>2. ASSUME NEW i \in DOMAIN r, r[i] = Head(q) PROVE FALSE
      BY <1>2, <1>3, <1>6, <2>2 DEF IsInjective
    <2> QED
      BY <2>1, <2>2 DEF IsInjective, ToSet
  <1> QED
    BY <1>1, <1>4, <1>5, <1>6 DEF r

LEMMA ConcatOnce ==
  ASSUME NEW S, NEW q \in Seq(S), NEW r \in Seq(S)
  PROVE  /\ q \o r \in Seq(S)
         /\ ToSet(q \o r) = ToSet(q) \cup ToSet(r)
         /\ IsInjective(q) /\ IsInjective(r) /\ ToSet(q) \cap ToSet(r) = {}
              => IsInjective(q \o r)
  <1> DEFINE c == q \o r
  <1>1. /\ c \in Seq(S) /\ Len(c) = Len(q) + Len(r)
        /\ \A i \in 1..Len(q) + Len(r) : c[i] = IF i <= Len(q) THEN q[i] ELSE r[i - Len(q)]
    BY ConcatProperties
  <1>2. /\ Len(q) \in Nat /\ Len(r) \in Nat
        /\ DOMAIN q = 1..Len(q) /\ DOMAIN r = 1..Len(r) /\ DOMAIN c = 1..Len(q) + Len(r)
    BY <1>1, LenProperties
  <1> HIDE DEF c
  <1>3. /\ \A i \in DOMAIN q : i \in DOMAIN c /\ c[i] = q[i]
        /\ \A i \in DOMAIN r : i + Len(q) \in DOMAIN c /\ c[i + Len(q)] = r[i]
    BY <1>1, <1>2
  <1>4. ASSUME NEW i \in DOMAIN c
        PROVE  (i \in DOMAIN q /\ c[i] = q[i])
                 \/ (i - Len(q) \in DOMAIN r /\ c[i] = r[i - Len(q)])
    BY <1>1, <1>2, <1>4
  <1>5. ToSet(c) = ToSet(q) \cup ToSet(r)
    <2>1. ASSUME NEW i \in DOMAIN c PROVE c[i] \in ToSet(q) \cup ToSet(r)
      BY <1>4, <2>1 DEF ToSet
    <2>2. ASSUME NEW i \in DOMAIN q PROVE q[i] \in ToSet(c)
      BY <1>3, <2>2 DEF ToSet
    <2>3. ASSUME NEW i \in DOMAIN r PROVE r[i] \in ToSet(c)
      BY <1>3, <2>3 DEF ToSet
    <2> QED
      BY <2>1, <2>2, <2>3 DEF ToSet
  <1>6. ASSUME IsInjective(q), IsInjective(r), ToSet(q) \cap ToSet(r) = {}
        PROVE  IsInjective(c)
    <2>1. ASSUME NEW i \in DOMAIN q, NEW j \in DOMAIN r PROVE q[i] # r[j]
      BY <1>6, <2>1 DEF ToSet
    <2> SUFFICES ASSUME NEW i \in DOMAIN c, NEW j \in DOMAIN c, c[i] = c[j] PROVE i = j
      BY DEF IsInjective
    <2>2. CASE i \in DOMAIN q /\ c[i] = q[i] /\ j \in DOMAIN q /\ c[j] = q[j]
      BY <1>6, <2>2 DEF IsInjective
    <2>3. CASE /\ i - Len(q) \in DOMAIN r /\ c[i] = r[i - Len(q)]
               /\ j - Len(q) \in DOMAIN r /\ c[j] = r[j - Len(q)]
      <3>1. i - Len(q) = j - Len(q)
        BY <1>6, <2>3 DEF IsInjective
      <3> QED
        BY <1>2, <3>1
    <2> QED
      BY <1>4, <2>1, <2>2, <2>3
  <1> QED
    BY <1>1, <1>5, <1>6 DEF c

LEMMA AppendOnce ==
  ASSUME NEW S, NEW q \in Seq(S), NEW e \in S
  PROVE  /\ Append(q, e) \in Seq(S)
         /\ ToSet(Append(q, e)) = ToSet(q) \cup {e}
         /\ IsInjective(q) /\ e \notin ToSet(q) => IsInjective(Append(q, e))
  <1> DEFINE c == Append(q, e)
  <1>1. /\ c \in Seq(S) /\ Len(c) = Len(q) + 1 /\ c[Len(q) + 1] = e
        /\ \A i \in 1..Len(q) : c[i] = q[i]
    BY AppendProperties
  <1>2. Len(q) \in Nat /\ DOMAIN q = 1..Len(q) /\ DOMAIN c = 1..Len(q) + 1
    BY <1>1, LenProperties
  <1> HIDE DEF c
  <1>3. /\ Len(q) + 1 \in DOMAIN c
        /\ \A i \in DOMAIN q : i \in DOMAIN c /\ c[i] = q[i]
        /\ \A i \in DOMAIN c : i = Len(q) + 1 \/ i \in DOMAIN q
    BY <1>1, <1>2
  <1>4. ToSet(c) = ToSet(q) \cup {e}
    <2>1. ASSUME NEW i \in DOMAIN c PROVE c[i] \in ToSet(q) \cup {e}
      BY <1>1, <1>3, <2>1 DEF ToSet
    <2>2. ASSUME NEW i \in DOMAIN q PROVE q[i] \in ToSet(c)
      BY <1>3, <2>2 DEF ToSet
    <2>3. e \in ToSet(c)
      BY <1>1, <1>3 DEF ToSet
    <2> QED
      BY <2>1, <2>2, <2>3 DEF ToSet
  <1>5. ASSUME IsInjective(q), e \notin ToSet(q) PROVE IsInjective(c)
    <2>1. ASSUME NEW i \in DOMAIN q PROVE q[i] # e
      BY <1>5, <2>1 DEF ToSet
    <2> SUFFICES ASSUME NEW i \in DOMAIN c, NEW j \in DOMAIN c, c[i] = c[j] PROVE i = j
      BY DEF IsInjective
    <2>2. CASE i \in DOMAIN q /\ j \in DOMAIN q
      BY <1>3, <1>5, <2>2 DEF IsInjective
    <2> QED
      BY <1>1, <1>3, <2>1, <2>2
  <1> QED
    BY <1>1, <1>4, <1>5 DEF c

\* SetToSeq lists only what is in the set, and nothing twice.
LEMMA ListOnce ==
  ASSUME NEW T, IsFiniteSet(T)
  PROVE  /\ SetToSeq(T) \in Seq(T)
         /\ ToSet(SetToSeq(T)) \subseteq T
         /\ IsInjective(SetToSeq(T))
  <1> DEFINE n == Cardinality(T)
             OK(f) == f \in [1..n -> T] /\ IsInjective(f)
  <1>1. n \in Nat /\ \E f : OK(f)
    <2>1. PICK m \in Nat : ExistsBijection(1..m, T)
      BY FS_NatBijection
    <2>2. m = n
      BY <2>1, FS_CountingElements
    <2>3. PICK f : f \in Bijection(1..m, T)
      BY <2>1 DEF ExistsBijection
    <2>4. f \in [1..m -> T] /\ IsInjective(f)
      BY <2>3 DEF Bijection, Injection
    <2> QED
      BY <2>2, <2>4
  <1>2. OK(SetToSeq(T))
    <2>1. \E f \in [1..n -> T] : IsInjective(f)
      BY <1>1
    <2> QED
      BY <2>1 DEF SetToSeq
  <1>3. SetToSeq(T) \in Seq(T)
    BY <1>1, <1>2, SeqDef
  <1>4. DOMAIN SetToSeq(T) = 1..n
    BY <1>2
  <1> QED
    BY <1>2, <1>3, <1>4 DEF ToSet

-----------------------------------------------------------------------------
(* The invariant.                                                          *)

\* The places of each worker, and all places with those the workers share.
Own == {"pending", "hand", "done"}

Places == Own \cup {"svc", "low", "shared"}

Holds(p, v, s) == \/ p = "pending" /\ s \in lst_pending[v]
                  \/ p = "hand"    /\ s = hand[v] /\ s # None
                  \/ p = "done"    /\ s \in ToSet(lst_done[v])
                  \/ p = "svc"     /\ s \in ToSet(lstSvc)
                  \/ p = "low"     /\ s \in ToSet(lstSvcLow)
                  \/ p = "shared"  /\ s \in ToSet(lstSocket)

\* No two places hold the same socket.
Apart ==
  \A p, q \in Places, v, w \in Workers, s \in Socks :
    Holds(p, v, s) /\ Holds(q, w, s) => p = q /\ (p \in Own => v = w)

\* None holds it twice.
Once == /\ \A w \in Workers : IsInjective(lst_done[w])
        /\ IsInjective(lstSvc) /\ IsInjective(lstSvcLow) /\ IsInjective(lstSocket)

\* Before it is accepted a connection is nowhere.
Unborn ==
  \A c \in Conns : client[c] \in {"new", "queued"} =>
    \A p \in Places, v \in Workers : ~Holds(p, v, c)

\* What service() returns is a socket of PipeService.
Returned == \A w \in Workers : pc[w] = "return" => hand[w] \in Pipe \cup {None}

PlacesOK == /\ hand \in [Workers -> Conns \cup {None}]
            /\ lst_pending \in [Workers -> SUBSET Socks]
            /\ lst_done \in [Workers -> Seq(Conns)]
            /\ lstSvc \in Seq(Conns) /\ lstSvcLow \in Seq(Pipe)
            /\ lstSocket \in Seq(Socks)

Placement == PlacesOK /\ Apart /\ Once /\ Unborn

\* Reported sockets are at hand only inside perform().
Batches == \A w \in Workers : batch[w] # {} => pc[w] = "perform"

ContentOK == /\ state \in [Socks -> States]
             /\ wr_buf \in [Conns -> {"nothing", "greeting", "reply"}]
             /\ toRead_ \in [Pipe -> {0, -1, -4}]
             /\ client \in [Conns -> {"new", "queued", "open", "asking", "served", "gone"}]
             /\ asked \in [Conns -> 0..MaxAsked]
             /\ unread \in [Conns -> BOOLEAN] /\ full \in [Conns -> BOOLEAN]

Watching == /\ pc \in [Workers -> Points]
            /\ armed \in [Workers -> SUBSET Socks]
            /\ batch \in [Workers -> SUBSET Socks]
            /\ Watched /\ Batches

\* Some worker is there, or nothing ever starts.
IInv == Workers # {} /\ Placement /\ Returned /\ Watching /\ ContentOK

-----------------------------------------------------------------------------
(* Moving sockets from place to place.                                     *)

LEMMA NoneApart == None \notin Conns /\ Conns \subseteq Socks /\ Pipe \subseteq Conns
  BY SocketsAssumption DEF Conns, Socks

\* A socket is nowhere but where it is.
LEMMA Elsewhere ==
  ASSUME Apart, NEW s \in Socks, NEW p \in Places, NEW w \in Workers, Holds(p, w, s),
         NEW v \in Workers
  PROVE  /\ s \in lst_pending[v] => p = "pending" /\ v = w
         /\ s = hand[v] /\ s # None => p = "hand" /\ v = w
         /\ s \in ToSet(lst_done[v]) => p = "done" /\ v = w
         /\ s \in ToSet(lstSvc) => p = "svc"
         /\ s \in ToSet(lstSvcLow) => p = "low"
         /\ s \in ToSet(lstSocket) => p = "shared"
  <1>1. \A q \in Places : Holds(q, v, s) => p = q /\ (p \in Own => w = v)
    BY DEF Apart
  <1>2. /\ "pending" \in Own /\ "hand" \in Own /\ "done" \in Own
        /\ "pending" \in Places /\ "hand" \in Places /\ "done" \in Places
        /\ "svc" \in Places /\ "low" \in Places /\ "shared" \in Places
    BY DEF Own, Places
  <1>3. s \in lst_pending[v] => Holds("pending", v, s)
    BY DEF Holds
  <1>4. s = hand[v] /\ s # None => Holds("hand", v, s)
    BY DEF Holds
  <1>5. s \in ToSet(lst_done[v]) => Holds("done", v, s)
    BY DEF Holds
  <1>6. s \in ToSet(lstSvc) => Holds("svc", v, s)
    BY DEF Holds
  <1>7. s \in ToSet(lstSvcLow) => Holds("low", v, s)
    BY DEF Holds
  <1>8. s \in ToSet(lstSocket) => Holds("shared", v, s)
    BY DEF Holds
  <1> QED
    BY <1>1, <1>2, <1>3, <1>4, <1>5, <1>6, <1>7, <1>8, Zenon

\* What is in M goes to place q of worker w, or is dropped, and the rest stays or is
\* dropped.
Moves(q, w, M) ==
  /\ \A v \in Workers, s \in Socks :
       /\ s \in lst_pending'[v] =>
            IF s \in M THEN q = "pending" /\ v = w ELSE s \in lst_pending[v]
       /\ s = hand'[v] /\ s # None =>
            IF s \in M THEN q = "hand" /\ v = w ELSE s = hand[v]
       /\ s \in ToSet(lst_done'[v]) =>
            IF s \in M THEN q = "done" /\ v = w ELSE s \in ToSet(lst_done[v])
  /\ \A s \in Socks :
       /\ s \in ToSet(lstSvc') => IF s \in M THEN q = "svc" ELSE s \in ToSet(lstSvc)
       /\ s \in ToSet(lstSvcLow') => IF s \in M THEN q = "low" ELSE s \in ToSet(lstSvcLow)
       /\ s \in ToSet(lstSocket') => IF s \in M THEN q = "shared" ELSE s \in ToSet(lstSocket)
  /\ \A c \in Conns : client'[c] \in {"new", "queued"} =>
                         client[c] \in {"new", "queued"} /\ c \notin M

LEMMA Transfer ==
  ASSUME Apart, Unborn, NEW q, NEW w \in Workers, NEW M, Moves(q, w, M)
  PROVE  Apart' /\ Unborn'
  <1>1. ASSUME NEW p \in Places, NEW v \in Workers, NEW s \in Socks, Holds(p, v, s)'
        PROVE  /\ s \in M => p = q /\ (p \in Own => v = w)
               /\ s \notin M => Holds(p, v, s)
    <2>1. CASE p = "pending" /\ s \in lst_pending'[v]
      BY <2>1 DEF Moves, Holds
    <2>2. CASE p = "hand" /\ s = hand'[v] /\ s # None
      BY <2>2 DEF Moves, Holds
    <2>3. CASE p = "done" /\ s \in ToSet(lst_done'[v])
      BY <2>3 DEF Moves, Holds
    <2>4. CASE p = "svc" /\ s \in ToSet(lstSvc')
      BY <2>4 DEF Moves, Holds, Own
    <2>5. CASE p = "low" /\ s \in ToSet(lstSvcLow')
      BY <2>5 DEF Moves, Holds, Own
    <2>6. CASE p = "shared" /\ s \in ToSet(lstSocket')
      BY <2>6 DEF Moves, Holds, Own
    <2> QED
      BY <1>1, <2>1, <2>2, <2>3, <2>4, <2>5, <2>6 DEF Moves, Holds
  <1>2. Apart'
    <2> SUFFICES ASSUME NEW p \in Places, NEW r \in Places, NEW u \in Workers, NEW v \in Workers,
                        NEW s \in Socks, Holds(p, u, s)', Holds(r, v, s)'
                 PROVE  p = r /\ (p \in Own => u = v)
      BY Zenon DEF Apart
    <2>1. CASE s \in M
      <3>1. p = q /\ (p \in Own => u = w)
        BY <1>1, <2>1, Zenon
      <3>2. r = q /\ (r \in Own => v = w)
        BY <1>1, <2>1, Zenon
      <3> QED
        BY <3>1, <3>2, Zenon
    <2>2. CASE s \notin M
      <3>1. Holds(p, u, s) /\ Holds(r, v, s)
        BY <1>1, <2>2, Zenon
      <3> QED
        BY <3>1, Zenon DEF Apart
    <2> QED
      BY <2>1, <2>2
  <1>3. Unborn'
    <2>1. \A c \in Conns : client'[c] \in {"new", "queued"} =>
                             client[c] \in {"new", "queued"} /\ c \notin M
      BY DEF Moves
    <2> QED
      BY <1>1, <2>1, NoneApart, Zenon DEF Unborn
  <1> QED
    BY <1>2, <1>3

\* s, which w holds, becomes pending again, is completed, or is dropped.
LEMMA Settle ==
  ASSUME Placement, NEW w \in Workers, NEW s \in Conns, NEW p \in Own, Holds(p, w, s),
         NEW pend \in SUBSET Socks, pend = lst_pending[w] \ {s},
         NEW done \in Seq(Conns), ToSet(done) \subseteq ToSet(lst_done[w]) \ {s},
         IsInjective(done),
         \/ Accept(w, s, pend, done)
         \/ PushDone(w, s, pend, done)
         \/ Release(w, s, pend, done),
         hand' \in [Workers -> Conns \cup {None}],
         \A v \in Workers : hand'[v] \in {hand[v], None},
         p = "hand" => hand'[w] = None,
         lstSvc' = lstSvc, lstSvcLow' = lstSvcLow, lstSocket' = lstSocket,
         \A c \in Conns : client'[c] \in {"new", "queued"} => client[c] \in {"new", "queued"}
  PROVE  Placement'
  <1>1. /\ s \in Socks /\ s # None /\ p \in Places
        /\ lst_pending \in [Workers -> SUBSET Socks] /\ lst_done \in [Workers -> Seq(Conns)]
    BY NoneApart DEF Placement, PlacesOK, Places
  <1>2. \A v \in Workers : /\ s \in lst_pending[v] => p = "pending" /\ v = w
                           /\ s = hand[v] /\ s # None => p = "hand" /\ v = w
                           /\ s \in ToSet(lst_done[v]) => p = "done" /\ v = w
                           /\ s \in ToSet(lstSvc) => p = "svc"
                           /\ s \in ToSet(lstSvcLow) => p = "low"
                           /\ s \in ToSet(lstSocket) => p = "shared"
    BY <1>1, Elsewhere, Zenon DEF Placement
  <1>3. p \notin {"svc", "low", "shared"}
    BY DEF Own
  <1>4. s \notin ToSet(lstSvc) /\ s \notin ToSet(lstSvcLow) /\ s \notin ToSet(lstSocket)
    BY <1>2, <1>3
  <1>5. \A v \in Workers : s # hand'[v]
    BY <1>1, <1>2
  <1>6. client[s] \notin {"new", "queued"}
    BY <1>1, Zenon DEF Placement, Unborn
  <1>7. s \notin ToSet(done) /\ ToSet(Append(done, s)) = ToSet(done) \cup {s}
        /\ IsInjective(Append(done, s)) /\ Append(done, s) \in Seq(Conns)
    BY AppendOnce
  <1>8. PICK A \in SUBSET Socks, B \in Seq(Conns) :
          /\ lst_pending' = [lst_pending EXCEPT ![w] = A]
          /\ lst_done' = [lst_done EXCEPT ![w] = B]
          /\ \/ A = pend \cup {s} /\ B = done
             \/ A = pend /\ B = Append(done, s)
             \/ A = pend /\ B = done
    <2>1. CASE Accept(w, s, pend, done)
      <3>1. pend \cup {s} \in SUBSET Socks
        BY <1>1
      <3> QED
        BY <2>1, <3>1, Zenon DEF Accept
    <2>2. CASE PushDone(w, s, pend, done)
      BY <1>7, <2>2, Zenon DEF PushDone
    <2>3. CASE Release(w, s, pend, done)
      BY <2>3, Zenon DEF Release
    <2> QED
      BY <2>1, <2>2, <2>3
  <1>9. /\ lst_pending'[w] = A /\ lst_done'[w] = B
        /\ \A v \in Workers \ {w} : lst_pending'[v] = lst_pending[v] /\ lst_done'[v] = lst_done[v]
        /\ lst_pending' \in [Workers -> SUBSET Socks] /\ lst_done' \in [Workers -> Seq(Conns)]
    BY <1>1, <1>8
  <1>10. PlacesOK'
    BY <1>9 DEF Placement, PlacesOK
  <1>11. Once'
    <2>1. IsInjective(lst_done'[w])
      BY <1>7, <1>8, <1>9
    <2>2. \A v \in Workers : IsInjective(lst_done'[v])
      BY <1>9, <2>1, Zenon DEF Placement, Once
    <2> QED
      BY <2>2 DEF Placement, Once
  <1>12. Apart' /\ Unborn'
    <2> DEFINE q == IF s \in A THEN "pending" ELSE "done"
               M == {s}
    <2>1. \A v \in Workers, r \in Socks :
            r \in lst_pending'[v] =>
              IF r \in M THEN q = "pending" /\ v = w ELSE r \in lst_pending[v]
      BY <1>2, <1>9, <1>8
    <2>2. \A v \in Workers, r \in Socks :
            r = hand'[v] /\ r # None =>
              IF r \in M THEN q = "hand" /\ v = w ELSE r = hand[v]
      BY <1>5
    <2>3. \A v \in Workers, r \in Socks :
            r \in ToSet(lst_done'[v]) =>
              IF r \in M THEN q = "done" /\ v = w ELSE r \in ToSet(lst_done[v])
      BY <1>2, <1>7, <1>8, <1>9
    <2>4. \A r \in Socks :
            /\ r \in ToSet(lstSvc') => IF r \in M THEN q = "svc" ELSE r \in ToSet(lstSvc)
            /\ r \in ToSet(lstSvcLow') =>
                 IF r \in M THEN q = "low" ELSE r \in ToSet(lstSvcLow)
            /\ r \in ToSet(lstSocket') =>
                 IF r \in M THEN q = "shared" ELSE r \in ToSet(lstSocket)
      BY <1>4
    <2>5. \A c \in Conns : client'[c] \in {"new", "queued"} =>
                             client[c] \in {"new", "queued"} /\ c \notin M
      BY <1>6
    <2> HIDE DEF q, M
    <2>6. Moves(q, w, M)
      BY <2>1, <2>2, <2>3, <2>4, <2>5 DEF Moves
    <2> QED
      BY <2>6, Transfer, Zenon DEF Placement
  <1> QED
    BY <1>10, <1>11, <1>12 DEF Placement

\* Nothing moves.
LEMMA Settled ==
  ASSUME Placement,
         hand' = hand, lst_pending' = lst_pending, lst_done' = lst_done,
         lstSvc' = lstSvc, lstSvcLow' = lstSvcLow, lstSocket' = lstSocket,
         \A c \in Conns : client'[c] \in {"new", "queued"} => client[c] \in {"new", "queued"}
  PROVE  Placement'
  <1>1. PlacesOK' /\ Once'
    BY DEF Placement, PlacesOK, Once
  <1>2. \A p, v, s : Holds(p, v, s)' <=> Holds(p, v, s)
    BY DEF Holds
  <1>3. Apart' /\ Unborn'
    BY <1>2, Zenon DEF Placement, Apart, Unborn
  <1> QED
    BY <1>1, <1>3 DEF Placement

\* A queued job comes to hand.
LEMMA JobTaken ==
  ASSUME Placement, NEW w \in Workers, lstSvc # <<>>,
         hand' = [hand EXCEPT ![w] = Head(lstSvc)], lstSvc' = Tail(lstSvc),
         lst_pending' = lst_pending, lst_done' = lst_done,
         lstSvcLow' = lstSvcLow, lstSocket' = lstSocket, client' = client
  PROVE  Placement'
  <1> DEFINE s == Head(lstSvc)
             M == {s}
  <1>1. /\ hand \in [Workers -> Conns \cup {None}] /\ lstSvc \in Seq(Conns) /\ IsInjective(lstSvc)
    BY DEF Placement, PlacesOK, Once
  <1>2. /\ s \in Conns /\ s \in ToSet(lstSvc) /\ lstSvc' \in Seq(Conns) /\ IsInjective(lstSvc')
        /\ ToSet(lstSvc') \subseteq ToSet(lstSvc) /\ s \notin ToSet(lstSvc')
    BY <1>1, HeadOnce
  <1> HIDE DEF s
  <1>3. /\ hand' = [hand EXCEPT ![w] = s]
    BY DEF s
  <1>4. /\ hand'[w] = s /\ \A v \in Workers \ {w} : hand'[v] = hand[v]
        /\ hand' \in [Workers -> Conns \cup {None}]
    BY <1>1, <1>2, <1>3
  <1>5. s \in Socks /\ "svc" \in Places /\ Holds("svc", w, s)
    BY <1>2, NoneApart DEF Places, Holds
  <1>6. /\ \A v \in Workers : /\ s \notin lst_pending[v] /\ s \notin ToSet(lst_done[v])
                              /\ s = hand[v] => s = None
        /\ s \notin ToSet(lstSvcLow) /\ s \notin ToSet(lstSocket)
    BY <1>5, Elsewhere DEF Placement
  <1>7. client[s] \notin {"new", "queued"}
    BY <1>2, <1>5, Zenon DEF Placement, Unborn
  <1>8. Moves("hand", w, M)
    BY <1>2, <1>4, <1>6, <1>7 DEF Moves
  <1>9. PlacesOK' /\ Once'
    BY <1>2, <1>4 DEF Placement, PlacesOK, Once
  <1> QED
    BY <1>8, <1>9, Transfer, Zenon DEF Placement

LEMMA LowTaken ==
  ASSUME Placement, NEW w \in Workers, lstSvcLow # <<>>,
         hand' = [hand EXCEPT ![w] = Head(lstSvcLow)], lstSvcLow' = Tail(lstSvcLow),
         lst_pending' = lst_pending, lst_done' = lst_done,
         lstSvc' = lstSvc, lstSocket' = lstSocket, client' = client
  PROVE  Placement'
  <1> DEFINE s == Head(lstSvcLow)
             M == {s}
  <1>1. /\ hand \in [Workers -> Conns \cup {None}] /\ lstSvcLow \in Seq(Pipe)
        /\ IsInjective(lstSvcLow)
    BY DEF Placement, PlacesOK, Once
  <1>2. /\ s \in Pipe /\ s \in ToSet(lstSvcLow) /\ lstSvcLow' \in Seq(Pipe)
        /\ IsInjective(lstSvcLow') /\ s \notin ToSet(lstSvcLow')
        /\ ToSet(lstSvcLow') \subseteq ToSet(lstSvcLow)
    BY <1>1, HeadOnce
  <1> HIDE DEF s
  <1>3. /\ hand' = [hand EXCEPT ![w] = s]
    BY DEF s
  <1>4. /\ hand'[w] = s /\ \A v \in Workers \ {w} : hand'[v] = hand[v]
        /\ hand' \in [Workers -> Conns \cup {None}]
    BY <1>1, <1>2, <1>3, NoneApart
  <1>5. s \in Conns /\ s \in Socks /\ "low" \in Places /\ Holds("low", w, s)
    BY <1>2, NoneApart DEF Places, Holds
  <1>6. /\ \A v \in Workers : /\ s \notin lst_pending[v] /\ s \notin ToSet(lst_done[v])
                              /\ s = hand[v] => s = None
        /\ s \notin ToSet(lstSvc) /\ s \notin ToSet(lstSocket)
    BY <1>5, Elsewhere DEF Placement
  <1>7. client[s] \notin {"new", "queued"}
    BY <1>5, Zenon DEF Placement, Unborn
  <1>8. Moves("hand", w, M)
    BY <1>2, <1>4, <1>6, <1>7 DEF Moves
  <1>9. PlacesOK' /\ Once'
    BY <1>2, <1>4 DEF Placement, PlacesOK, Once
  <1> QED
    BY <1>8, <1>9, Transfer, Zenon DEF Placement

\* A socket of PipeService goes to the low queue.
LEMMA PutBack ==
  ASSUME Placement, NEW w \in Workers, hand[w] \in Pipe,
         hand' = [hand EXCEPT ![w] = None], lstSvcLow' = Append(lstSvcLow, hand[w]),
         lst_pending' = lst_pending, lst_done' = lst_done,
         lstSvc' = lstSvc, lstSocket' = lstSocket, client' = client
  PROVE  Placement'
  <1>1. PICK s \in Pipe : s = hand[w]
    OBVIOUS
  <1>2. hand \in [Workers -> Conns \cup {None}] /\ lstSvcLow \in Seq(Pipe)
        /\ IsInjective(lstSvcLow)
    BY DEF Placement, PlacesOK, Once
  <1>3. /\ hand'[w] = None /\ \A v \in Workers \ {w} : hand'[v] = hand[v]
        /\ hand' \in [Workers -> Conns \cup {None}]
    BY <1>2
  <1>4. /\ s \in Conns /\ s # None /\ s \in Socks /\ "hand" \in Places /\ Holds("hand", w, s)
    BY <1>1, NoneApart DEF Places, Own, Holds
  <1>5. /\ \A v \in Workers : /\ s \notin lst_pending[v] /\ s \notin ToSet(lst_done[v])
                              /\ s = hand[v] => v = w
        /\ s \notin ToSet(lstSvc) /\ s \notin ToSet(lstSvcLow) /\ s \notin ToSet(lstSocket)
    BY <1>4, Elsewhere DEF Placement
  <1>6. client[s] \notin {"new", "queued"}
    BY <1>4, Zenon DEF Placement, Unborn
  <1>7. /\ lstSvcLow' \in Seq(Pipe) /\ IsInjective(lstSvcLow')
        /\ ToSet(lstSvcLow') = ToSet(lstSvcLow) \cup {s}
    BY <1>1, <1>2, <1>5, AppendOnce
  <1>8. Moves("low", w, {s})
    BY <1>3, <1>4, <1>5, <1>6, <1>7 DEF Moves
  <1>9. PlacesOK' /\ Once'
    BY <1>3, <1>7 DEF Placement, PlacesOK, Once
  <1> QED
    BY <1>8, <1>9, Transfer, Zenon DEF Placement

\* Pending sockets go to the other workers.
LEMMA Shared ==
  ASSUME Placement, NEW w \in Workers, Put(w),
         hand' = hand, lstSvc' = lstSvc, lstSvcLow' = lstSvcLow, client' = client
  PROVE  Placement'
  <1> DEFINE M == lst_pending[w] \ Keep
             list == SetToSeq(M)
  <1>1. /\ lst_pending \in [Workers -> SUBSET Socks] /\ lstSocket \in Seq(Socks)
        /\ IsInjective(lstSocket) /\ lst_pending[w] \in SUBSET Socks
    BY DEF Placement, PlacesOK, Once
  <1>2. IsFiniteSet(M) /\ M \subseteq Socks
    <2>1. IsFiniteSet(Conns)
      BY SocketsAssumption DEF Conns
    <2>2. IsFiniteSet({"hello", "control", "pipe"})
      <3>1. IsFiniteSet({"hello"}) /\ IsFiniteSet({"control"}) /\ IsFiniteSet({"pipe"})
        BY FS_Singleton
      <3>2. IsFiniteSet({"hello"} \cup {"control"} \cup {"pipe"})
        BY <3>1, FS_Union
      <3>3. {"hello"} \cup {"control"} \cup {"pipe"} = {"hello", "control", "pipe"}
        OBVIOUS
      <3> QED
        BY <3>2, <3>3
    <2>3. IsFiniteSet(Listeners)
      BY <2>2, FS_Subset DEF Listeners
    <2>4. IsFiniteSet(Socks)
      BY <2>1, <2>3, FS_Union DEF Socks
    <2> QED
      BY <1>1, <2>4, FS_Subset
  <1>3. /\ list \in Seq(Socks) /\ ToSet(list) \subseteq M /\ IsInjective(list)
    BY <1>2, ListOnce, SeqMonotonic
  <1>4. /\ lstSocket' = lstSocket \o list /\ lst_done' = lst_done
        /\ lst_pending' = [lst_pending EXCEPT ![w] = lst_pending[w] \ M]
    <2>1. lst_pending[w] \ M = lst_pending[w] \cap Keep
      OBVIOUS
    <2> QED
      BY <2>1 DEF Put
  <1>5. M \subseteq lst_pending[w]
    OBVIOUS
  <1> HIDE DEF M, list
  <1>6. /\ lst_pending'[w] = lst_pending[w] \ M
        /\ \A v \in Workers \ {w} : lst_pending'[v] = lst_pending[v]
        /\ lst_pending' \in [Workers -> SUBSET Socks]
    BY <1>1, <1>4
  <1>7. ASSUME NEW s \in M
        PROVE  /\ s \in Socks /\ s \notin ToSet(lstSvc) /\ s \notin ToSet(lstSvcLow)
               /\ s \notin ToSet(lstSocket)
               /\ \A v \in Workers : /\ s \in lst_pending[v] => v = w
                                     /\ s \notin ToSet(lst_done[v])
                                     /\ s = hand[v] => s = None
               /\ s \in Conns => client[s] \notin {"new", "queued"}
    <2>1. s \in Socks /\ "pending" \in Places /\ Holds("pending", w, s)
      BY <1>2, <1>5, <1>7 DEF Places, Own, Holds
    <2>2. s \in Conns => client[s] \notin {"new", "queued"}
      BY <2>1, Zenon DEF Placement, Unborn
    <2> QED
      BY <2>1, <2>2, Elsewhere DEF Placement
  <1>8. /\ lstSocket' \in Seq(Socks) /\ IsInjective(lstSocket')
        /\ ToSet(lstSocket') = ToSet(lstSocket) \cup ToSet(list)
    <2>1. ToSet(lstSocket) \cap ToSet(list) = {}
      BY <1>3, <1>7
    <2> QED
      BY <1>1, <1>3, <1>4, <2>1, ConcatOnce
  <1>9. Moves("shared", w, M)
    BY <1>3, <1>4, <1>6, <1>7, <1>8 DEF Moves
  <1>10. PlacesOK' /\ Once'
    BY <1>4, <1>6, <1>8 DEF Placement, PlacesOK, Once
  <1> QED
    BY <1>9, <1>10, Transfer, Zenon DEF Placement

\* A worker takes what is shared.
LEMMA Got ==
  ASSUME Placement, NEW w \in Workers, lstSocket' = <<>>,
         lst_pending' = [lst_pending EXCEPT ![w] = @ \cup ToSet(lstSocket)],
         hand' = hand, lst_done' = lst_done, lstSvc' = lstSvc, lstSvcLow' = lstSvcLow,
         client' = client
  PROVE  Placement'
  <1> DEFINE M == ToSet(lstSocket)
  <1>1. /\ lst_pending \in [Workers -> SUBSET Socks] /\ lstSocket \in Seq(Socks)
    BY DEF Placement, PlacesOK
  <1>2. M \subseteq Socks
    BY <1>1 DEF ToSet
  <1>3. M = ToSet(lstSocket)
    OBVIOUS
  <1> HIDE DEF M
  <1>4. /\ lst_pending'[w] = lst_pending[w] \cup M
        /\ \A v \in Workers \ {w} : lst_pending'[v] = lst_pending[v]
        /\ lst_pending' \in [Workers -> SUBSET Socks]
    BY <1>1, <1>2, <1>3
  <1>5. ASSUME NEW s \in M
        PROVE  /\ s \notin ToSet(lstSvc) /\ s \notin ToSet(lstSvcLow)
               /\ \A v \in Workers : /\ s \notin lst_pending[v]
                                     /\ s \notin ToSet(lst_done[v])
                                     /\ s = hand[v] => s = None
               /\ s \in Conns => client[s] \notin {"new", "queued"}
    <2>1. s \in Socks /\ "shared" \in Places /\ Holds("shared", w, s)
      BY <1>2, <1>3, <1>5 DEF Places, Own, Holds
    <2>2. s \in Conns => client[s] \notin {"new", "queued"}
      BY <2>1, Zenon DEF Placement, Unborn
    <2> QED
      BY <2>1, <2>2, Elsewhere DEF Placement
  <1>6. <<>> \in Seq(Socks) /\ IsInjective(<<>>) /\ ToSet(<<>>) = {}
    BY DEF IsInjective, ToSet
  <1>7. Moves("pending", w, M)
    BY <1>4, <1>5, <1>6 DEF Moves
  <1>8. PlacesOK' /\ Once'
    BY <1>4, <1>6 DEF Placement, PlacesOK, Once
  <1> QED
    BY <1>7, <1>8, Transfer, Zenon DEF Placement

\* A completed socket becomes a job.
LEMMA Called ==
  ASSUME Placement, NEW w \in Workers, lst_done[w] # <<>>,
         lst_pending' = lst_pending,
         lst_done' = [lst_done EXCEPT ![w] = Tail(lst_done[w])],
         lstSvc' = Append(lstSvc, Head(lst_done[w])),
         hand' = hand, lstSvcLow' = lstSvcLow, lstSocket' = lstSocket, client' = client
  PROVE  Placement'
  <1> DEFINE rest == Tail(lst_done[w])
  <1>1. /\ lst_done \in [Workers -> Seq(Conns)] /\ lst_done[w] \in Seq(Conns)
        /\ IsInjective(lst_done[w]) /\ lstSvc \in Seq(Conns) /\ IsInjective(lstSvc)
    BY DEF Placement, PlacesOK, Once
  <1>2. PICK s \in Conns : s = Head(lst_done[w])
    BY <1>1, HeadOnce
  <1>3. /\ s \in ToSet(lst_done[w]) /\ rest \in Seq(Conns) /\ IsInjective(rest)
        /\ s \notin ToSet(rest) /\ ToSet(rest) \subseteq ToSet(lst_done[w])
    BY <1>1, <1>2, HeadOnce
  <1>4. lst_done' = [lst_done EXCEPT ![w] = rest]
    OBVIOUS
  <1> HIDE DEF rest
  <1>5. /\ lst_done'[w] = rest /\ \A v \in Workers \ {w} : lst_done'[v] = lst_done[v]
        /\ lst_done' \in [Workers -> Seq(Conns)]
    BY <1>1, <1>3, <1>4
  <1>6. s \in Socks /\ s # None /\ "done" \in Places /\ Holds("done", w, s)
    BY <1>3, NoneApart DEF Places, Own, Holds
  <1>7. /\ \A v \in Workers : /\ s \notin lst_pending[v] /\ s # hand[v]
                              /\ s \in ToSet(lst_done[v]) => v = w
        /\ s \notin ToSet(lstSvc) /\ s \notin ToSet(lstSvcLow) /\ s \notin ToSet(lstSocket)
    BY <1>6, Elsewhere DEF Placement
  <1>8. client[s] \notin {"new", "queued"}
    BY <1>6, Zenon DEF Placement, Unborn
  <1>9. /\ lstSvc' \in Seq(Conns) /\ IsInjective(lstSvc')
        /\ ToSet(lstSvc') = ToSet(lstSvc) \cup {s}
    BY <1>1, <1>2, <1>7, AppendOnce
  <1>10. Moves("svc", w, {s})
    BY <1>3, <1>5, <1>7, <1>8, <1>9 DEF Moves
  <1>11. PlacesOK' /\ Once'
    <2>1. \A v \in Workers : IsInjective(lst_done'[v])
      BY <1>3, <1>5, Zenon DEF Placement, Once
    <2> QED
      BY <1>5, <1>9, <2>1 DEF Placement, PlacesOK, Once
  <1> QED
    BY <1>10, <1>11, Transfer, Zenon DEF Placement

\* A listening socket, which stays, accepts the queued connections.
LEMMA AcceptedAll ==
  ASSUME Placement, NEW w \in Workers, NEW l \in lst_pending[w],
         NEW M \in SUBSET Conns, \A c \in M : client[c] = "queued",
         lst_pending' = [lst_pending EXCEPT ![w] = lst_pending[w] \cup {l}],
         lst_done' = [lst_done EXCEPT ![w] = lst_done[w] \o SetToSeq(M)],
         client' = [c \in Conns |-> IF c \in M THEN "open" ELSE client[c]],
         hand' = hand, lstSvc' = lstSvc, lstSvcLow' = lstSvcLow, lstSocket' = lstSocket
  PROVE  Placement'
  <1> DEFINE list == SetToSeq(M)
  <1>1. /\ lst_pending \in [Workers -> SUBSET Socks] /\ lst_pending[w] \in SUBSET Socks
        /\ lst_done \in [Workers -> Seq(Conns)] /\ lst_done[w] \in Seq(Conns)
        /\ IsInjective(lst_done[w])
    BY DEF Placement, PlacesOK, Once
  <1>2. M \subseteq Conns /\ \A c \in M : client[c] = "queued"
    OBVIOUS
  <1>3. IsFiniteSet(M)
    BY <1>2, SocketsAssumption, FS_Subset DEF Conns
  <1>4. /\ list \in Seq(Conns) /\ ToSet(list) \subseteq M /\ IsInjective(list)
    BY <1>2, <1>3, ListOnce, SeqMonotonic
  <1>5. lst_done' = [lst_done EXCEPT ![w] = lst_done[w] \o list]
    OBVIOUS
  <1> HIDE DEF list
  <1>6. ASSUME NEW s \in M
        PROVE  /\ s \notin ToSet(lstSvc) /\ s \notin ToSet(lstSvcLow) /\ s \notin ToSet(lstSocket)
               /\ \A v \in Workers : /\ s \notin lst_pending[v] /\ s \notin ToSet(lst_done[v])
                                     /\ s = hand[v] => s = None
    <2>1. \A p \in Places, v \in Workers : ~Holds(p, v, s)
      BY <1>2, <1>6, Zenon DEF Placement, Unborn
    <2>2. /\ "pending" \in Places /\ "hand" \in Places /\ "done" \in Places
          /\ "svc" \in Places /\ "low" \in Places /\ "shared" \in Places
      BY DEF Places, Own
    <2>3. ~Holds("svc", w, s) /\ ~Holds("low", w, s) /\ ~Holds("shared", w, s)
      BY <2>1, <2>2, Zenon
    <2>4. \A v \in Workers : ~Holds("pending", v, s) /\ ~Holds("hand", v, s) /\ ~Holds("done", v, s)
      BY <2>1, <2>2, Zenon
    <2> QED
      BY <2>3, <2>4 DEF Holds
  <1>7. /\ lst_done[w] \o list \in Seq(Conns) /\ IsInjective(lst_done[w] \o list)
        /\ ToSet(lst_done[w] \o list) = ToSet(lst_done[w]) \cup ToSet(list)
    <2>1. ToSet(lst_done[w]) \cap ToSet(list) = {}
      BY <1>4, <1>6
    <2> QED
      BY <1>1, <1>4, <2>1, ConcatOnce
  <1>8. /\ lst_done'[w] = lst_done[w] \o list
        /\ \A v \in Workers \ {w} : lst_done'[v] = lst_done[v]
        /\ lst_done' \in [Workers -> Seq(Conns)]
        /\ \A v \in Workers : lst_pending'[v] = lst_pending[v]
        /\ lst_pending' \in [Workers -> SUBSET Socks]
    BY <1>1, <1>5, <1>7
  <1>9. Moves("done", w, M)
    BY <1>2, <1>4, <1>6, <1>7, <1>8 DEF Moves
  <1>10. PlacesOK' /\ Once'
    <2>1. \A v \in Workers : IsInjective(lst_done'[v])
      BY <1>7, <1>8, Zenon DEF Placement, Once
    <2> QED
      BY <1>8, <2>1 DEF Placement, PlacesOK, Once
  <1> QED
    BY <1>9, <1>10, Transfer, Zenon DEF Placement

\* Sockets that tick() finds too old are completed.
LEMMA Completed ==
  ASSUME Placement, NEW w \in Workers, NEW M \in SUBSET (lst_pending[w] \cap Conns),
         lst_pending' = [lst_pending EXCEPT ![w] = @ \ M],
         lst_done' = [lst_done EXCEPT ![w] = @ \o SetToSeq(M)],
         hand' = hand, lstSvc' = lstSvc, lstSvcLow' = lstSvcLow, lstSocket' = lstSocket,
         client' = client
  PROVE  Placement'
  <1> DEFINE list == SetToSeq(M)
  <1>1. /\ lst_pending \in [Workers -> SUBSET Socks] /\ lst_pending[w] \in SUBSET Socks
        /\ lst_done \in [Workers -> Seq(Conns)] /\ lst_done[w] \in Seq(Conns)
        /\ IsInjective(lst_done[w])
    BY DEF Placement, PlacesOK, Once
  <1>2. IsFiniteSet(M)
    BY SocketsAssumption, FS_Subset DEF Conns
  <1>3. /\ list \in Seq(Conns) /\ ToSet(list) \subseteq M /\ IsInjective(list)
    BY <1>2, ListOnce, SeqMonotonic
  <1>4. lst_done' = [lst_done EXCEPT ![w] = lst_done[w] \o list]
    OBVIOUS
  <1> HIDE DEF list
  <1>5. ASSUME NEW s \in M
        PROVE  /\ s \notin ToSet(lstSvc) /\ s \notin ToSet(lstSvcLow)
               /\ s \notin ToSet(lstSocket)
               /\ \A v \in Workers : /\ s \in lst_pending[v] => v = w
                                     /\ s \notin ToSet(lst_done[v])
                                     /\ s = hand[v] => s = None
               /\ client[s] \notin {"new", "queued"}
    <2>1. s \in Conns /\ s \in Socks /\ "pending" \in Places /\ Holds("pending", w, s)
      BY <1>1, <1>5 DEF Places, Own, Holds
    <2>2. client[s] \notin {"new", "queued"}
      BY <2>1, Zenon DEF Placement, Unborn
    <2> QED
      BY <2>1, <2>2, Elsewhere DEF Placement
  <1>6. /\ lst_done[w] \o list \in Seq(Conns) /\ IsInjective(lst_done[w] \o list)
        /\ ToSet(lst_done[w] \o list) = ToSet(lst_done[w]) \cup ToSet(list)
    <2>1. ToSet(lst_done[w]) \cap ToSet(list) = {}
      BY <1>3, <1>5
    <2> QED
      BY <1>1, <1>3, <2>1, ConcatOnce
  <1>7. /\ lst_done'[w] = lst_done[w] \o list
        /\ \A v \in Workers \ {w} : lst_done'[v] = lst_done[v] /\ lst_pending'[v] = lst_pending[v]
        /\ lst_done' \in [Workers -> Seq(Conns)]
        /\ lst_pending'[w] = lst_pending[w] \ M
        /\ lst_pending' \in [Workers -> SUBSET Socks]
    BY <1>1, <1>4, <1>6
  <1>8. Moves("done", w, M)
    BY <1>3, <1>5, <1>6, <1>7 DEF Moves
  <1>9. PlacesOK' /\ Once'
    <2>1. \A v \in Workers : IsInjective(lst_done'[v])
      BY <1>6, <1>7, Zenon DEF Placement, Once
    <2> QED
      BY <1>7, <2>1 DEF Placement, PlacesOK, Once
  <1> QED
    BY <1>8, <1>9, Transfer, Zenon DEF Placement

\* A worker leaves, and what it holds is nowhere any more.
LEMMA Abandoned ==
  ASSUME Placement, NEW w \in Workers, Abandon(w)
  PROVE  Placement'
  <1>1. /\ lst_pending \in [Workers -> SUBSET Socks] /\ lst_done \in [Workers -> Seq(Conns)]
        /\ hand \in [Workers -> Conns \cup {None}]
    BY DEF Placement, PlacesOK
  <1>2. <<>> \in Seq(Conns) /\ IsInjective(<<>>) /\ ToSet(<<>>) = {}
    BY DEF IsInjective, ToSet
  <1>3. /\ hand' = [hand EXCEPT ![w] = None] /\ lst_pending' = [lst_pending EXCEPT ![w] = {}]
        /\ lst_done' = [lst_done EXCEPT ![w] = <<>>] /\ client' = client
        /\ lstSvc' = lstSvc /\ lstSvcLow' = lstSvcLow /\ lstSocket' = lstSocket
    BY DEF Abandon, queues, kernel
  <1>4. /\ hand'[w] = None /\ lst_pending'[w] = {} /\ lst_done'[w] = <<>>
        /\ \A v \in Workers \ {w} : /\ hand'[v] = hand[v] /\ lst_pending'[v] = lst_pending[v]
                                    /\ lst_done'[v] = lst_done[v]
        /\ lst_pending' \in [Workers -> SUBSET Socks] /\ lst_done' \in [Workers -> Seq(Conns)]
        /\ hand' \in [Workers -> Conns \cup {None}]
    BY <1>1, <1>2, <1>3
  <1>5. Moves("nowhere", w, {})
    BY <1>2, <1>3, <1>4 DEF Moves
  <1>6. PlacesOK' /\ Once'
    <2>1. \A v \in Workers : IsInjective(lst_done'[v])
      BY <1>2, <1>4, Zenon DEF Placement, Once
    <2> QED
      BY <1>3, <1>4, <2>1 DEF Placement, PlacesOK, Once
  <1> QED
    BY <1>5, <1>6, Transfer, Zenon DEF Placement

\* A worker lets go of the socket it serves.
LEMMA Emptied ==
  ASSUME Placement, NEW w \in Workers, hand' \in [Workers -> Conns \cup {None}],
         hand'[w] = None, \A v \in Workers \ {w} : hand'[v] = hand[v],
         lst_pending' = lst_pending, lst_done' = lst_done, lstSvc' = lstSvc,
         lstSvcLow' = lstSvcLow, lstSocket' = lstSocket, client' = client
  PROVE  Placement'
  <1>1. Moves("nowhere", w, {})
    BY DEF Moves
  <1>2. PlacesOK' /\ Once'
    BY DEF Placement, PlacesOK, Once
  <1> QED
    BY <1>1, <1>2, Transfer, Zenon DEF Placement

-----------------------------------------------------------------------------
(* Reading and writing.                                                    *)

LEMMA ReadEffect ==
  ASSUME ContentOK, NEW w \in Workers, NEW s \in Conns, NEW pend, NEW done,
         Read(w, s, pend, done)
  PROVE  /\ Accept(w, s, pend, done) \/ PushDone(w, s, pend, done)
         /\ state' \in [Socks -> States] /\ unread' \in [Conns -> BOOLEAN]
         /\ wr_buf' = wr_buf /\ client' = client /\ asked' = asked /\ full' = full
  <1>1. Accept(w, s, pend, done) \/ PushDone(w, s, pend, done)
    BY Zenon DEF Read
  <1>2. wr_buf' = wr_buf /\ client' = client /\ asked' = asked /\ full' = full
    BY Zenon DEF Read
  <1>3. \E v \in {"Reading", "PeerClosed", "Error"} : SetState(s, v)
    BY Zenon DEF Read
  <1>4. state' \in [Socks -> States]
    BY <1>3 DEF SetState, ContentOK, States
  <1>5. unread' = unread \/ unread' = [unread EXCEPT ![s] = FALSE]
    BY Zenon DEF Read
  <1>6. unread' \in [Conns -> BOOLEAN]
    BY <1>5 DEF ContentOK
  <1> QED
    BY <1>1, <1>2, <1>4, <1>6, Zenon

LEMMA WriteEffect ==
  ASSUME ContentOK, NEW w \in Workers, NEW s \in Conns,
         NEW buf \in {"nothing", "greeting", "reply"}, NEW pend, NEW done,
         Write(w, s, buf, pend, done)
  PROVE  /\ Accept(w, s, pend, done) \/ PushDone(w, s, pend, done)
         /\ state' \in [Socks -> States]
         /\ wr_buf' \in [Conns -> {"nothing", "greeting", "reply"}]
         /\ client' \in [Conns -> {"new", "queued", "open", "asking", "served", "gone"}]
         /\ \A c \in Conns : client'[c] \in {"new", "queued"} => client[c] \in {"new", "queued"}
         /\ full' \in [Conns -> BOOLEAN]
         /\ asked' = asked /\ unread' = unread
  <1>1. Accept(w, s, pend, done) \/ PushDone(w, s, pend, done)
    BY Zenon DEF Write
  <1>2. asked' = asked /\ unread' = unread
    BY Zenon DEF Write
  <1>3. \E v \in {"Writing", "Error"} : SetState(s, v)
    BY Zenon DEF Write
  <1>4. state' \in [Socks -> States]
    BY <1>3 DEF SetState, ContentOK, States
  <1>5. \/ wr_buf' = wr_buf
        \/ wr_buf' = [wr_buf EXCEPT ![s] = "nothing"]
        \/ wr_buf' = [wr_buf EXCEPT ![s] = buf]
    BY Zenon DEF Write
  <1>6. wr_buf' \in [Conns -> {"nothing", "greeting", "reply"}]
    BY <1>5 DEF ContentOK
  <1>7. full' = full \/ full' = [full EXCEPT ![s] = TRUE]
    BY Zenon DEF Write
  <1>8. full' \in [Conns -> BOOLEAN]
    BY <1>7 DEF ContentOK
  <1>9. client' = client
          \/ \E v \in {"open", "served", client[s]} : client' = [client EXCEPT ![s] = v]
    BY DEF Write, Served
  <1>10. /\ client' \in [Conns -> {"new", "queued", "open", "asking", "served", "gone"}]
         /\ \A c \in Conns : client'[c] \in {"new", "queued"} => client[c] \in {"new", "queued"}
    BY <1>9 DEF ContentOK
  <1> QED
    BY <1>1, <1>2, <1>4, <1>6, <1>8, <1>10, Zenon

-----------------------------------------------------------------------------
(* The registrations in the kernel.                                        *)

\* What is settled is registered when it is pending, and only then.
LEMMA SettledWatching ==
  ASSUME Watching, lst_pending \in [Workers -> SUBSET Socks], NEW w \in Workers,
         NEW s \in Socks, NEW pend \in SUBSET Socks, pend = lst_pending[w] \ {s}, NEW done,
         \/ Accept(w, s, pend, done)
         \/ PushDone(w, s, pend, done)
         \/ Release(w, s, pend, done),
         batch' \in [Workers -> SUBSET Socks], batch'[w] = batch[w] \ {s},
         \A v \in Workers \ {w} : batch'[v] = batch[v],
         pc' \in [Workers -> Points],
         \A v \in Workers : batch[v] # {} => pc'[v] = pc[v]
  PROVE  Watching'
  <1>1. /\ armed \in [Workers -> SUBSET Socks]
        /\ \A v \in Workers : lst_pending[v] = armed[v] \cup batch[v]
        /\ \A v \in Workers : batch[v] # {} => pc[v] = "perform"
    BY DEF Watching, Watched, Batches
  <1>2. /\ armed' \in [Workers -> SUBSET Socks]
        /\ \A v \in Workers \ {w} : armed'[v] = armed[v] /\ lst_pending'[v] = lst_pending[v]
        /\ \/ armed'[w] = armed[w] \cup {s} /\ lst_pending'[w] = pend \cup {s}
           \/ armed'[w] = armed[w] \ {s} /\ lst_pending'[w] = pend
    <2>1. CASE Accept(w, s, pend, done)
      BY <1>1, <2>1 DEF Accept
    <2>2. CASE PushDone(w, s, pend, done)
      BY <1>1, <2>2 DEF PushDone
    <2>3. CASE Release(w, s, pend, done)
      BY <1>1, <2>3 DEF Release
    <2> QED
      BY <2>1, <2>2, <2>3
  <1>3. lst_pending'[w] = armed'[w] \cup batch'[w]
    BY <1>1, <1>2
  <1>4. Watched'
    BY <1>1, <1>2, <1>3, Zenon DEF Watched
  <1>5. Batches'
    <2> SUFFICES ASSUME NEW v \in Workers, batch'[v] # {} PROVE pc'[v] = "perform"
      BY DEF Batches
    <2>1. batch[v] # {}
      BY <1>1
    <2> QED
      BY <1>1, <2>1
  <1> QED
    BY <1>2, <1>4, <1>5 DEF Watching

-----------------------------------------------------------------------------
(* The steps.                                                              *)

\* A worker that is not in perform() moves on.
LEMMA MovesOn ==
  ASSUME IInv, NEW w \in Workers, NEW l \in Points, pc[w] # "perform", Goto(w, l)
  PROVE  /\ pc' \in [Workers -> Points] /\ batch[w] = {}
         /\ \A v \in Workers : batch[v] # {} => pc'[v] = pc[v]
         /\ (\A v \in Workers \ {w} : hand'[v] = hand[v])
              /\ (l = "return" => hand'[w] \in Pipe \cup {None}) => Returned'
         /\ batch' = batch /\ armed' = armed /\ lst_pending' = lst_pending => Watching'
  <1>1. pc \in [Workers -> Points] /\ \A v \in Workers : batch[v] # {} => pc[v] = "perform"
    BY DEF IInv, Watching, Batches
  <1>2. /\ pc' \in [Workers -> Points] /\ pc'[w] = l
        /\ \A v \in Workers \ {w} : pc'[v] = pc[v]
    BY <1>1 DEF Goto
  <1>3. batch[w] = {} /\ \A v \in Workers : batch[v] # {} => pc'[v] = pc[v]
    BY <1>1, <1>2
  <1>4. ASSUME \A v \in Workers \ {w} : hand'[v] = hand[v],
               l = "return" => hand'[w] \in Pipe \cup {None}
        PROVE  Returned'
    <2> SUFFICES ASSUME NEW v \in Workers, pc'[v] = "return"
                 PROVE  hand'[v] \in Pipe \cup {None}
      BY DEF Returned
    <2>1. CASE v = w
      BY <1>2, <1>4, <2>1
    <2>2. CASE v # w
      BY <1>2, <1>4, <2>2 DEF IInv, Returned
    <2> QED
      BY <2>1, <2>2
  <1>5. ASSUME batch' = batch, armed' = armed, lst_pending' = lst_pending PROVE Watching'
    BY <1>1, <1>2, <1>3, <1>5 DEF IInv, Watching, Watched, Batches
  <1> QED
    BY <1>2, <1>3, <1>4, <1>5, Zenon

LEMMA AnswerStep ==
  ASSUME IInv, NEW w \in Workers, NEW s \in Conns, Answer(w, s),
         toRead_' \in [Pipe -> {0, -1, -4}]
  PROVE  IInv'
  <1>1. /\ pc[w] = "service" /\ hand[w] = s /\ hand' = [hand EXCEPT ![w] = None]
        /\ Write(w, s, "reply", lst_pending[w], lst_done[w]) /\ Goto(w, "return")
        /\ batch' = batch /\ lstSvc' = lstSvc /\ lstSvcLow' = lstSvcLow /\ lstSocket' = lstSocket
    BY DEF Answer, queues
  <1>2. /\ hand \in [Workers -> Conns \cup {None}] /\ lst_pending \in [Workers -> SUBSET Socks]
        /\ lst_done \in [Workers -> Seq(Conns)] /\ IsInjective(lst_done[w])
    BY DEF IInv, Placement, PlacesOK, Once
  <1>3. s \in Socks /\ s # None /\ "hand" \in Own /\ "hand" \in Places /\ Holds("hand", w, s)
    BY <1>1, NoneApart DEF Places, Own, Holds
  <1>4. s \notin lst_pending[w] /\ s \notin ToSet(lst_done[w])
    BY <1>3, Elsewhere DEF IInv, Placement
  <1>5. /\ lst_pending[w] \in SUBSET Socks /\ lst_pending[w] = lst_pending[w] \ {s}
        /\ lst_done[w] \in Seq(Conns) /\ ToSet(lst_done[w]) \subseteq ToSet(lst_done[w]) \ {s}
    BY <1>2, <1>4
  <1>6. hand'[w] = None /\ \A v \in Workers \ {w} : hand'[v] = hand[v]
    BY <1>1, <1>2
  <1>7. hand' \in [Workers -> Conns \cup {None}] /\ \A v \in Workers : hand'[v] \in {hand[v], None}
    BY <1>1, <1>2
  <1>8. /\ \/ Accept(w, s, lst_pending[w], lst_done[w])
           \/ PushDone(w, s, lst_pending[w], lst_done[w])
        /\ state' \in [Socks -> States]
        /\ wr_buf' \in [Conns -> {"nothing", "greeting", "reply"}]
        /\ client' \in [Conns -> {"new", "queued", "open", "asking", "served", "gone"}]
        /\ \A c \in Conns : client'[c] \in {"new", "queued"} => client[c] \in {"new", "queued"}
        /\ full' \in [Conns -> BOOLEAN]
        /\ asked' = asked /\ unread' = unread
    BY <1>1, WriteEffect, Zenon DEF IInv
  <1>9. Placement'
    BY <1>1, <1>2, <1>3, <1>5, <1>6, <1>7, <1>8, Settle DEF IInv
  <1>10. /\ pc' \in [Workers -> Points] /\ batch[w] = {}
         /\ \A v \in Workers : batch[v] # {} => pc'[v] = pc[v]
         /\ Returned'
    <2>1. "return" \in Points /\ pc[w] # "perform"
      BY <1>1 DEF Points
    <2> QED
      BY <1>1, <1>6, <2>1, MovesOn
  <1>11. Watching'
    <2>1. batch' \in [Workers -> SUBSET Socks] /\ batch'[w] = batch[w] \ {s}
      BY <1>1, <1>10 DEF IInv, Watching
    <2> QED
      BY <1>1, <1>2, <1>3, <1>5, <1>8, <1>10, <2>1, SettledWatching DEF IInv
  <1>12. ContentOK'
    BY <1>8 DEF IInv, ContentOK
  <1> QED
    BY <1>9, <1>10, <1>11, <1>12 DEF IInv

\* lp() settles the socket in front of lst_done.
LEMMA FrontSettled ==
  ASSUME IInv, NEW w \in Workers, pc[w] \in {"lp", "lp2"}, lst_done[w] # <<>>,
         NEW s, s = Head(lst_done[w]), NEW done, done = Tail(lst_done[w]),
         NEW pend, pend \in {lst_pending[w], lst_pending[w] \ {s}},
         \/ Accept(w, s, pend, done)
         \/ PushDone(w, s, pend, done)
         \/ Release(w, s, pend, done),
         pc' = pc, hand' = hand, batch' = batch,
         lstSvc' = lstSvc, lstSvcLow' = lstSvcLow, lstSocket' = lstSocket,
         \A c \in Conns : client'[c] \in {"new", "queued"} => client[c] \in {"new", "queued"}
  PROVE  Placement' /\ Returned' /\ Watching'
  <1>1. /\ hand \in [Workers -> Conns \cup {None}] /\ lst_pending \in [Workers -> SUBSET Socks]
        /\ lst_done \in [Workers -> Seq(Conns)] /\ lst_done[w] \in Seq(Conns)
        /\ IsInjective(lst_done[w])
    BY DEF IInv, Placement, PlacesOK, Once
  <1>2. /\ s \in Conns /\ done \in Seq(Conns) /\ s \in ToSet(lst_done[w])
        /\ ToSet(done) \subseteq ToSet(lst_done[w]) /\ IsInjective(done) /\ s \notin ToSet(done)
    BY <1>1, HeadOnce
  <1>3. s \in Socks /\ s # None /\ "done" \in Own /\ "done" \in Places /\ Holds("done", w, s)
    BY <1>2, NoneApart DEF Places, Own, Holds
  <1>4. s \notin lst_pending[w]
    BY <1>3, Elsewhere DEF IInv, Placement
  <1>5. /\ pend \in SUBSET Socks /\ pend = lst_pending[w] \ {s}
        /\ ToSet(done) \subseteq ToSet(lst_done[w]) \ {s}
    BY <1>1, <1>2, <1>4
  <1>6. Placement'
    <2>1. \A v \in Workers : hand'[v] \in {hand[v], None}
      OBVIOUS
    <2> QED
      BY <1>1, <1>2, <1>3, <1>5, <2>1, Settle DEF IInv
  <1>7. Returned'
    BY DEF IInv, Returned
  <1>8. Watching'
    <2>1. /\ batch \in [Workers -> SUBSET Socks] /\ pc \in [Workers -> Points]
          /\ batch[w] = {}
      BY DEF IInv, Watching, Batches
    <2>2. /\ batch' \in [Workers -> SUBSET Socks] /\ batch'[w] = batch[w] \ {s}
          /\ \A v \in Workers \ {w} : batch'[v] = batch[v]
          /\ pc' \in [Workers -> Points] /\ \A v \in Workers : batch[v] # {} => pc'[v] = pc[v]
      BY <2>1
    <2> QED
      BY <1>1, <1>3, <1>5, <2>2, SettledWatching DEF IInv
  <1> QED
    BY <1>6, <1>7, <1>8

LEMMA DispatchStep ==
  ASSUME IInv, NEW w \in Workers, Dispatch(w)
  PROVE  IInv'
  <1>1. /\ pc[w] \in {"lp", "lp2"} /\ lst_done[w] # <<>>
        /\ pc' = pc /\ hand' = hand /\ batch' = batch
        /\ lstSvcLow' = lstSvcLow /\ lstSocket' = lstSocket
    BY DEF Dispatch, thread
  <1>2. PICK s, done : /\ s = Head(lst_done[w]) /\ done = Tail(lst_done[w])
                       /\ \/ DoneConnected(w, s, done) \/ Greet(w, s, done)
                          \/ DoneReading(w, s, done) \/ SayHello(w, s, done)
                          \/ DoneWriting(w, s, done) \/ ReadOn(w, s, done)
                          \/ DoneClosed(w, s, done)
    BY Zenon DEF Dispatch
  <1>3. /\ lst_done \in [Workers -> Seq(Conns)] /\ lst_pending \in [Workers -> SUBSET Socks]
        /\ s \in Conns /\ s \in Socks /\ s \in ToSet(lst_done[w])
    BY <1>1, <1>2, HeadOnce, NoneApart DEF IInv, Placement, PlacesOK
  <1>4. ContentOK
    BY DEF IInv
  <1>5. ASSUME Read(w, s, lst_pending[w], done), toRead_' = toRead_, lstSvc' = lstSvc
        PROVE  IInv'
    <2>1. /\ \/ Accept(w, s, lst_pending[w], done)
             \/ PushDone(w, s, lst_pending[w], done)
          /\ state' \in [Socks -> States] /\ unread' \in [Conns -> BOOLEAN]
          /\ wr_buf' = wr_buf /\ client' = client /\ asked' = asked /\ full' = full
      BY <1>3, <1>4, <1>5, ReadEffect, Zenon
    <2>2. Placement' /\ Returned' /\ Watching'
      BY <1>1, <1>2, <1>5, <2>1, FrontSettled
    <2>3. ContentOK'
      BY <1>4, <1>5, <2>1 DEF ContentOK
    <2> QED
      BY <2>2, <2>3 DEF IInv
  <1>6. ASSUME NEW buf \in {"nothing", "greeting", "reply"},
               Write(w, s, buf, lst_pending[w], done), toRead_' = toRead_, lstSvc' = lstSvc
        PROVE  IInv'
    <2>1. /\ \/ Accept(w, s, lst_pending[w], done)
             \/ PushDone(w, s, lst_pending[w], done)
          /\ state' \in [Socks -> States]
          /\ wr_buf' \in [Conns -> {"nothing", "greeting", "reply"}]
          /\ client' \in [Conns -> {"new", "queued", "open", "asking", "served", "gone"}]
          /\ \A c \in Conns :
               client'[c] \in {"new", "queued"} => client[c] \in {"new", "queued"}
          /\ full' \in [Conns -> BOOLEAN]
          /\ asked' = asked /\ unread' = unread
      BY <1>3, <1>4, <1>6, WriteEffect, Zenon
    <2>2. Placement' /\ Returned' /\ Watching'
      BY <1>1, <1>2, <1>6, <2>1, FrontSettled
    <2>3. ContentOK'
      BY <1>4, <1>6, <2>1 DEF ContentOK
    <2> QED
      BY <2>2, <2>3 DEF IInv
  <1>7. ASSUME Drop(w, s, done), toRead_' \in [Pipe -> {0, -1, -4}]
        PROVE  IInv'
    <2>1. /\ Release(w, s, lst_pending[w] \ {s}, done)
          /\ wr_buf' = wr_buf /\ client' = client /\ asked' = asked
          /\ unread' = unread /\ full' = full /\ lstSvc' = lstSvc
      BY <1>7 DEF Drop, kernel
    <2>2. state' \in [Socks -> States]
      <3>1. state' = state \/ SetState(s, "closed")
        BY <1>7 DEF Drop
      <3> QED
        BY <1>4, <3>1 DEF ContentOK, SetState, States
    <2>3. Placement' /\ Returned' /\ Watching'
      BY <1>1, <1>2, <2>1, FrontSettled
    <2>4. ContentOK'
      BY <1>4, <1>7, <2>1, <2>2 DEF ContentOK
    <2> QED
      BY <2>3, <2>4 DEF IInv
  <1>8. CASE DoneConnected(w, s, done)
    BY <1>5, <1>8 DEF DoneConnected
  <1>9. CASE Greet(w, s, done)
    BY <1>6, <1>9 DEF Greet
  <1>10. CASE DoneReading(w, s, done)
    <2>1. /\ Release(w, s, lst_pending[w], done) /\ lstSvc' = Append(lstSvc, s)
          /\ state' = state /\ wr_buf' = wr_buf /\ toRead_' = toRead_ /\ client' = client
          /\ asked' = asked /\ unread' = unread /\ full' = full
      BY <1>10 DEF DoneReading, Call, kernel
    <2>2. /\ lst_pending' = lst_pending /\ lst_done' = [lst_done EXCEPT ![w] = done]
          /\ armed' = [armed EXCEPT ![w] = @ \ {s}]
      BY <1>3, <2>1 DEF Release
    <2>3. Placement'
      BY <1>1, <1>2, <2>1, <2>2, Called DEF IInv
    <2>4. Returned'
      BY <1>1 DEF IInv, Returned
    <2>5. s \notin lst_pending[w]
      <3>1. "done" \in Places /\ Holds("done", w, s)
        BY <1>3 DEF Places, Own, Holds
      <3> QED
        BY <1>3, <3>1, Elsewhere DEF IInv, Placement
    <2>6. Watching'
      <3>1. armed \in [Workers -> SUBSET Socks] /\ s \notin armed[w]
        BY <2>5 DEF IInv, Watching, Watched
      <3>2. armed' = armed
        BY <2>2, <3>1
      <3> QED
        BY <1>1, <2>2, <3>2 DEF IInv, Watching, Watched, Batches
    <2>7. ContentOK'
      BY <1>4, <2>1 DEF ContentOK
    <2> QED
      BY <2>3, <2>4, <2>6, <2>7 DEF IInv
  <1>11. CASE SayHello(w, s, done)
    BY <1>6, <1>11 DEF SayHello
  <1>12. CASE DoneWriting(w, s, done)
    <2>1. toRead_' \in [Pipe -> {0, -1, -4}]
      BY <1>4, <1>12 DEF ContentOK, DoneWriting
    <2> QED
      BY <1>7, <1>12, <2>1 DEF DoneWriting
  <1>13. CASE ReadOn(w, s, done)
    BY <1>5, <1>13 DEF ReadOn
  <1>14. CASE DoneClosed(w, s, done)
    BY <1>4, <1>7, <1>14 DEF DoneClosed, ContentOK
  <1> QED
    BY <1>2, <1>8, <1>9, <1>10, <1>11, <1>12, <1>13, <1>14

LEMMA EventStep ==
  ASSUME IInv, NEW w \in Workers, Event(w)
  PROVE  IInv'
  <1>1. /\ pc[w] = "perform" /\ pc' = pc /\ hand' = hand /\ toRead_' = toRead_
        /\ lstSvc' = lstSvc /\ lstSvcLow' = lstSvcLow /\ lstSocket' = lstSocket
    BY DEF Event, thread, queues
  <1>2. PICK s \in batch[w] \cap lst_pending[w] :
          /\ batch' = [batch EXCEPT ![w] = @ \ {s}]
          /\ \/ s \in Listeners /\ AcceptAll(w, s)
             \/ /\ s \in Conns /\ state[s] = "Reading"
                /\ Read(w, s, lst_pending[w] \ {s}, lst_done[w])
             \/ /\ s \in Conns /\ state[s] = "Writing"
                /\ Write(w, s, wr_buf[s], lst_pending[w] \ {s}, lst_done[w])
    BY Zenon DEF Event
  <1>3. /\ hand \in [Workers -> Conns \cup {None}] /\ lst_pending \in [Workers -> SUBSET Socks]
        /\ lst_done \in [Workers -> Seq(Conns)] /\ lst_done[w] \in Seq(Conns)
        /\ IsInjective(lst_done[w]) /\ s \in Socks /\ s \in lst_pending[w]
        /\ pc \in [Workers -> Points] /\ batch \in [Workers -> SUBSET Socks]
        /\ armed \in [Workers -> SUBSET Socks]
    BY <1>2 DEF IInv, Placement, PlacesOK, Once, Watching
  <1>4. ContentOK
    BY DEF IInv
  <1>5. Returned'
    BY <1>1 DEF IInv, Returned
  <1>6. /\ batch' \in [Workers -> SUBSET Socks] /\ batch'[w] = batch[w] \ {s}
        /\ \A v \in Workers \ {w} : batch'[v] = batch[v]
    BY <1>2, <1>3
  <1>7. ASSUME s \in Conns,
               \/ Accept(w, s, lst_pending[w] \ {s}, lst_done[w])
               \/ PushDone(w, s, lst_pending[w] \ {s}, lst_done[w]),
               \A c \in Conns :
                 client'[c] \in {"new", "queued"} => client[c] \in {"new", "queued"}
        PROVE  Placement' /\ Watching'
    <2>1. "pending" \in Own /\ "pending" \in Places /\ Holds("pending", w, s)
      BY <1>3 DEF Own, Places, Holds
    <2>2. /\ s \notin ToSet(lst_done[w]) /\ ToSet(lst_done[w]) \subseteq ToSet(lst_done[w]) \ {s}
      BY <1>3, <2>1, Elsewhere DEF IInv, Placement
    <2>3. lst_pending[w] \ {s} \in SUBSET Socks /\ \A v \in Workers : hand'[v] \in {hand[v], None}
      BY <1>1, <1>3
    <2>4. Placement'
      BY <1>1, <1>3, <1>7, <2>1, <2>2, <2>3, Settle DEF IInv
    <2>5. Watching'
      BY <1>1, <1>3, <1>6, <1>7, <2>3, SettledWatching DEF IInv
    <2> QED
      BY <2>4, <2>5
  <1>8. CASE s \in Listeners /\ AcceptAll(w, s)
    <2>1. PICK M \in SUBSET Conns :
            /\ \A c \in M : client[c] = "queued"
            /\ Accepted(M)
            /\ client' = [c \in Conns |-> IF c \in M THEN "open" ELSE client[c]]
            /\ Accept(w, s, lst_pending[w], lst_done[w] \o SetToSeq(M))
            /\ wr_buf' = wr_buf /\ asked' = asked /\ unread' = unread /\ full' = full
      <3> DEFINE queued == {c \in Clients(s) : client[c] = "queued"}
      <3>1. Clients(s) \subseteq Conns
        BY <1>8 DEF Listeners, Clients, Conns
      <3>2. queued \in SUBSET Conns /\ \A c \in queued : client[c] = "queued"
        BY <3>1
      <3> QED
        BY <1>8, <3>2 DEF AcceptAll
    <2>2. /\ lst_pending' = [lst_pending EXCEPT ![w] = lst_pending[w] \cup {s}]
          /\ lst_done' = [lst_done EXCEPT ![w] = lst_done[w] \o SetToSeq(M)]
          /\ armed' = [armed EXCEPT ![w] = armed[w] \cup {s}]
      BY <2>1 DEF Accept
    <2>3. Placement'
      BY <1>1, <1>3, <2>1, <2>2, AcceptedAll DEF IInv
    <2>4. Watching'
      <3>1. /\ armed'[w] = armed[w] \cup {s} /\ armed' \in [Workers -> SUBSET Socks]
            /\ \A v \in Workers \ {w} : armed'[v] = armed[v] /\ lst_pending'[v] = lst_pending[v]
            /\ lst_pending'[w] = lst_pending[w] \cup {s}
        BY <1>3, <2>2
      <3>2. Watched'
        BY <1>3, <1>6, <3>1 DEF IInv, Watching, Watched
      <3>3. Batches'
        BY <1>1, <1>6 DEF IInv, Watching, Batches
      <3> QED
        BY <1>1, <1>3, <1>6, <3>1, <3>2, <3>3 DEF Watching
    <2>5. ContentOK'
      <3>1. state' \in [Socks -> States]
        BY <1>4, <2>1 DEF ContentOK, Accepted, States
      <3>2. client' \in [Conns -> {"new", "queued", "open", "asking", "served", "gone"}]
        BY <1>4, <2>1 DEF ContentOK
      <3> QED
        BY <1>1, <1>4, <2>1, <3>1, <3>2 DEF ContentOK
    <2> QED
      BY <1>5, <2>3, <2>4, <2>5 DEF IInv
  <1>9. CASE s \in Conns /\ Read(w, s, lst_pending[w] \ {s}, lst_done[w])
    <2>1. /\ \/ Accept(w, s, lst_pending[w] \ {s}, lst_done[w])
             \/ PushDone(w, s, lst_pending[w] \ {s}, lst_done[w])
          /\ state' \in [Socks -> States] /\ unread' \in [Conns -> BOOLEAN]
          /\ wr_buf' = wr_buf /\ client' = client /\ asked' = asked /\ full' = full
      BY <1>4, <1>9, ReadEffect, Zenon
    <2>2. Placement' /\ Watching'
      BY <1>7, <1>9, <2>1
    <2>3. ContentOK'
      BY <1>1, <1>4, <2>1 DEF ContentOK
    <2> QED
      BY <1>5, <2>2, <2>3 DEF IInv
  <1>10. CASE s \in Conns /\ Write(w, s, wr_buf[s], lst_pending[w] \ {s}, lst_done[w])
    <2>1. PICK buf \in {"nothing", "greeting", "reply"} : buf = wr_buf[s]
      BY <1>4, <1>10 DEF ContentOK
    <2>2. /\ \/ Accept(w, s, lst_pending[w] \ {s}, lst_done[w])
             \/ PushDone(w, s, lst_pending[w] \ {s}, lst_done[w])
          /\ state' \in [Socks -> States]
          /\ wr_buf' \in [Conns -> {"nothing", "greeting", "reply"}]
          /\ client' \in [Conns -> {"new", "queued", "open", "asking", "served", "gone"}]
          /\ \A c \in Conns :
               client'[c] \in {"new", "queued"} => client[c] \in {"new", "queued"}
          /\ full' \in [Conns -> BOOLEAN]
          /\ asked' = asked /\ unread' = unread
      <3>1. Write(w, s, buf, lst_pending[w] \ {s}, lst_done[w])
        BY <1>10, <2>1
      <3> QED
        BY <1>4, <1>10, <3>1, WriteEffect, Zenon
    <2>3. Placement' /\ Watching'
      BY <1>7, <1>10, <2>2
    <2>4. ContentOK'
      BY <1>1, <1>4, <2>2 DEF ContentOK
    <2> QED
      BY <1>5, <2>3, <2>4 DEF IInv
  <1> QED
    BY <1>2, <1>8, <1>9, <1>10, Zenon

\* What a worker takes from the queues.
LEMMA TakeStep ==
  ASSUME IInv, NEW w \in Workers, TakeJob(w) \/ TakeLow(w) \/ NoMore(w)
  PROVE  IInv'
  <1>1. /\ pc[w] = "take" /\ "service" \in Points /\ "get" \in Points
        /\ hand \in [Workers -> Conns \cup {None}]
    BY DEF TakeJob, TakeLow, NoMore, Points, IInv, Placement, PlacesOK
  <1>2. CASE TakeJob(w)
    <2>1. Placement'
      BY <1>2, JobTaken DEF IInv, TakeJob, epoll, kernel
    <2>2. Returned' /\ Watching'
      <3>1. \A v \in Workers \ {w} : hand'[v] = hand[v]
        BY <1>1, <1>2 DEF TakeJob
      <3> QED
        BY <1>1, <1>2, <3>1, MovesOn DEF TakeJob, epoll
    <2>3. ContentOK'
      BY <1>2 DEF IInv, TakeJob, content, kernel, ContentOK
    <2> QED
      BY <2>1, <2>2, <2>3 DEF IInv
  <1>3. CASE TakeLow(w)
    <2>1. Placement'
      BY <1>3, LowTaken DEF IInv, TakeLow, epoll, kernel
    <2>2. Returned' /\ Watching'
      <3>1. \A v \in Workers \ {w} : hand'[v] = hand[v]
        BY <1>1, <1>3 DEF TakeLow
      <3> QED
        BY <1>1, <1>3, <3>1, MovesOn DEF TakeLow, epoll
    <2>3. ContentOK'
      BY <1>3 DEF IInv, TakeLow, content, kernel, ContentOK
    <2> QED
      BY <2>1, <2>2, <2>3 DEF IInv
  <1>4. CASE NoMore(w)
    <2>1. Placement'
      BY <1>4, Settled DEF IInv, NoMore, epoll, queues, kernel
    <2>2. Returned' /\ Watching'
      BY <1>1, <1>4, MovesOn DEF NoMore, epoll
    <2>3. ContentOK'
      BY <1>4 DEF IInv, NoMore, content, kernel, ContentOK
    <2> QED
      BY <2>1, <2>2, <2>3 DEF IInv
  <1> QED
    BY <1>2, <1>3, <1>4

\* service() and what becomes of the socket it returns.
LEMMA ServiceStep ==
  ASSUME IInv, NEW w \in Workers,
         Execute(w) \/ ShutDown(w) \/ Perform(w) \/ Prepare(w) \/ Requeue(w)
  PROVE  IInv'
  <1>1. CASE Execute(w)
    <2>1. PICK s \in Conns : Answer(w, s)
      BY <1>1 DEF Execute, Conns
    <2> QED
      BY <1>1, <2>1, AnswerStep DEF Execute, IInv, ContentOK
  <1>2. CASE Perform(w)
    <2>1. PICK s \in Pipe : toRead_' = [toRead_ EXCEPT ![s] = -4] /\ Answer(w, s)
      BY <1>2 DEF Perform
    <2>2. toRead_' \in [Pipe -> {0, -1, -4}] /\ s \in Conns
      BY <2>1, NoneApart DEF IInv, ContentOK
    <2> QED
      BY <2>1, <2>2, AnswerStep
  <1>3. CASE Prepare(w)
    <2>1. PICK s \in Pipe : hand[w] = s /\ toRead_' = [toRead_ EXCEPT ![s] = -1]
      BY <1>3 DEF Prepare
    <2>2. Placement'
      BY <1>3, Settled DEF IInv, Prepare, epoll, queues, kernel
    <2>3. Returned' /\ Watching'
      <3>1. "return" \in Points /\ pc[w] # "perform"
        BY <1>3 DEF Prepare, Points
      <3> QED
        BY <1>3, <2>1, <3>1, MovesOn DEF Prepare, epoll
    <2>4. ContentOK'
      BY <1>3, <2>1 DEF IInv, Prepare, kernel, ContentOK
    <2> QED
      BY <2>2, <2>3, <2>4 DEF IInv
  <1>4. CASE Requeue(w)
    <2>1. hand[w] \in Pipe /\ pc[w] # "perform" /\ "take" \in Points
      BY <1>4 DEF Requeue, IInv, Returned, Points
    <2>2. Placement'
      BY <1>4, <2>1, PutBack DEF IInv, Requeue, epoll, kernel
    <2>3. Returned' /\ Watching'
      <3>1. \A v \in Workers \ {w} : hand'[v] = hand[v]
        BY <1>4 DEF Requeue, IInv, Placement, PlacesOK
      <3> QED
        BY <1>4, <2>1, <3>1, MovesOn DEF Requeue, epoll
    <2>4. ContentOK'
      BY <1>4 DEF IInv, Requeue, content, kernel, ContentOK
    <2> QED
      BY <2>2, <2>3, <2>4 DEF IInv
  <1>5. CASE ShutDown(w)
    <2>1. /\ pc[w] = "service" /\ Goto(w, "return") /\ hand' = [hand EXCEPT ![w] = None]
          /\ lst_pending' = lst_pending /\ lst_done' = lst_done /\ armed' = armed
          /\ batch' = batch /\ lstSvc' = lstSvc /\ lstSvcLow' = lstSvcLow
          /\ lstSocket' = lstSocket /\ wr_buf' = wr_buf /\ toRead_' = toRead_
          /\ client' = client /\ asked' = asked /\ unread' = unread /\ full' = full
          /\ \E s : SetState(s, "closed")
      BY <1>5, Zenon DEF ShutDown, epoll, queues, kernel
    <2>2. /\ hand \in [Workers -> Conns \cup {None}]
          /\ state \in [Socks -> States] /\ ContentOK
      BY DEF IInv, Placement, PlacesOK, ContentOK
    <2>3. /\ hand'[w] = None /\ hand' \in [Workers -> Conns \cup {None}]
          /\ \A v \in Workers \ {w} : hand'[v] = hand[v]
      BY <2>1, <2>2
    <2>4. Placement'
      BY <2>1, <2>3, Emptied DEF IInv
    <2>5. Returned' /\ Watching'
      <3>1. "return" \in Points /\ pc[w] # "perform"
        BY <2>1 DEF Points
      <3> QED
        BY <2>1, <2>3, <3>1, MovesOn
    <2>6. ContentOK'
      <3>1. state' \in [Socks -> States]
        BY <2>1, <2>2 DEF SetState, States
      <3> QED
        BY ONLY <2>1, <2>2, <3>1 DEF ContentOK
    <2> QED
      BY <2>4, <2>5, <2>6 DEF IInv
  <1> QED
    BY <1>1, <1>2, <1>3, <1>4, <1>5

\* Sharing what is pending, and taking what others share.
LEMMA ShareStep ==
  ASSUME IInv, NEW w \in Workers, PutServed(w) \/ PutAll(w) \/ Get(w)
  PROVE  IInv'
  <1>1. /\ lst_pending \in [Workers -> SUBSET Socks] /\ armed \in [Workers -> SUBSET Socks]
        /\ \A v \in Workers : lst_pending[v] = armed[v] \cup batch[v]
        /\ ContentOK /\ Placement /\ batch \in [Workers -> SUBSET Socks]
    BY DEF IInv, Placement, PlacesOK, Watching, Watched
  <1>2. PICK l \in {"take", "check", "lp"} : Goto(w, l)
    BY DEF PutServed, PutAll, Get
  <1>3. /\ pc[w] # "perform" /\ l \in Points /\ l # "return"
        /\ hand' = hand /\ batch' = batch /\ client' = client
        /\ lstSvc' = lstSvc /\ lstSvcLow' = lstSvcLow /\ lst_done' = lst_done
    BY <1>2 DEF PutServed, PutAll, Get, Put, Points, queues, kernel
  <1>4. ContentOK'
    BY <1>1 DEF PutServed, PutAll, Get, content, kernel, ContentOK
  <1>5. /\ pc' \in [Workers -> Points] /\ batch[w] = {}
        /\ \A v \in Workers : batch[v] # {} => pc'[v] = pc[v]
        /\ Returned'
    <2>1. \A v \in Workers \ {w} : hand'[v] = hand[v]
      BY <1>3
    <2> QED
      BY <1>2, <1>3, <2>1, MovesOn
  <1>6. Placement'
    <2>1. CASE Put(w)
      BY <1>1, <1>3, <2>1, Shared
    <2>2. CASE Get(w)
      BY <1>1, <1>3, <2>2, Got DEF Get
    <2> QED
      BY <2>1, <2>2 DEF PutServed, PutAll
  <1>7. /\ armed' \in [Workers -> SUBSET Socks]
        /\ \A v \in Workers \ {w} : armed'[v] = armed[v] /\ lst_pending'[v] = lst_pending[v]
        /\ armed'[w] = lst_pending'[w]
    <2>1. armed[w] = lst_pending[w]
      BY <1>1, <1>5
    <2>2. CASE Put(w)
      BY <1>1, <2>1, <2>2 DEF Put
    <2>3. CASE Get(w)
      <3>1. lstSocket \in Seq(Socks)
        BY <1>1 DEF Placement, PlacesOK
      <3>2. ToSet(lstSocket) \subseteq Socks
        BY <3>1 DEF ToSet
      <3>3. PICK A \in SUBSET Socks : A = ToSet(lstSocket)
        BY <3>2
      <3> QED
        BY <1>1, <2>1, <2>3, <3>3 DEF Get
    <2> QED
      BY <2>2, <2>3 DEF PutServed, PutAll
  <1>8. Watching'
    <2>1. Watched'
      BY <1>1, <1>3, <1>5, <1>7 DEF Watched
    <2>2. Batches'
      BY <1>3, <1>5 DEF IInv, Watching, Batches
    <2> QED
      BY <1>1, <1>3, <1>5, <1>7, <2>1, <2>2 DEF Watching
  <1> QED
    BY <1>4, <1>5, <1>6, <1>8 DEF IInv

\* epoll_wait reports and disarms.
LEMMA WaitStep ==
  ASSUME IInv, NEW w \in Workers, EpollWait(w)
  PROVE  IInv'
  <1>1. /\ lst_pending \in [Workers -> SUBSET Socks] /\ armed \in [Workers -> SUBSET Socks]
        /\ \A v \in Workers : lst_pending[v] = armed[v] \cup batch[v]
        /\ \A v \in Workers : batch[v] # {} => pc[v] = "perform"
        /\ batch \in [Workers -> SUBSET Socks] /\ ContentOK /\ Placement
        /\ pc \in [Workers -> Points]
    BY DEF IInv, Placement, PlacesOK, Watching, Watched, Batches
  <1>2. PICK R \in SUBSET armed[w] : /\ batch' = [batch EXCEPT ![w] = R]
                                     /\ armed' = [armed EXCEPT ![w] = armed[w] \ R]
    <2> DEFINE reported == {s \in armed[w] : Ready(s)}
    <2>1. reported \in SUBSET armed[w]
      OBVIOUS
    <2>2. batch' = [batch EXCEPT ![w] = reported] /\ armed' = [armed EXCEPT ![w] = @ \ reported]
      BY Zenon DEF EpollWait
    <2> HIDE DEF reported
    <2> QED
      BY <2>1, <2>2
  <1>3. /\ pc[w] = "wait" /\ pc' = [pc EXCEPT ![w] = "perform"] /\ hand' = hand
        /\ lst_pending' = lst_pending /\ lst_done' = lst_done /\ lstSocket' = lstSocket
        /\ lstSvc' = lstSvc /\ lstSvcLow' = lstSvcLow /\ client' = client
    BY Zenon DEF EpollWait, Goto, queues, kernel
  <1>4. Placement'
    BY <1>1, <1>3, Settled
  <1>5. /\ batch[w] = {} /\ batch'[w] = R /\ armed'[w] = armed[w] \ R
        /\ \A v \in Workers \ {w} : batch'[v] = batch[v] /\ armed'[v] = armed[v]
        /\ batch' \in [Workers -> SUBSET Socks] /\ armed' \in [Workers -> SUBSET Socks]
        /\ pc'[w] = "perform" /\ \A v \in Workers \ {w} : pc'[v] = pc[v]
        /\ pc' \in [Workers -> Points]
    BY <1>1, <1>2, <1>3 DEF Points
  <1>6. Watching'
    <2>1. lst_pending[w] = armed'[w] \cup batch'[w]
      BY <1>1, <1>5
    <2>2. Watched'
      BY <1>1, <1>3, <1>5, <2>1 DEF Watched
    <2>3. Batches'
      BY <1>1, <1>5 DEF Batches
    <2> QED
      BY <1>5, <2>2, <2>3 DEF Watching
  <1>7. Returned'
    BY <1>3, <1>5 DEF IInv, Returned
  <1>8. ContentOK'
    BY <1>1 DEF EpollWait, content, kernel, ContentOK
  <1> QED
    BY <1>4, <1>6, <1>7, <1>8 DEF IInv

LEMMA TickStep ==
  ASSUME IInv, NEW w \in Workers, Tick(w)
  PROVE  IInv'
  <1>1. /\ lst_pending \in [Workers -> SUBSET Socks] /\ armed \in [Workers -> SUBSET Socks]
        /\ \A v \in Workers : lst_pending[v] = armed[v] \cup batch[v]
        /\ \A v \in Workers : batch[v] # {} => pc[v] = "perform"
        /\ batch \in [Workers -> SUBSET Socks] /\ ContentOK /\ Placement
        /\ pc \in [Workers -> Points]
    BY DEF IInv, Placement, PlacesOK, Watching, Watched, Batches
  <1>2. PICK M \in SUBSET MayBeOld(w) :
          /\ lst_pending' = [lst_pending EXCEPT ![w] = @ \ M]
          /\ armed' = [armed EXCEPT ![w] = @ \ M]
          /\ lst_done' = [lst_done EXCEPT ![w] = @ \o SetToSeq(M)]
    BY Zenon DEF Tick
  <1>3. M \in SUBSET (lst_pending[w] \cap Conns)
    BY <1>2 DEF MayBeOld, Conns
  <1>4. /\ batch[w] = {} /\ batch' = batch /\ pc' = [pc EXCEPT ![w] = "lp2"] /\ hand' = hand
        /\ lstSocket' = lstSocket /\ lstSvc' = lstSvc /\ lstSvcLow' = lstSvcLow
        /\ client' = client
    BY Zenon DEF Tick, Goto, queues, kernel
  <1>5. Placement'
    BY <1>1, <1>2, <1>3, <1>4, Completed
  <1>6. /\ armed'[w] = armed[w] \ M /\ lst_pending'[w] = lst_pending[w] \ M
        /\ \A v \in Workers \ {w} : armed'[v] = armed[v] /\ lst_pending'[v] = lst_pending[v]
        /\ armed' \in [Workers -> SUBSET Socks]
        /\ pc'[w] = "lp2" /\ \A v \in Workers \ {w} : pc'[v] = pc[v]
        /\ pc' \in [Workers -> Points]
    BY <1>1, <1>2, <1>4 DEF Points
  <1>7. Watching'
    <2>1. lst_pending'[w] = armed'[w] \cup batch'[w]
      BY <1>1, <1>4, <1>6
    <2>2. Watched'
      BY <1>1, <1>4, <1>6, <2>1 DEF Watched
    <2>3. Batches'
      BY <1>1, <1>4, <1>6 DEF Batches
    <2> QED
      BY <1>1, <1>4, <1>6, <2>2, <2>3 DEF Watching
  <1>8. Returned'
    BY <1>4, <1>6 DEF IInv, Returned
  <1>9. ContentOK'
    BY <1>1 DEF Tick, content, kernel, ContentOK
  <1> QED
    BY <1>5, <1>7, <1>8, <1>9 DEF IInv

\* A worker stays, or leaves with all it holds.
LEMMA LeaveStep ==
  ASSUME IInv, NEW w \in Workers, LpEnd(w) \/ Stay(w) \/ Retire(w) \/ Panic(w)
  PROVE  IInv'
  <1>1. CASE LpEnd(w) \/ Stay(w)
    <2>1. PICK l \in {"wait", "put", "take"} : Goto(w, l)
      BY <1>1 DEF LpEnd, Stay
    <2>2. /\ hand' = hand /\ lst_pending' = lst_pending /\ lst_done' = lst_done
          /\ armed' = armed /\ batch' = batch /\ lstSvc' = lstSvc /\ lstSvcLow' = lstSvcLow
          /\ lstSocket' = lstSocket /\ client' = client
          /\ pc[w] # "perform" /\ l \in Points /\ l # "return"
      BY <1>1, <2>1 DEF LpEnd, Stay, Points, epoll, queues, kernel
    <2>3. Placement'
      BY <2>2, Settled DEF IInv
    <2>4. Returned' /\ Watching'
      BY <2>1, <2>2, MovesOn
    <2>5. ContentOK'
      BY <1>1 DEF LpEnd, Stay, IInv, content, kernel, ContentOK
    <2> QED
      BY <2>3, <2>4, <2>5 DEF IInv
  <1>2. CASE Abandon(w) /\ pc[w] \in {"check", "service"}
    <2>1. Placement'
      BY <1>2, Abandoned DEF IInv
    <2>2. /\ Goto(w, "gone") /\ pc[w] # "perform" /\ "gone" \in Points /\ batch' = batch
          /\ hand' = [hand EXCEPT ![w] = None]
          /\ lst_pending' = [lst_pending EXCEPT ![w] = {}]
          /\ armed' = [armed EXCEPT ![w] = {}]
      BY <1>2 DEF Abandon, Points
    <2>3. /\ lst_pending \in [Workers -> SUBSET Socks] /\ armed \in [Workers -> SUBSET Socks]
          /\ \A v \in Workers : lst_pending[v] = armed[v] \cup batch[v]
          /\ batch \in [Workers -> SUBSET Socks] /\ hand \in [Workers -> Conns \cup {None}]
          /\ \A v \in Workers : batch[v] # {} => pc[v] = "perform"
      BY DEF IInv, Placement, PlacesOK, Watching, Watched, Batches
    <2>4. \A v \in Workers \ {w} : hand'[v] = hand[v]
      BY <2>2, <2>3
    <2>5. /\ pc' \in [Workers -> Points] /\ batch[w] = {}
          /\ \A v \in Workers : batch[v] # {} => pc'[v] = pc[v]
          /\ Returned'
      BY <2>2, <2>4, MovesOn
    <2>6. /\ armed'[w] = {} /\ lst_pending'[w] = {} /\ armed' \in [Workers -> SUBSET Socks]
          /\ \A v \in Workers \ {w} : armed'[v] = armed[v] /\ lst_pending'[v] = lst_pending[v]
      BY <2>2, <2>3
    <2>7. Watching'
      <3>1. Watched'
        BY <2>2, <2>3, <2>5, <2>6 DEF Watched
      <3>2. Batches'
        BY <2>2, <2>3, <2>5 DEF Batches
      <3> QED
        BY <2>2, <2>3, <2>5, <2>6, <3>1, <3>2 DEF Watching
    <2>8. ContentOK'
      <3>1. state' = [s \in Socks |->
               IF /\ s \in lst_pending[w] \cup ToSet(lst_done[w]) \cup {hand[w]}
                  /\ s \notin Pipe
               THEN "closed" ELSE state[s]]
        BY <1>2, Zenon DEF Abandon
      <3>2. state' \in [Socks -> States]
        BY <3>1 DEF IInv, ContentOK, States
      <3> QED
        BY <1>2, <3>2 DEF Abandon, IInv, kernel, ContentOK
    <2> QED
      BY <2>1, <2>5, <2>7, <2>8 DEF IInv
  <1> QED
    BY <1>1, <1>2 DEF Retire, Panic

\* The clients and the kernel.
LEMMA ClientStep ==
  ASSUME IInv, NEW c \in Conns, Connect(c) \/ Ask(c) \/ Hangup(c) \/ Drain(c)
  PROVE  IInv'
  <1>1. /\ pc' = pc /\ hand' = hand /\ lst_pending' = lst_pending /\ lst_done' = lst_done
        /\ armed' = armed /\ batch' = batch /\ lstSvc' = lstSvc /\ lstSvcLow' = lstSvcLow
        /\ lstSocket' = lstSocket /\ state' = state /\ wr_buf' = wr_buf /\ toRead_' = toRead_
    BY DEF Connect, Ask, Hangup, Drain, thread, epoll, queues, content
  <1>2. \/ client' = client
        \/ client[c] = "new" /\ client' = [client EXCEPT ![c] = "queued"]
        \/ client' = [client EXCEPT ![c] = "asking"]
        \/ client' = [client EXCEPT ![c] = "gone"]
    BY DEF Connect, Ask, Hangup, Drain
  <1>3. ContentOK
    BY DEF IInv
  <1>4. /\ \A d \in Conns : client'[d] \in {"new", "queued"} => client[d] \in {"new", "queued"}
        /\ client' \in [Conns -> {"new", "queued", "open", "asking", "served", "gone"}]
    BY <1>2, <1>3 DEF ContentOK
  <1>5. Placement'
    BY <1>1, <1>4, Settled DEF IInv
  <1>6. Returned' /\ Watching'
    BY <1>1 DEF IInv, Returned, Watching, Watched, Batches
  <1>7. asked' \in [Conns -> 0..MaxAsked]
    <2>1. CASE Ask(c)
      <3>1. PICK n \in 0..MaxAsked : n = asked[c] + 1
        BY <1>3, <2>1, SocketsAssumption DEF Ask, ContentOK
      <3>2. asked' = [asked EXCEPT ![c] = n]
        BY <2>1, <3>1 DEF Ask
      <3> QED
        BY <1>3, <3>2 DEF ContentOK
    <2>2. CASE asked' = asked
      BY <1>3, <2>2 DEF ContentOK
    <2> QED
      BY <2>1, <2>2 DEF Connect, Hangup, Drain
  <1>8. unread' \in [Conns -> BOOLEAN]
    <2>1. \/ unread' = unread
          \/ unread' = [unread EXCEPT ![c] = TRUE]
          \/ unread' = [unread EXCEPT ![c] = FALSE]
      BY DEF Connect, Ask, Hangup, Drain
    <2> QED
      BY <1>3, <2>1 DEF ContentOK
  <1>9. full' \in [Conns -> BOOLEAN]
    <2>1. full' = full \/ full' = [full EXCEPT ![c] = FALSE]
      BY DEF Connect, Ask, Hangup, Drain
    <2> QED
      BY <1>3, <2>1 DEF ContentOK
  <1>10. ContentOK'
    BY <1>1, <1>3, <1>4, <1>7, <1>8, <1>9 DEF ContentOK
  <1> QED
    BY <1>5, <1>6, <1>10 DEF IInv

-----------------------------------------------------------------------------
(* The invariant holds.                                                    *)

LEMMA InitIInv == Init => IInv
  <1> SUFFICES ASSUME Init PROVE IInv
    OBVIOUS
  <1>1. PICK first \in Workers :
          lst_pending = [w \in Workers |-> IF w = first THEN Listeners ELSE {}]
    BY DEF Init
  <1>2. /\ pc = [w \in Workers |-> "take"] /\ hand = [w \in Workers |-> None]
        /\ armed = lst_pending /\ lst_done = [w \in Workers |-> <<>>]
        /\ batch = [w \in Workers |-> {}]
        /\ lstSvc = <<>> /\ lstSvcLow = <<>> /\ lstSocket = <<>>
    BY Zenon DEF Init
  <1>3. ToSet(<<>>) = {} /\ IsInjective(<<>>)
    BY DEF ToSet, IsInjective
  <1>4. Listeners \subseteq Socks /\ Conns \cap Listeners = {}
    BY SocketsAssumption DEF Conns, Socks, Listeners
  <1>5. PlacesOK /\ Once
    <2>1. lst_pending \in [Workers -> SUBSET Socks] /\ lst_done \in [Workers -> Seq(Conns)]
      BY <1>1, <1>2, <1>4
    <2>2. \A w \in Workers : IsInjective(lst_done[w])
      BY <1>2, <1>3
    <2>3. IsInjective(lstSvc) /\ IsInjective(lstSvcLow) /\ IsInjective(lstSocket)
      BY <1>2, <1>3
    <2>4. lstSvc \in Seq(Conns) /\ lstSvcLow \in Seq(Pipe) /\ lstSocket \in Seq(Socks)
      BY <1>2
    <2>5. hand \in [Workers -> Conns \cup {None}]
      BY <1>2
    <2> QED
      BY <2>1, <2>2, <2>3, <2>4, <2>5 DEF PlacesOK, Once
  <1>6. ASSUME NEW p, NEW v \in Workers, NEW s, Holds(p, v, s)
        PROVE  p = "pending" /\ v = first /\ s \in Listeners
    <2>0. lst_done[v] = <<>> /\ hand[v] = None
      BY <1>2
    <2>1. /\ s \notin ToSet(lstSvc) /\ s \notin ToSet(lstSvcLow) /\ s \notin ToSet(lstSocket)
          /\ s \notin ToSet(lst_done[v]) /\ hand[v] = None
      BY <1>2, <1>3, <2>0
    <2>2. p = "pending" /\ s \in lst_pending[v]
      BY <1>6, <2>1 DEF Holds
    <2> QED
      BY <1>1, <2>2
  <1>7. Apart
    <2> SUFFICES ASSUME NEW p \in Places, NEW q \in Places, NEW v \in Workers, NEW w \in Workers,
                        NEW s \in Socks, Holds(p, v, s), Holds(q, w, s)
                 PROVE  p = q /\ v = w
      BY Zenon DEF Apart
    <2>1. p = "pending" /\ v = first
      BY <1>6, Zenon
    <2>2. q = "pending" /\ w = first
      BY <1>6, Zenon
    <2> QED
      BY <2>1, <2>2
  <1>8. Unborn
    <2>1. ASSUME NEW c \in Conns, NEW p, NEW v \in Workers, Holds(p, v, c) PROVE FALSE
      BY <1>4, <1>6, <2>1
    <2> QED
      BY <2>1, Zenon DEF Unborn
  <1>9. Returned /\ Watching
    BY <1>1, <1>2, <1>4 DEF Returned, Watching, Watched, Batches, Points
  <1>10. ContentOK
    BY SocketsAssumption DEF Init, ContentOK, States
  <1> QED
    BY <1>1, <1>5, <1>7, <1>8, <1>9, <1>10 DEF IInv, Placement

LEMMA NextIInv == IInv /\ [Next]_vars => IInv'
  <1> SUFFICES ASSUME IInv, [Next]_vars PROVE IInv'
    OBVIOUS
  <1>1. ASSUME NEW w \in Workers, Step(w) PROVE IInv'
    BY <1>1, TakeStep, ServiceStep, ShareStep, DispatchStep, LeaveStep, WaitStep, EventStep,
       TickStep DEF Step
  <1>2. ASSUME NEW c \in Conns, Connect(c) \/ Ask(c) \/ Hangup(c) \/ Drain(c) PROVE IInv'
    BY <1>2, ClientStep
  <1>3. CASE End
    <2>1. /\ pc' = pc /\ hand' = hand /\ lst_pending' = lst_pending /\ lst_done' = lst_done
          /\ armed' = armed /\ batch' = batch /\ lstSvc' = lstSvc /\ lstSvcLow' = lstSvcLow
          /\ lstSocket' = lstSocket /\ wr_buf' = wr_buf /\ toRead_' = toRead_
          /\ client' = client /\ asked' = asked /\ unread' = unread /\ full' = full
          /\ state' \in [Socks -> States]
      BY <1>3 DEF End, thread, epoll, queues, kernel, States
    <2>2. Placement'
      BY <2>1, Settled DEF IInv
    <2> QED
      BY <2>1, <2>2 DEF IInv, Returned, Watching, Watched, Batches, ContentOK
  <1>4. CASE UNCHANGED vars
    <2>1. /\ pc' = pc /\ hand' = hand /\ lst_pending' = lst_pending /\ lst_done' = lst_done
          /\ armed' = armed /\ batch' = batch /\ lstSvc' = lstSvc /\ lstSvcLow' = lstSvcLow
          /\ lstSocket' = lstSocket /\ state' = state /\ wr_buf' = wr_buf /\ toRead_' = toRead_
          /\ client' = client /\ asked' = asked /\ unread' = unread /\ full' = full
      BY <1>4 DEF vars, thread, epoll, queues, content, kernel
    <2>2. Placement'
      BY <2>1, Settled DEF IInv
    <2> QED
      BY <2>1, <2>2 DEF IInv, Returned, Watching, Watched, Batches, ContentOK
  <1> QED
    BY <1>1, <1>2, <1>3, <1>4, Zenon DEF Next

\* The strengthening of the three properties of the runs is an invariant: the
\* places of every socket, what service() returns, and what epoll has reported.
THEOREM Invariant == SafeSpec => []IInv
  <1>1. Init => IInv
    BY InitIInv
  <1>2. IInv /\ [Next]_vars => IInv'
    BY NextIInv
  <1> QED
    BY <1>1, <1>2, PTL DEF SafeSpec

\* The orders of the clients of Control, and what becomes of them.
OrdersOK == /\ shutdown \in [Workers -> BOOLEAN]
            /\ command \in [Control -> {"status", "shutdown", "start"}]

LEMMA NextOrders == OrdersOK /\ [Next]_vars => OrdersOK'
  <1> SUFFICES ASSUME OrdersOK, [Next]_vars PROVE OrdersOK'
    OBVIOUS
  <1>1. ASSUME NEW w \in Workers, Step(w) PROVE OrdersOK'
    <2>1. ASSUME NEW s, Answer(w, s) PROVE shutdown' = shutdown /\ command' = command
      BY <2>1, Zenon DEF Answer, Write
    <2>2. ASSUME Dispatch(w) PROVE shutdown' = shutdown /\ command' = command
      BY <2>2, Zenon DEF Dispatch, DoneConnected, Greet, DoneReading, SayHello, DoneWriting,
         ReadOn, DoneClosed, Drop, Read, Write, thread, kernel
    <2>3. ASSUME Event(w) PROVE shutdown' = shutdown /\ command' = command
      BY <2>3, Zenon DEF Event, AcceptAll, Read, Write, thread
    <2>4. ASSUME ShutDown(w) PROVE OrdersOK'
      <3>1. PICK F \in SUBSET Workers :
              shutdown' = [v \in Workers |-> shutdown[v] \/ v \in F]
        BY <2>4 DEF ShutDown
      <3>2. command' = command
        BY <2>4 DEF ShutDown, kernel
      <3> QED
        BY <3>1, <3>2 DEF OrdersOK
    <2>5. ASSUME \/ TakeJob(w) \/ TakeLow(w) \/ NoMore(w) \/ Prepare(w) \/ Requeue(w)
                 \/ PutServed(w) \/ Get(w) \/ LpEnd(w) \/ EpollWait(w) \/ Tick(w)
                 \/ PutAll(w) \/ Stay(w) \/ Retire(w) \/ Panic(w)
          PROVE  shutdown' = shutdown /\ command' = command
      BY <2>5, Zenon DEF TakeJob, TakeLow, NoMore, Prepare, Requeue, PutServed, Get, LpEnd,
         EpollWait, Tick, PutAll, Stay, Retire, Panic, Abandon, kernel
    <2>6. ASSUME Execute(w) \/ Perform(w) PROVE shutdown' = shutdown /\ command' = command
      BY <2>1, <2>6, Zenon DEF Execute, Perform
    <2> QED
      BY <1>1, <2>2, <2>3, <2>4, <2>5, <2>6 DEF Step, OrdersOK
  <1>2. ASSUME NEW c \in Conns, Connect(c) \/ Ask(c) \/ Hangup(c) \/ Drain(c) PROVE OrdersOK'
    <2>1. shutdown' = shutdown
      BY <1>2 DEF Connect, Ask, Hangup, Drain, thread
    <2>2. command' = command \/ \E o \in Commands : command' = [command EXCEPT ![c] = o]
      BY <1>2, Zenon DEF Connect, Ask, Hangup, Drain
    <2> QED
      BY <2>1, <2>2, SocketsAssumption DEF OrdersOK
  <1>3. CASE End \/ UNCHANGED vars
    BY <1>3 DEF End, vars, thread, kernel, OrdersOK
  <1> QED
    BY <1>1, <1>2, <1>3, Zenon DEF Next

\* In every reachable state, workers, sockets and clients are in a state the program
\* can be in: no queue, list or field holds anything else.
THEOREM TypeCorrect == SafeSpec => []TypeOK
  <1>1. IInv /\ OrdersOK => TypeOK
    BY DEF IInv, Placement, PlacesOK, Watching, ContentOK, OrdersOK, TypeOK
  <1>2. Init => OrdersOK
    BY DEF Init, OrdersOK
  <1>3. SafeSpec => []OrdersOK
    BY <1>2, NextOrders, PTL DEF SafeSpec
  <1> QED
    BY <1>1, <1>3, Invariant, PTL

\* An element of Holders(s), by the place and the worker it names.
Named(a, p, v, s) ==
  \/ p = "pending" /\ s \in lst_pending[v] /\ a = <<p, v>>
  \/ p = "hand"    /\ s = hand[v] /\ a = <<p, v>>
  \/ p = "done"    /\ \E i \in Occurs(lst_done[v], s) : a = <<p, v, i>>
  \/ p = "svc"     /\ \E i \in Occurs(lstSvc, s) : a = <<p, i>>
  \/ p = "low"     /\ \E i \in Occurs(lstSvcLow, s) : a = <<p, i>>
  \/ p = "shared"  /\ \E i \in Occurs(lstSocket, s) : a = <<p, i>>

\* However many workers hand however many sockets to one another, no two places hold
\* the same socket: an Arc<RefCell<..>> is never used by two threads at once.
THEOREM OneOwner == SafeSpec => []SingleOwner
  <1>1. ASSUME IInv, NEW s \in Socks PROVE Cardinality(Holders(s)) <= 1
    <2>1. /\ Apart /\ \A w \in Workers : IsInjective(lst_done[w])
          /\ IsInjective(lstSvc) /\ IsInjective(lstSvcLow) /\ IsInjective(lstSocket)
      BY <1>1 DEF IInv, Placement, Once
    <2>2. s # None
      BY SocketsAssumption DEF Socks, Conns, Listeners
    <2>3. ASSUME NEW a \in Holders(s)
          PROVE  \E p \in Places, v \in Workers : Named(a, p, v, s)
      <3>1. CASE \E w \in Workers : s \in lst_pending[w] /\ a = <<"pending", w>>
        BY <3>1 DEF Named, Places, Own
      <3>2. CASE \E w \in Workers : hand[w] = s /\ a = <<"hand", w>>
        BY <3>2 DEF Named, Places, Own
      <3>3. CASE \E w \in Workers : \E i \in Occurs(lst_done[w], s) : a = <<"done", w, i>>
        <4>1. PICK w \in Workers : Named(a, "done", w, s)
          BY <3>3 DEF Named
        <4> QED
          BY <4>1 DEF Places, Own
      <3> DEFINE any == CHOOSE w \in Workers : TRUE
      <3>4. any \in Workers
        BY <1>1 DEF IInv
      <3> HIDE DEF any
      <3>5. CASE \E i \in Occurs(lstSvc, s) : a = <<"svc", i>>
        <4>1. Named(a, "svc", any, s)
          BY <3>5 DEF Named
        <4> QED
          BY <3>4, <4>1 DEF Places
      <3>6. CASE \E i \in Occurs(lstSvcLow, s) : a = <<"low", i>>
        <4>1. Named(a, "low", any, s)
          BY <3>6 DEF Named
        <4> QED
          BY <3>4, <4>1 DEF Places
      <3>7. CASE \E i \in Occurs(lstSocket, s) : a = <<"shared", i>>
        <4>1. Named(a, "shared", any, s)
          BY <3>7 DEF Named
        <4> QED
          BY <3>4, <4>1 DEF Places
      <3> QED
        BY <2>3, <3>1, <3>2, <3>3, <3>5, <3>6, <3>7 DEF Holders
    <2>4. ASSUME NEW a \in Holders(s), NEW b \in Holders(s) PROVE a = b
      <3>1. PICK p \in Places, v \in Workers : Named(a, p, v, s)
        BY <2>3
      <3>2. PICK q \in Places, w \in Workers : Named(b, q, w, s)
        BY <2>3
      <3>3. Holds(p, v, s) /\ Holds(q, w, s)
        BY <2>2, <3>1, <3>2 DEF Named, Holds, Occurs, ToSet
      <3>4. p = q /\ (p \in Own => v = w)
        BY <2>1, <3>3 DEF Apart
      <3> QED
        BY <2>1, <3>1, <3>2, <3>4 DEF Named, Own, Occurs, IsInjective
    <2>5. CASE Holders(s) = {}
      BY <2>5, FS_EmptySet
    <2>6. CASE Holders(s) # {}
      <3>1. PICK a : Holders(s) = {a}
        BY <2>4, <2>6
      <3> QED
        BY <3>1, FS_Singleton
    <2> QED
      BY <2>5, <2>6
  <1>2. IInv => SingleOwner
    BY <1>1 DEF SingleOwner
  <1> QED
    BY <1>2, Invariant, PTL

\* What epoll reports to perform() is in lst_pending, so that the unwrap of its
\* removal never fails.
THEOREM EventsAreMatched == SafeSpec => []EventsMatched
  <1>1. IInv => EventsMatched
    BY DEF IInv, Watching, Watched, EventsMatched
  <1> QED
    BY <1>1, Invariant, PTL

\* A socket is in lst_pending exactly when it is armed in the kernel or has just been
\* reported: no event of a waiting socket is lost, none of one that has left arrives.
THEOREM PendingIsWatched == SafeSpec => []Watched
  <1>1. IInv => Watched
    BY DEF IInv, Watching
  <1> QED
    BY <1>1, Invariant, PTL

-----------------------------------------------------------------------------
(* A connection is closed only when there is nothing left to say to its    *)
(* client, or in one of the ways the code cuts clients off.  The invariant: *)

\* A read that ends, or fails, finds the client gone.
EndSeen == \A c \in Conns : state[c] \in {"PeerClosed", "Error"} => Gone(c)

\* What Default and PipeService write is the answer, until all of it is written.
Answering ==
  \A c \in Conns \ Control : state[c] = "Writing" => wr_buf[c] = "reply" \/ Finished(c)

\* A client of Default whose answer is cut short by a tick.
Hurried(c) == c \in Hello /\ MayTick /\ wr_buf[c] = "reply"

\* When such a write is in lst_done, it is complete or cut short by a tick.
AnswerDone ==
  \A w \in Workers, c \in Conns \ Control :
    c \in ToSet(lst_done[w]) /\ state[c] = "Writing" => Finished(c) \/ Hurried(c)

\* A worker that may leave has run its callbacks and shared what others can use; one
\* that may panic has no connection of Default; and only one that serves has a socket
\* in hand.
InOrder(w) ==
  /\ pc[w] \in {"put", "check"} => lst_done[w] = <<>>
  /\ pc[w] = "check" => lst_pending[w] \subseteq Keep
  /\ pc[w] \in {"take", "service", "return"} =>
       Hello \cap (lst_pending[w] \cup ToSet(lst_done[w])) = {}
  /\ pc[w] \notin {"service", "return"} => hand[w] = None

HandedOver == \A w \in Workers : InOrder(w)

Talk == EndSeen /\ Answering /\ AnswerDone

CInv == Talk /\ HandedOver

\* What a step may close.
Closes ==
  \A c \in Conns : state[c] # "closed" /\ state'[c] = "closed" => Finished(c) \/ CutOff(c)

-----------------------------------------------------------------------------
(* What is written and read.                                               *)

\* A step that neither reads nor writes: nothing new comes to lst_done.
LEMMA Quiet ==
  ASSUME Talk, wr_buf' = wr_buf,
         \A c \in Conns : state'[c] \in {state[c], "closed"},
         \A c \in Conns : /\ Finished(c) => client'[c] \in {"served", "gone"}
                          /\ Gone(c) => client'[c] = "gone",
         \A w \in Workers : ToSet(lst_done'[w]) \subseteq ToSet(lst_done[w])
  PROVE  Talk'
  <1>1. EndSeen'
    BY DEF Talk, EndSeen, Gone
  <1>2. Answering'
    BY DEF Talk, Answering, Finished
  <1>3. AnswerDone'
    <2> SUFFICES ASSUME NEW w \in Workers, NEW c \in Conns \ Control,
                        c \in ToSet(lst_done'[w]), state'[c] = "Writing"
                 PROVE  Finished(c)' \/ Hurried(c)'
      BY DEF AnswerDone
    <2>1. Finished(c) \/ Hurried(c)
      BY DEF Talk, AnswerDone
    <2> QED
      BY <2>1 DEF Finished, Hurried
  <1> QED
    BY <1>1, <1>2, <1>3 DEF Talk

\* What Accept, PushDone and Release leave in the lists.
LEMMA Listed ==
  ASSUME lst_done \in [Workers -> Seq(Conns)], NEW w \in Workers, NEW s \in Conns, NEW pend,
         NEW done \in Seq(Conns),
         Accept(w, s, pend, done) \/ PushDone(w, s, pend, done) \/ Release(w, s, pend, done)
  PROVE  /\ \A v \in Workers \ {w} : lst_done'[v] = lst_done[v]
         /\ ToSet(lst_done'[w]) \subseteq ToSet(done) \cup {s}
         /\ ~PushDone(w, s, pend, done) => lst_done'[w] = done
  <1>1. ToSet(Append(done, s)) = ToSet(done) \cup {s}
    BY AppendOnce
  <1>2. \/ lst_done' = [lst_done EXCEPT ![w] = done]
        \/ PushDone(w, s, pend, done) /\ lst_done' = [lst_done EXCEPT ![w] = Append(done, s)]
    BY Zenon DEF Accept, PushDone, Release
  <1>3. CASE lst_done' = [lst_done EXCEPT ![w] = done]
    BY <1>3
  <1>4. CASE /\ PushDone(w, s, pend, done)
             /\ lst_done' = [lst_done EXCEPT ![w] = Append(done, s)]
    BY <1>1, <1>4
  <1> QED
    BY <1>2, <1>3, <1>4

LEMMA ReadTalk ==
  ASSUME Talk, ContentOK, lst_done \in [Workers -> Seq(Conns)],
         NEW w \in Workers, NEW s \in Conns, NEW pend, NEW done \in Seq(Conns),
         ToSet(done) \subseteq ToSet(lst_done[w]), Read(w, s, pend, done)
  PROVE  Talk' /\ Closes
  <1>1. /\ Accept(w, s, pend, done) \/ PushDone(w, s, pend, done)
        /\ wr_buf' = wr_buf /\ client' = client
    BY ReadEffect, Zenon
  <1>2. /\ \A v \in Workers \ {w} : lst_done'[v] = lst_done[v]
        /\ ToSet(lst_done'[w]) \subseteq ToSet(lst_done[w]) \cup {s}
    BY <1>1, Listed
  <1>3. PICK new \in {"Reading", "PeerClosed", "Error"} :
          /\ state' = [state EXCEPT ![s] = new]
          /\ new # "Reading" => Gone(s)
    BY Zenon DEF Read, SetState
  <1>4. s \in Socks /\ state \in [Socks -> States]
    BY NoneApart DEF ContentOK
  <1>5. state'[s] = new /\ \A c \in Conns \ {s} : state'[c] = state[c]
    BY <1>3, <1>4, NoneApart
  <1>6. Closes
    BY <1>5 DEF Closes
  <1>7. EndSeen'
    BY <1>1, <1>3, <1>5 DEF Talk, EndSeen, Gone
  <1>8. Answering'
    BY <1>1, <1>5 DEF Talk, Answering, Finished
  <1>9. AnswerDone'
    <2> SUFFICES ASSUME NEW v \in Workers, NEW c \in Conns \ Control,
                        c \in ToSet(lst_done'[v]), state'[c] = "Writing"
                 PROVE  Finished(c)' \/ Hurried(c)'
      BY DEF AnswerDone
    <2>1. c # s /\ state[c] = "Writing" /\ c \in ToSet(lst_done[v])
      BY <1>2, <1>5
    <2> QED
      BY <1>1, <2>1 DEF Talk, AnswerDone, Finished, Hurried
  <1> QED
    BY <1>6, <1>7, <1>8, <1>9 DEF Talk

\* s is in lst_done of no worker once it is written.
LEMMA WriteTalk ==
  ASSUME Talk, ContentOK, lst_done \in [Workers -> Seq(Conns)],
         NEW w \in Workers, NEW s \in Conns, NEW buf \in {"nothing", "greeting", "reply"},
         NEW pend, NEW done \in Seq(Conns),
         ToSet(done) \subseteq ToSet(lst_done[w]), s \notin ToSet(done),
         \A v \in Workers \ {w} : s \notin ToSet(lst_done[v]),
         s \notin Control => buf = "reply" \/ Finished(s),
         Write(w, s, buf, pend, done)
  PROVE  Talk' /\ Closes
  <1>1. Accept(w, s, pend, done) \/ PushDone(w, s, pend, done)
    BY WriteEffect, Zenon
  <1>2. /\ \A v \in Workers \ {w} : lst_done'[v] = lst_done[v]
        /\ ToSet(lst_done'[w]) \subseteq ToSet(done) \cup {s}
        /\ ~PushDone(w, s, pend, done) => lst_done'[w] = done
    BY <1>1, Listed
  <1>3. s \in Socks /\ state \in [Socks -> States] /\ Conns \subseteq Socks
    BY NoneApart DEF ContentOK
  <1>4. /\ wr_buf \in [Conns -> {"nothing", "greeting", "reply"}]
        /\ client \in [Conns -> {"new", "queued", "open", "asking", "served", "gone"}]
    BY DEF ContentOK
  <1>5. ASSUME NEW new \in {"Writing", "Error"}, state' = [state EXCEPT ![s] = new],
               \A c \in Conns \ {s} : client'[c] = client[c] /\ wr_buf'[c] = wr_buf[c],
               Gone(s) => client'[s] = "gone",
               new = "Error" => client'[s] = "gone",
               new = "Writing" /\ s \notin Control =>
                 wr_buf'[s] = "reply" \/ client'[s] \in {"served", "gone"},
               new = "Writing" /\ s \notin Control /\ s \in ToSet(lst_done'[w]) =>
                 client'[s] \in {"served", "gone"}
        PROVE  Talk' /\ Closes
    <2>1. state'[s] = new /\ \A c \in Conns \ {s} : state'[c] = state[c]
      BY <1>3, <1>5
    <2>2. Closes
      BY <2>1 DEF Closes
    <2>3. EndSeen'
      BY <1>5, <2>1 DEF Talk, EndSeen, Gone
    <2>4. Answering'
      BY <1>5, <2>1 DEF Talk, Answering, Finished
    <2>5. AnswerDone'
      <3> SUFFICES ASSUME NEW v \in Workers, NEW c \in Conns \ Control,
                          c \in ToSet(lst_done'[v]), state'[c] = "Writing"
                   PROVE  Finished(c)' \/ Hurried(c)'
        BY DEF AnswerDone
      <3>1. CASE c = s
        BY <1>2, <1>5, <2>1, <3>1 DEF Finished
      <3>2. CASE c # s
        <4>1. state[c] = "Writing" /\ c \in ToSet(lst_done[v])
          BY <1>2, <2>1, <3>2
        <4> QED
          BY <1>5, <3>2, <4>1 DEF Talk, AnswerDone, Finished, Hurried
      <3> QED
        BY <3>1, <3>2
    <2> QED
      BY <2>2, <2>3, <2>4, <2>5 DEF Talk
  <1>6. CASE /\ SetState(s, "Writing")
             /\ wr_buf' = [wr_buf EXCEPT ![s] = "nothing"]
             /\ client' = [client EXCEPT ![s] =
                             IF buf = "reply" /\ ~Gone(s) THEN Served(s) ELSE @]
    <2>1. /\ \A c \in Conns \ {s} : client'[c] = client[c] /\ wr_buf'[c] = wr_buf[c]
          /\ Gone(s) => client'[s] = "gone"
          /\ s \notin Control => client'[s] \in {"served", "gone"}
      BY <1>4, <1>6 DEF Gone, Served, Finished
    <2>2. state' = [state EXCEPT ![s] = "Writing"]
      BY <1>6 DEF SetState
    <2> QED
      BY <1>5, <2>1, <2>2
  <1>7. CASE /\ ~Gone(s) /\ SetState(s, "Writing")
             /\ wr_buf' = [wr_buf EXCEPT ![s] = buf]
             /\ Accept(w, s, pend, done) /\ client' = client
    <2>1. /\ \A c \in Conns \ {s} : client'[c] = client[c] /\ wr_buf'[c] = wr_buf[c]
          /\ s \notin Control => wr_buf'[s] = "reply" \/ client'[s] \in {"served", "gone"}
      BY <1>4, <1>7 DEF Finished
    <2>2. lst_done' = [lst_done EXCEPT ![w] = done]
      BY <1>7 DEF Accept
    <2>3. s \notin ToSet(lst_done'[w])
      BY <2>2
    <2>4. state' = [state EXCEPT ![s] = "Writing"]
      BY <1>7 DEF SetState
    <2> QED
      BY <1>5, <1>7, <2>1, <2>3, <2>4
  <1>8. CASE Gone(s) /\ SetState(s, "Error") /\ wr_buf' = wr_buf /\ client' = client
    <2>1. state' = [state EXCEPT ![s] = "Error"] /\ client'[s] = "gone"
      BY <1>8 DEF SetState, Gone
    <2> QED
      BY <1>5, <1>8, <2>1
  <1> QED
    BY <1>6, <1>7, <1>8, Zenon DEF Write

-----------------------------------------------------------------------------
(* The steps.                                                              *)

\* A step of w concerns w alone.
LEMMA Round ==
  ASSUME HandedOver, NEW w \in Workers, InOrder(w)',
         \A v \in Workers \ {w} : /\ pc'[v] = pc[v] /\ lst_done'[v] = lst_done[v]
                                  /\ lst_pending'[v] = lst_pending[v] /\ hand'[v] = hand[v]
  PROVE  HandedOver'
  <1>1. ASSUME NEW v \in Workers, v # w PROVE InOrder(v)'
    BY <1>1 DEF HandedOver, InOrder
  <1> QED
    BY <1>1 DEF HandedOver

LEMMA Types ==
  ASSUME IInv
  PROVE  /\ pc \in [Workers -> Points] /\ hand \in [Workers -> Conns \cup {None}]
         /\ lst_pending \in [Workers -> SUBSET Socks]
         /\ lst_done \in [Workers -> Seq(Conns)]
         /\ \A w \in Workers : IsInjective(lst_done[w])
         /\ state \in [Socks -> States] /\ ContentOK /\ Apart
  BY DEF IInv, Placement, PlacesOK, Once, Watching, ContentOK

\* The lists of the others are as they were.
LEMMA OnlyOwn ==
  ASSUME IInv, NEW w \in Workers, NEW s, NEW pend, NEW done,
         Accept(w, s, pend, done) \/ PushDone(w, s, pend, done) \/ Release(w, s, pend, done)
  PROVE  \A v \in Workers \ {w} : /\ lst_done'[v] = lst_done[v]
                                  /\ lst_pending'[v] = lst_pending[v]
  <1>1. CASE Accept(w, s, pend, done)
    BY <1>1, Types DEF Accept
  <1>2. CASE PushDone(w, s, pend, done)
    BY <1>2, Types DEF PushDone
  <1>3. CASE Release(w, s, pend, done)
    BY <1>3, Types DEF Release
  <1> QED
    BY <1>1, <1>2, <1>3

LEMMA HelloApart == Hello \cap Keep = {} /\ Hello \cap Listeners = {} /\ Hello \subseteq Conns
  BY SocketsAssumption DEF Keep, Listeners, Conns

LEMMA AnswerTalk ==
  ASSUME IInv, CInv, NEW w \in Workers, NEW s \in Conns \ Hello, Answer(w, s)
  PROVE  CInv' /\ Closes
  <1>1. /\ pc[w] = "service" /\ hand[w] = s
        /\ Write(w, s, "reply", lst_pending[w], lst_done[w])
        /\ hand' = [hand EXCEPT ![w] = None] /\ Goto(w, "return")
    BY DEF Answer
  <1>2. \A v \in Workers : s \notin ToSet(lst_done[v])
    <2>1. s \in Socks /\ s # None /\ "hand" \in Places /\ Holds("hand", w, s)
      BY <1>1, NoneApart DEF Places, Own, Holds
    <2> QED
      BY <2>1, Elsewhere, Types
  <1>3. lst_done[w] \in Seq(Conns)
    BY Types
  <1>4. Talk' /\ Closes
    BY <1>1, <1>2, <1>3, WriteTalk, Types DEF CInv
  <1>5. \/ Accept(w, s, lst_pending[w], lst_done[w])
        \/ PushDone(w, s, lst_pending[w], lst_done[w])
    BY <1>1, Zenon DEF Write
  <1>6. \A v \in Workers \ {w} : lst_done'[v] = lst_done[v] /\ lst_pending'[v] = lst_pending[v]
    BY <1>5, OnlyOwn
  <1>7. /\ pc'[w] = "return" /\ \A v \in Workers \ {w} : pc'[v] = pc[v] /\ hand'[v] = hand[v]
    BY <1>1, Types DEF Goto
  <1>8. InOrder(w)'
    <2>1. Hello \cap (lst_pending[w] \cup ToSet(lst_done[w])) = {}
      BY <1>1 DEF CInv, HandedOver, InOrder
    <2>2. ToSet(lst_done'[w]) \subseteq ToSet(lst_done[w]) \cup {s}
      BY <1>3, <1>5, Listed, Types
    <2>3. lst_pending'[w] \subseteq lst_pending[w] \cup {s}
      BY <1>5, Types DEF Accept, PushDone
    <2> QED
      BY <1>7, <2>1, <2>2, <2>3 DEF InOrder
  <1>9. HandedOver'
    BY <1>6, <1>7, <1>8, Round DEF CInv
  <1> QED
    BY <1>4, <1>9 DEF CInv

LEMMA DispatchTalk ==
  ASSUME IInv, CInv, NEW w \in Workers, Dispatch(w)
  PROVE  CInv' /\ Closes
  <1>1. pc[w] \in {"lp", "lp2"} /\ lst_done[w] # <<>> /\ pc' = pc /\ hand' = hand
    BY DEF Dispatch, thread
  <1>2. PICK s, done : /\ s = Head(lst_done[w]) /\ done = Tail(lst_done[w])
                       /\ \/ DoneConnected(w, s, done) \/ Greet(w, s, done)
                          \/ DoneReading(w, s, done) \/ SayHello(w, s, done)
                          \/ DoneWriting(w, s, done) \/ ReadOn(w, s, done)
                          \/ DoneClosed(w, s, done)
    BY Zenon DEF Dispatch
  <1>3. /\ lst_done[w] \in Seq(Conns) /\ IsInjective(lst_done[w])
    BY Types
  <1>4. /\ s \in Conns /\ s \in Socks /\ s \in ToSet(lst_done[w]) /\ done \in Seq(Conns)
        /\ ToSet(done) \subseteq ToSet(lst_done[w]) /\ s \notin ToSet(done)
    BY <1>1, <1>2, <1>3, HeadOnce, NoneApart
  <1>5. \A v \in Workers \ {w} : s \notin ToSet(lst_done[v])
    <2>1. "done" \in Places /\ Holds("done", w, s)
      BY <1>4 DEF Places, Own, Holds
    <2> QED
      BY <1>4, <2>1, Elsewhere, Types
  <1>6. ASSUME NEW pend,
               \/ Accept(w, s, pend, done)
               \/ PushDone(w, s, pend, done)
               \/ Release(w, s, pend, done)
        PROVE  HandedOver'
    <2>1. \A v \in Workers \ {w} :
            lst_done'[v] = lst_done[v] /\ lst_pending'[v] = lst_pending[v]
      BY <1>6, OnlyOwn
    <2>2. InOrder(w)'
      BY <1>1 DEF CInv, HandedOver, InOrder
    <2> QED
      BY <1>1, <2>1, <2>2, Round DEF CInv
  <1>7. ASSUME Read(w, s, lst_pending[w], done) PROVE CInv' /\ Closes
    <2>1. Talk' /\ Closes
      BY <1>4, <1>7, ReadTalk, Types DEF CInv
    <2>2. HandedOver'
      BY <1>6, <1>7, Zenon DEF Read
    <2> QED
      BY <2>1, <2>2 DEF CInv
  <1>8. ASSUME NEW buf \in {"greeting", "reply"}, s \notin Control => buf = "reply",
               Write(w, s, buf, lst_pending[w], done)
        PROVE  CInv' /\ Closes
    <2>1. buf \in {"nothing", "greeting", "reply"}
      OBVIOUS
    <2>2. Talk' /\ Closes
      BY <1>4, <1>5, <1>8, <2>1, WriteTalk, Types DEF CInv
    <2>3. HandedOver'
      BY <1>6, <1>8, Zenon DEF Write
    <2> QED
      BY <2>2, <2>3 DEF CInv
  <1>9. ASSUME NEW pend, Release(w, s, pend, done), wr_buf' = wr_buf, client' = client,
               state' = state \/ (SetState(s, "closed") /\ (Finished(s) \/ Hurried(s)))
        PROVE  CInv' /\ Closes
    <2>1. /\ \A c \in Conns : state'[c] \in {state[c], "closed"}
          /\ \A c \in Conns : state'[c] # state[c] => Finished(c) \/ Hurried(c)
      BY <1>4, <1>9, NoneApart, Types DEF SetState
    <2>2. \A v \in Workers : ToSet(lst_done'[v]) \subseteq ToSet(lst_done[v])
      <3>1. lst_done' = [lst_done EXCEPT ![w] = done]
        BY <1>9 DEF Release
      <3> QED
        BY <1>4, <3>1, Types
    <2>3. Talk'
      BY <1>9, <2>1, <2>2, Quiet DEF CInv, Finished, Gone
    <2>4. Closes
      BY <2>1 DEF Closes, CutOff, Hurried
    <2>5. HandedOver'
      BY <1>6, <1>9
    <2> QED
      BY <2>3, <2>4, <2>5 DEF CInv
  <1>10. ASSUME Drop(w, s, done), Finished(s) \/ Hurried(s) PROVE CInv' /\ Closes
    <2>1. /\ Release(w, s, lst_pending[w] \ {s}, done) /\ wr_buf' = wr_buf
          /\ client' = client /\ (state' = state \/ SetState(s, "closed"))
      BY <1>10 DEF Drop, kernel
    <2> QED
      BY <1>9, <1>10, <2>1
  <1>11. CASE DoneConnected(w, s, done)
    BY <1>7, <1>11 DEF DoneConnected
  <1>12. CASE Greet(w, s, done)
    BY <1>8, <1>12 DEF Greet
  <1>13. CASE DoneReading(w, s, done)
    <2>1. /\ Release(w, s, lst_pending[w], done) /\ wr_buf' = wr_buf /\ client' = client
          /\ state' = state
      BY <1>13 DEF DoneReading, kernel
    <2> QED
      BY <1>9, <2>1
  <1>14. CASE SayHello(w, s, done)
    BY <1>8, <1>14 DEF SayHello
  <1>15. CASE DoneWriting(w, s, done)
    <2>1. Finished(s) \/ Hurried(s)
      BY <1>4, <1>15 DEF DoneWriting, CInv, Talk, AnswerDone
    <2> QED
      BY <1>10, <1>15, <2>1 DEF DoneWriting
  <1>16. CASE ReadOn(w, s, done)
    BY <1>7, <1>16 DEF ReadOn
  <1>17. CASE DoneClosed(w, s, done)
    <2>1. Finished(s)
      BY <1>4, <1>17 DEF DoneClosed, CInv, Talk, EndSeen, Gone, Finished
    <2> QED
      BY <1>10, <1>17, <2>1 DEF DoneClosed
  <1> QED
    BY <1>2, <1>11, <1>12, <1>13, <1>14, <1>15, <1>16, <1>17

LEMMA EventTalk ==
  ASSUME IInv, CInv, NEW w \in Workers, Event(w)
  PROVE  CInv' /\ Closes
  <1>1. pc[w] = "perform" /\ pc' = pc /\ hand' = hand
    BY DEF Event, thread
  <1>2. PICK s \in batch[w] \cap lst_pending[w] :
          \/ s \in Listeners /\ AcceptAll(w, s)
          \/ /\ s \in Conns /\ state[s] = "Reading"
             /\ Read(w, s, lst_pending[w] \ {s}, lst_done[w])
          \/ /\ s \in Conns /\ state[s] = "Writing"
             /\ Write(w, s, wr_buf[s], lst_pending[w] \ {s}, lst_done[w])
    BY Zenon DEF Event
  <1>3. lst_done[w] \in Seq(Conns)
    BY Types
  <1>4. ASSUME NEW pend, NEW done,
               Accept(w, s, pend, done) \/ PushDone(w, s, pend, done)
        PROVE  HandedOver'
    <2>1. \A v \in Workers \ {w} :
            lst_done'[v] = lst_done[v] /\ lst_pending'[v] = lst_pending[v]
      BY <1>4, OnlyOwn
    <2>2. InOrder(w)'
      BY <1>1 DEF CInv, HandedOver, InOrder
    <2> QED
      BY <1>1, <2>1, <2>2, Round DEF CInv
  <1>5. CASE s \in Listeners /\ AcceptAll(w, s)
    <2>1. PICK M \in SUBSET Conns :
            /\ \A c \in M : client[c] = "queued"
            /\ state' = [r \in Socks |-> IF r \in M THEN "Connected" ELSE state[r]]
            /\ client' = [c \in Conns |-> IF c \in M THEN "open" ELSE client[c]]
            /\ Accept(w, s, lst_pending[w], lst_done[w] \o SetToSeq(M))
            /\ wr_buf' = wr_buf
      <3> DEFINE queued == {c \in Clients(s) : client[c] = "queued"}
      <3>1. Clients(s) \subseteq Conns
        BY <1>5 DEF Listeners, Clients, Conns
      <3>2. queued \in SUBSET Conns /\ \A c \in queued : client[c] = "queued"
        BY <3>1
      <3> QED
        BY <1>5, <3>2 DEF AcceptAll, Accepted
    <2>2. ToSet(lst_done[w] \o SetToSeq(M)) \subseteq ToSet(lst_done[w]) \cup M
      <3>1. IsFiniteSet(M)
        BY SocketsAssumption, FS_Subset DEF Conns
      <3>2. SetToSeq(M) \in Seq(Conns) /\ ToSet(SetToSeq(M)) \subseteq M
        BY <3>1, ListOnce, SeqMonotonic
      <3> QED
        BY <1>3, <3>2, ConcatOnce
    <2>3. \A v \in Workers : ToSet(lst_done'[v]) \subseteq ToSet(lst_done[v]) \cup M
      <3>1. lst_done' = [lst_done EXCEPT ![w] = lst_done[w] \o SetToSeq(M)]
        BY <2>1 DEF Accept
      <3> QED
        BY <2>2, <3>1, Types
    <2>4. \A c \in Conns : \/ c \in M /\ state'[c] = "Connected"
                           \/ c \notin M /\ state'[c] = state[c] /\ client'[c] = client[c]
      BY <2>1, NoneApart
    <2>5. EndSeen' /\ Answering'
      BY <2>1, <2>4 DEF CInv, Talk, EndSeen, Answering, Gone, Finished
    <2>6. AnswerDone'
      BY <2>1, <2>3, <2>4 DEF CInv, Talk, AnswerDone, Finished, Hurried
    <2>7. Closes
      BY <2>4 DEF Closes
    <2>8. HandedOver'
      BY <1>4, <2>1
    <2> QED
      BY <2>5, <2>6, <2>7, <2>8 DEF CInv, Talk
  <1>6. CASE s \in Conns /\ Read(w, s, lst_pending[w] \ {s}, lst_done[w])
    <2>1. Talk' /\ Closes
      BY <1>3, <1>6, ReadTalk, Types DEF CInv
    <2>2. HandedOver'
      BY <1>4, <1>6, Zenon DEF Read
    <2> QED
      BY <2>1, <2>2 DEF CInv
  <1>7. CASE /\ s \in Conns /\ state[s] = "Writing"
             /\ Write(w, s, wr_buf[s], lst_pending[w] \ {s}, lst_done[w])
    <2>1. PICK buf \in {"nothing", "greeting", "reply"} : buf = wr_buf[s]
      BY <1>7, Types DEF ContentOK
    <2>2. \A v \in Workers : s \notin ToSet(lst_done[v])
      <3>1. s \in Socks /\ "pending" \in Places /\ Holds("pending", w, s)
        BY <1>2, <1>7, NoneApart DEF Places, Own, Holds
      <3> QED
        BY <3>1, Elsewhere, Types
    <2>3. s \notin Control => buf = "reply" \/ Finished(s)
      BY <1>7, <2>1 DEF CInv, Talk, Answering
    <2>4. Write(w, s, buf, lst_pending[w] \ {s}, lst_done[w])
      BY <1>7, <2>1
    <2>5. Talk' /\ Closes
      BY <1>3, <1>7, <2>2, <2>3, <2>4, WriteTalk, Types DEF CInv
    <2>6. HandedOver'
      BY <1>4, <1>7, Zenon DEF Write
    <2> QED
      BY <2>5, <2>6 DEF CInv
  <1> QED
    BY <1>2, <1>5, <1>6, <1>7

\* The steps that read and write nothing and close nothing.
LEMMA QuietStep ==
  ASSUME IInv, CInv, NEW w \in Workers,
         state' = state, wr_buf' = wr_buf, client' = client,
         \A v \in Workers : ToSet(lst_done'[v]) \subseteq ToSet(lst_done[v]),
         HandedOver'
  PROVE  CInv' /\ Closes
  <1>1. Talk'
    BY Quiet DEF CInv, Finished, Gone
  <1>2. Closes
    BY DEF Closes
  <1> QED
    BY <1>1, <1>2 DEF CInv

\* A tick completes connections of Default only, the half written ones among them.
LEMMA TickTalk ==
  ASSUME IInv, CInv, NEW w \in Workers, Tick(w)
  PROVE  CInv' /\ Closes
  <1>1. PICK old \in SUBSET MayBeOld(w) :
          /\ lst_pending' = [lst_pending EXCEPT ![w] = @ \ old]
          /\ lst_done' = [lst_done EXCEPT ![w] = @ \o SetToSeq(old)]
    BY Zenon DEF Tick
  <1>2. /\ pc' = [pc EXCEPT ![w] = "lp2"] /\ pc[w] = "perform" /\ hand' = hand
        /\ state' = state /\ wr_buf' = wr_buf /\ client' = client
    BY Zenon DEF Tick, Goto, content, kernel
  <1>3. old \in SUBSET Hello /\ (old # {} => MayTick)
    BY DEF MayBeOld
  <1>4. ToSet(lst_done[w] \o SetToSeq(old)) \subseteq ToSet(lst_done[w]) \cup old
    <2>1. IsFiniteSet(old) /\ old \subseteq Conns
      BY <1>3, SocketsAssumption, FS_Subset DEF Conns
    <2>2. SetToSeq(old) \in Seq(Conns) /\ ToSet(SetToSeq(old)) \subseteq old
      BY <2>1, ListOnce, SeqMonotonic
    <2>3. lst_done[w] \in Seq(Conns)
      BY Types
    <2> QED
      BY <2>2, <2>3, ConcatOnce
  <1>5. /\ ToSet(lst_done'[w]) \subseteq ToSet(lst_done[w]) \cup old /\ pc'[w] = "lp2"
        /\ \A v \in Workers \ {w} : /\ pc'[v] = pc[v] /\ lst_done'[v] = lst_done[v]
                                    /\ lst_pending'[v] = lst_pending[v] /\ hand'[v] = hand[v]
    BY <1>1, <1>2, <1>4, Types
  <1>6. HandedOver'
    <2>1. InOrder(w)'
      BY <1>2, <1>5 DEF CInv, HandedOver, InOrder
    <2> QED
      BY <1>5, <2>1, Round DEF CInv
  <1>7. EndSeen' /\ Answering'
    BY <1>2 DEF CInv, Talk, EndSeen, Answering, Gone, Finished
  <1>8. AnswerDone'
    <2> SUFFICES ASSUME NEW v \in Workers, NEW c \in Conns \ Control,
                        c \in ToSet(lst_done'[v]), state[c] = "Writing"
                 PROVE  Finished(c) \/ Hurried(c)
      BY <1>2 DEF AnswerDone, Finished, Hurried
    <2>1. c \in ToSet(lst_done[v]) \/ c \in old
      BY <1>5
    <2>2. CASE c \in old
      BY <1>3, <2>2 DEF CInv, Talk, Answering, Hurried
    <2> QED
      BY <2>1, <2>2 DEF CInv, Talk, AnswerDone
  <1>9. Closes
    BY <1>2 DEF Closes
  <1> QED
    BY <1>6, <1>7, <1>8, <1>9 DEF CInv, Talk

\* A worker that leaves of its own accord holds no connection that it could close; one
\* that panics, only such of Control.
LEMMA AbandonTalk ==
  ASSUME IInv, CInv, NEW w \in Workers, Retire(w) \/ Panic(w)
  PROVE  CInv' /\ Closes
  <1>1. /\ pc' = [pc EXCEPT ![w] = "gone"] /\ hand' = [hand EXCEPT ![w] = None]
        /\ lst_pending' = [lst_pending EXCEPT ![w] = {}]
        /\ lst_done' = [lst_done EXCEPT ![w] = <<>>]
        /\ wr_buf' = wr_buf /\ client' = client
        /\ state' = [s \in Socks |->
             IF /\ s \in lst_pending[w] \cup ToSet(lst_done[w]) \cup {hand[w]}
                /\ s \notin Pipe
             THEN "closed" ELSE state[s]]
    BY Zenon DEF Retire, Panic, Abandon, Goto, kernel
  <1>2. /\ pc'[w] = "gone" /\ lst_done'[w] = <<>> /\ hand'[w] = None
        /\ \A v \in Workers \ {w} : /\ pc'[v] = pc[v] /\ lst_done'[v] = lst_done[v]
                                    /\ lst_pending'[v] = lst_pending[v] /\ hand'[v] = hand[v]
    BY <1>1, Types
  <1>3. HandedOver'
    <2>1. InOrder(w)'
      BY <1>2 DEF InOrder
    <2> QED
      BY <1>2, <2>1, Round DEF CInv
  <1>4. Talk'
    <2>1. \A v \in Workers : ToSet(lst_done'[v]) \subseteq ToSet(lst_done[v])
      BY <1>2 DEF ToSet
    <2>2. \A c \in Conns : state'[c] \in {state[c], "closed"}
      BY <1>1, NoneApart
    <2> QED
      BY <1>1, <2>1, <2>2, Quiet DEF CInv, Finished, Gone
  <1>5. ASSUME NEW c \in Conns, state[c] # "closed", state'[c] = "closed"
        PROVE  Finished(c) \/ CutOff(c)
    <2>1. /\ c \in lst_pending[w] \cup ToSet(lst_done[w]) \cup {hand[w]}
          /\ c \notin Pipe /\ c # None
      BY <1>1, <1>5, NoneApart
    <2>2. CASE Retire(w)
      <3>1. lst_done[w] = <<>> /\ lst_pending[w] \subseteq Keep /\ hand[w] = None
        BY <2>2 DEF Retire, CInv, HandedOver, InOrder
      <3>2. c \notin Keep
        BY <2>1, SocketsAssumption DEF Keep, Conns
      <3>3. ToSet(lst_done[w]) = {}
        BY <3>1 DEF ToSet
      <3> QED
        BY <2>1, <3>1, <3>2, <3>3
    <2>3. CASE Panic(w)
      <3>1. pc[w] = "service" /\ hand[w] \in Pipe \cup Control
        BY <2>3 DEF Panic
      <3>2. Hello \cap (lst_pending[w] \cup ToSet(lst_done[w])) = {}
        BY <3>1 DEF CInv, HandedOver, InOrder
      <3>3. c \notin Hello
        BY <2>1, <3>1, <3>2, SocketsAssumption
      <3>4. c \in Control
        BY <2>1, <3>3 DEF Conns
      <3>5. Panicking
        BY <1>2, <3>1 DEF Panicking
      <3> QED
        BY <3>4, <3>5 DEF CutOff
    <2> QED
      BY <2>2, <2>3
  <1>6. Closes
    BY <1>5 DEF Closes
  <1> QED
    BY <1>3, <1>4, <1>6 DEF CInv

\* A shutdown closes the connection it came from.
LEMMA ShutDownTalk ==
  ASSUME IInv, CInv, NEW w \in Workers, ShutDown(w)
  PROVE  CInv' /\ Closes
  <1>1. /\ pc[w] = "service" /\ pc' = [pc EXCEPT ![w] = "return"]
        /\ hand' = [hand EXCEPT ![w] = None]
        /\ lst_pending' = lst_pending /\ lst_done' = lst_done
        /\ wr_buf' = wr_buf /\ client' = client
    BY Zenon DEF ShutDown, Goto, epoll, kernel
  <1>2. PICK s \in Control :
          command[s] = "shutdown" /\ state' = [state EXCEPT ![s] = "closed"]
    BY DEF ShutDown, SetState
  <1>3. /\ pc'[w] = "return"
        /\ \A v \in Workers \ {w} : pc'[v] = pc[v] /\ hand'[v] = hand[v]
    BY <1>1, Types
  <1>4. HandedOver'
    <2>1. InOrder(w)'
      BY <1>1, <1>3 DEF CInv, HandedOver, InOrder
    <2> QED
      BY <1>1, <1>3, <2>1, Round DEF CInv
  <1>5. \A c \in Conns : state'[c] # state[c] => c = s /\ state'[c] = "closed"
    BY <1>2, NoneApart, Types
  <1>6. Talk'
    BY <1>1, <1>5, Quiet DEF CInv, Finished, Gone
  <1>7. Closes
    BY <1>2, <1>5 DEF Closes, CutOff
  <1> QED
    BY <1>4, <1>6, <1>7 DEF CInv

LEMMA StepTalk ==
  ASSUME IInv, CInv, NEW w \in Workers, Step(w)
  PROVE  CInv' /\ Closes
  <1>1. ASSUME \/ TakeJob(w) \/ TakeLow(w) \/ NoMore(w) \/ Prepare(w) \/ Requeue(w)
               \/ Stay(w) \/ LpEnd(w)
        PROVE  CInv' /\ Closes
    <2>1. /\ lst_done' = lst_done /\ lst_pending' = lst_pending
          /\ state' = state /\ wr_buf' = wr_buf /\ client' = client
      BY <1>1 DEF TakeJob, TakeLow, NoMore, Prepare, Requeue, Stay, LpEnd, epoll, content, kernel
    <2>2. /\ \A v \in Workers \ {w} : pc'[v] = pc[v] /\ hand'[v] = hand[v]
          /\ \/ pc'[w] \in {"get", "wait"} /\ hand'[w] = hand[w] /\ pc[w] \in {"take", "lp", "lp2"}
             \/ pc'[w] = "put" /\ lst_done[w] = <<>> /\ hand'[w] = hand[w] /\ pc[w] = "lp2"
             \/ pc'[w] \in {"service", "return"} /\ pc[w] \in {"take", "service"}
             \/ pc'[w] = "take" /\ hand'[w] = None /\ pc[w] = "return"
             \/ pc'[w] = "take" /\ hand'[w] = hand[w] /\ pc[w] = "check"
      <3>1. TakeJob(w) \/ TakeLow(w) \/ Prepare(w) \/ Requeue(w) \/ NoMore(w) \/ Stay(w) \/ LpEnd(w)
        BY <1>1
      <3> QED
        BY <3>1, Types DEF TakeJob, TakeLow, NoMore, Prepare, Requeue, Stay, LpEnd, Goto
    <2>3. InOrder(w)
      BY DEF CInv, HandedOver
    <2>4. lst_done[w] = <<>> => ToSet(lst_done[w]) = {}
      BY DEF ToSet
    <2>5. InOrder(w)'
      BY <2>1, <2>2, <2>3, <2>4, HelloApart DEF InOrder
    <2>6. HandedOver'
      BY <2>1, <2>2, <2>5, Round DEF CInv
    <2> QED
      BY <2>1, <2>6, QuietStep
  <1>2. ASSUME PutServed(w) \/ PutAll(w) PROVE CInv' /\ Closes
    <2>1. /\ lst_done' = lst_done /\ hand' = hand
          /\ lst_pending' = [lst_pending EXCEPT ![w] = @ \cap Keep]
          /\ state' = state /\ wr_buf' = wr_buf /\ client' = client
      BY <1>2 DEF PutServed, PutAll, Put, content, kernel
    <2>2. \/ pc' = [pc EXCEPT ![w] = "take"] /\ pc[w] = "return" /\ hand[w] = None
          \/ pc' = [pc EXCEPT ![w] = "check"] /\ pc[w] = "put"
      BY <1>2 DEF PutServed, PutAll, Goto
    <2>3. /\ lst_pending'[w] \subseteq Keep /\ lst_pending'[w] \subseteq lst_pending[w]
          /\ \A v \in Workers \ {w} : /\ pc'[v] = pc[v] /\ lst_pending'[v] = lst_pending[v]
                                      /\ hand'[v] = hand[v]
          /\ \/ pc'[w] = "take" /\ pc[w] = "return" /\ hand[w] = None
             \/ pc'[w] = "check" /\ pc[w] = "put"
      BY <2>1, <2>2, Types
    <2>4. InOrder(w)
      BY DEF CInv, HandedOver
    <2>5. InOrder(w)'
      BY <2>1, <2>3, <2>4 DEF InOrder
    <2>6. HandedOver'
      BY <2>1, <2>3, <2>5, Round DEF CInv
    <2> QED
      BY <2>1, <2>6, QuietStep
  <1>3. ASSUME Get(w) \/ EpollWait(w) PROVE CInv' /\ Closes
    <2>1. /\ lst_done' = lst_done /\ hand' = hand
          /\ \A v \in Workers \ {w} : lst_pending'[v] = lst_pending[v]
          /\ state' = state /\ wr_buf' = wr_buf /\ client' = client
      BY <1>3, Types DEF Get, EpollWait, content, kernel
    <2>2. PICK l \in {"lp", "perform"} :
            pc' = [pc EXCEPT ![w] = l] /\ pc[w] \in {"get", "wait"}
      BY <1>3 DEF Get, EpollWait, Goto
    <2>3. pc'[w] = l /\ \A v \in Workers \ {w} : pc'[v] = pc[v]
      BY <2>2, Types
    <2>4. InOrder(w)'
      BY <2>1, <2>2, <2>3 DEF CInv, HandedOver, InOrder
    <2>5. HandedOver'
      BY <2>1, <2>3, <2>4, Round DEF CInv
    <2> QED
      BY <2>1, <2>5, QuietStep
  <1>4. ASSUME Execute(w) \/ Perform(w) PROVE CInv' /\ Closes
    <2>1. PICK s \in Conns \ Hello : Answer(w, s)
      BY <1>4, SocketsAssumption DEF Execute, Perform, Conns
    <2> QED
      BY <2>1, AnswerTalk
  <1> QED
    BY <1>1, <1>2, <1>3, <1>4, DispatchTalk, EventTalk, TickTalk, AbandonTalk, ShutDownTalk, Zenon
       DEF Step

LEMMA ClientTalk ==
  ASSUME IInv, CInv, NEW c \in Conns, Connect(c) \/ Ask(c) \/ Hangup(c) \/ Drain(c)
  PROVE  CInv' /\ Closes
  <1>1. /\ pc' = pc /\ hand' = hand /\ lst_pending' = lst_pending /\ lst_done' = lst_done
        /\ state' = state /\ wr_buf' = wr_buf
    BY DEF Connect, Ask, Hangup, Drain, thread, epoll, content
  <1>2. /\ client \in [Conns -> {"new", "queued", "open", "asking", "served", "gone"}]
        /\ \/ client' = client
           \/ client[c] = "new" /\ client' = [client EXCEPT ![c] = "queued"]
           \/ client[c] = "open" /\ client' = [client EXCEPT ![c] = "asking"]
           \/ client' = [client EXCEPT ![c] = "gone"]
    BY Types DEF ContentOK, Connect, Ask, Hangup, Drain
  <1>3. \A d \in Conns : /\ Finished(d) => client'[d] \in {"served", "gone"}
                         /\ Gone(d) => client'[d] = "gone"
    BY <1>2 DEF Finished, Gone
  <1>4. Talk'
    BY <1>1, <1>3, Quiet DEF CInv
  <1>5. HandedOver' /\ Closes
    BY <1>1 DEF CInv, HandedOver, InOrder, Closes
  <1> QED
    BY <1>4, <1>5 DEF CInv

-----------------------------------------------------------------------------
(* The theorem.                                                            *)

LEMMA NextTalk ==
  ASSUME IInv, CInv, [Next]_vars
  PROVE  CInv' /\ Closes
  <1>1. CASE End
    <2>1. /\ pc' = pc /\ hand' = hand /\ lst_pending' = lst_pending /\ lst_done' = lst_done
          /\ wr_buf' = wr_buf /\ client' = client /\ AllGone
          /\ state' = [s \in Socks |-> "closed"]
      BY <1>1 DEF End, thread, epoll, kernel
    <2>2. Closes
      BY <2>1 DEF Closes, CutOff
    <2>3. Talk'
      BY <2>1, NoneApart, Quiet DEF CInv, Finished, Gone
    <2> QED
      BY <2>1, <2>2, <2>3 DEF CInv, HandedOver, InOrder
  <1>2. CASE UNCHANGED vars
    <2>1. /\ pc' = pc /\ hand' = hand /\ lst_pending' = lst_pending /\ lst_done' = lst_done
          /\ state' = state /\ wr_buf' = wr_buf /\ client' = client
      BY <1>2 DEF vars, thread, epoll, content, kernel
    <2>2. Closes
      BY <2>1 DEF Closes
    <2>3. Talk'
      BY <2>1, Quiet DEF CInv, Finished, Gone
    <2> QED
      BY <2>1, <2>2, <2>3 DEF CInv, HandedOver, InOrder
  <1> QED
    BY <1>1, <1>2, StepTalk, ClientTalk, Zenon DEF Next

\* Default, Control, PipeService: the server closes a connection only after a complete
\* answer or when the client has gone, whichever workers it passes through and however
\* these are flagged, leave or panic, but for the cases CutOff names.
THEOREM NobodyIsCutOff == SafeSpec => ClosedWhenDone
  <1>1. Init => CInv
    <2> SUFFICES ASSUME Init PROVE CInv
      OBVIOUS
    <2>1. \A c \in Conns : state[c] = "NotInitialized"
      BY SocketsAssumption DEF Init, Socks, Conns, Listeners
    <2>2. \A w \in Workers : /\ pc[w] = "take" /\ hand[w] = None /\ lst_done[w] = <<>>
                              /\ lst_pending[w] \subseteq Listeners
      BY DEF Init
    <2>3. ToSet(<<>>) = {}
      BY DEF ToSet
    <2>4. \A w \in Workers : InOrder(w)
      BY <2>2, <2>3, HelloApart DEF InOrder
    <2> QED
      BY <2>1, <2>4 DEF CInv, Talk, EndSeen, Answering, AnswerDone, HandedOver
  <1>2. IInv /\ CInv /\ [Next]_vars => CInv' /\ Closes
    BY NextTalk
  <1>3. Closes => (\A c \in Conns :
                     state[c] # "closed" /\ state'[c] = "closed" => Finished(c) \/ CutOff(c))
    BY DEF Closes
  <1> QED
    BY <1>1, <1>2, <1>3, Invariant, PTL DEF SafeSpec, ClosedWhenDone

=============================================================================
