--------------------------- MODULE LockOrderProofs --------------------------
(***************************************************************************)
(* The order of the locks for any set of workers: no circle of threads     *)
(* waits, nothing is leaked, and every lock is used as AbstractLock says.  *)
(***************************************************************************)
EXTENDS LockOrder, SequenceTheorems, TLAPS

\* An order that every passage follows: a thread takes a lock only if it is above all
\* that it holds.
Rank(a) == IF a \in {"lstCntrlM_", "lstSvcM_"} THEN 1
           ELSE IF a = "lstSvcLowM_" THEN 2
           ELSE IF a = "rtM_" THEN 3 ELSE 4

Above(a, h) == \A i \in DOMAIN h : Rank(h[i]) < Rank(a)

Doings == Locks \cup {"release", "test"}

\* What a thread holds and what is left of its passage.
Plans == Seq(Locks) \X Seq(Doings)

\* Whatever such plans demand next is allowed and leads to such a plan again; those
\* that are done leave the locks in rest.  A lock is not taken just after its release,
\* and nothing is released that is not held.
Sound(D, rest) ==
  \A h \in Seq(Locks), w \in Seq(Doings) :
    <<h, w>> \in D =>
      /\ w = <<>> => h = rest
      /\ w # <<>> /\ Head(w) \in Locks =>
           Above(Head(w), h) /\ <<<<Head(w)>> \o h, Tail(w)>> \in D
      /\ w # <<>> /\ Head(w) = "release" =>
           /\ h # <<>> /\ <<Tail(h), Tail(w)>> \in D
           /\ Tail(w) # <<>> => Head(Tail(w)) # Head(h)
      /\ w # <<>> /\ Head(w) = "test" => <<h, Tail(w)>> \in D

\* To do w while holding h keeps the order to its end and leaves rest.
Disciplined(h, w, rest) == \E D \in SUBSET Plans : Sound(D, rest) /\ <<h, w>> \in D

\* The main thread looks at lstCntrl_ under its lock.
Rest(p) == IF p \in {"main", "relock"} THEN <<"lstCntrlM_">> ELSE <<>>

\* Every thread is somewhere in a disciplined passage.
Discipline == \A t \in Threads : Disciplined(held[t], todo[t], Rest(passage[t]))

\* Nobody holds a lock twice, and no two threads hold the same.
Exclusive ==
  /\ \A t \in Threads : \A i, j \in DOMAIN held[t] : held[t][i] = held[t][j] => i = j
  /\ \A a \in Locks : \A t, u \in Holders(a) : t = u

IInv == TypeOK /\ Discipline /\ Exclusive

-----------------------------------------------------------------------------
(* Sequences from the front.                                               *)

LEMMA Cons ==
  ASSUME NEW S, NEW x \in S, NEW s \in Seq(S)
  PROVE  /\ <<x>> \o s \in Seq(S) /\ <<x>> \o s # <<>>
         /\ Head(<<x>> \o s) = x /\ Tail(<<x>> \o s) = s
         /\ Len(<<x>> \o s) = Len(s) + 1
         /\ (<<x>> \o s)[1] = x /\ \A i \in 1..Len(s) : (<<x>> \o s)[i + 1] = s[i]
  <1> DEFINE c == <<x>> \o s
  <1>1. <<x>> \in Seq(S) /\ Len(<<x>>) = 1 /\ <<x>>[1] = x
    OBVIOUS
  <1>2. Len(s) \in Nat
    BY LenProperties
  <1>3. /\ c \in Seq(S) /\ Len(c) = Len(s) + 1
        /\ \A i \in 1..Len(s) + 1 : c[i] = IF i <= 1 THEN x ELSE s[i - 1]
    BY <1>1, ConcatProperties
  <1>4. c[1] = x /\ \A i \in 1..Len(s) : c[i + 1] = s[i]
    BY <1>2, <1>3
  <1> HIDE DEF c
  <1>5. c # <<>>
    BY <1>2, <1>3
  <1>6. Head(c) = x
    BY <1>3, <1>4, <1>5
  <1>7. /\ Tail(c) \in Seq(S) /\ Len(Tail(c)) = Len(s)
        /\ \A i \in 1..Len(s) : Tail(c)[i] = s[i]
    BY <1>2, <1>3, <1>4, <1>5, HeadTailProperties
  <1>8. Tail(c) = s
    BY <1>7, SeqEqual
  <1> QED
    BY <1>3, <1>4, <1>5, <1>6, <1>8 DEF c

LEMMA AboveNothing == \A a : Above(a, <<>>)
  BY DEF Above

LEMMA AboveMore ==
  ASSUME NEW h \in Seq(Locks), NEW a \in Locks, NEW b \in Locks, Above(a, h),
         Rank(b) < Rank(a)
  PROVE  Above(a, <<b>> \o h)
  <1> DEFINE c == <<b>> \o h
  <1>1. /\ c \in Seq(Locks) /\ Len(c) = Len(h) + 1 /\ c[1] = b
        /\ \A i \in 1..Len(h) : c[i + 1] = h[i]
    BY Cons
  <1>2. Len(h) \in Nat /\ DOMAIN h = 1..Len(h) /\ DOMAIN c = 1..Len(h) + 1
    BY <1>1, LenProperties
  <1> HIDE DEF c
  <1>3. ASSUME NEW i \in 1..Len(h) + 1 PROVE Rank(c[i]) < Rank(a)
    <2>1. CASE i = 1
      BY <1>1, <2>1
    <2>2. CASE i # 1
      <3>1. i - 1 \in 1..Len(h) /\ c[i] = h[i - 1]
        BY <1>1, <1>2, <2>2
      <3> QED
        BY <1>2, <3>1 DEF Above
    <2> QED
      BY <2>1, <2>2
  <1> QED
    BY <1>2, <1>3 DEF Above, c

-----------------------------------------------------------------------------
(* Disciplined plans, from their ends.                                     *)

LEMMA Kinds == "release" \notin Locks /\ "test" \notin Locks
  BY DEF Locks

LEMMA PlanTypes ==
  ASSUME NEW h, NEW w, NEW rest, Disciplined(h, w, rest)
  PROVE  h \in Seq(Locks) /\ w \in Seq(Doings)
  BY DEF Disciplined, Plans

LEMMA Finished ==
  ASSUME NEW rest \in Seq(Locks)
  PROVE  Disciplined(rest, <<>>, rest)
  <1> DEFINE D == {<<rest, <<>>>>}
  <1>1. D \in SUBSET Plans
    <2>1. <<>> \in Seq(Doings)
      OBVIOUS
    <2>2. <<rest, <<>>>> \in Plans
      BY <2>1, Zenon DEF Plans
    <2> QED
      BY <2>2, Zenon
  <1>2. Sound(D, rest)
    <2> SUFFICES ASSUME NEW h \in Seq(Locks), NEW w \in Seq(Doings), <<h, w>> \in D
                 PROVE  h = rest /\ w = <<>>
      BY Zenon DEF Sound
    <2> QED
      OBVIOUS
  <1> QED
    BY <1>1, <1>2 DEF Disciplined

\* A plan may be put before those it leads to.
LEMMA Before ==
  ASSUME NEW rest, NEW D \in SUBSET Plans, Sound(D, rest),
         NEW h \in Seq(Locks), NEW w \in Seq(Doings), w # <<>>,
         Head(w) \in Locks =>
           Above(Head(w), h) /\ <<<<Head(w)>> \o h, Tail(w)>> \in D,
         Head(w) = "release" =>
           /\ h # <<>> /\ <<Tail(h), Tail(w)>> \in D
           /\ Tail(w) # <<>> => Head(Tail(w)) # Head(h),
         Head(w) = "test" => <<h, Tail(w)>> \in D
  PROVE  Disciplined(h, w, rest)
  <1> DEFINE E == D \cup {<<h, w>>}
  <1>1. E \in SUBSET Plans
    BY DEF Plans
  <1>2. ASSUME NEW g \in Seq(Locks), NEW v \in Seq(Doings), <<g, v>> \in E
        PROVE  /\ v = <<>> => g = rest
               /\ v # <<>> /\ Head(v) \in Locks =>
                    Above(Head(v), g) /\ <<<<Head(v)>> \o g, Tail(v)>> \in E
               /\ v # <<>> /\ Head(v) = "release" =>
                    /\ g # <<>> /\ <<Tail(g), Tail(v)>> \in E
                    /\ Tail(v) # <<>> => Head(Tail(v)) # Head(g)
               /\ v # <<>> /\ Head(v) = "test" => <<g, Tail(v)>> \in E
    <2>1. CASE <<g, v>> \in D
      BY <2>1, Zenon DEF Sound
    <2>2. CASE g = h /\ v = w
      BY <2>2, Zenon
    <2> QED
      BY <1>2, <2>1, <2>2
  <1> HIDE DEF E
  <1>3. Sound(E, rest)
    BY <1>2, Zenon DEF Sound
  <1>4. <<h, w>> \in E
    BY DEF E
  <1> QED
    BY <1>1, <1>3, <1>4, Zenon DEF Disciplined

LEMMA Takes ==
  ASSUME NEW rest, NEW h \in Seq(Locks), NEW w, NEW a \in Locks,
         Disciplined(<<a>> \o h, w, rest), Above(a, h)
  PROVE  Disciplined(h, <<a>> \o w, rest)
  <1>1. w \in Seq(Doings) /\ a \in Doings
    BY PlanTypes DEF Doings
  <1>2. /\ <<a>> \o w \in Seq(Doings) /\ <<a>> \o w # <<>>
        /\ Head(<<a>> \o w) = a /\ Tail(<<a>> \o w) = w
    BY <1>1, Cons
  <1>3. PICK D \in SUBSET Plans : Sound(D, rest) /\ <<<<a>> \o h, w>> \in D
    BY DEF Disciplined
  <1>4. a # "release" /\ a # "test"
    BY Kinds
  <1> QED
    BY <1>2, <1>3, <1>4, Before

LEMMA GivesBack ==
  ASSUME NEW rest, NEW h, NEW w, NEW a \in Locks, Disciplined(h, w, rest),
         w # <<>> => Head(w) # a
  PROVE  /\ Disciplined(<<a>> \o h, <<"release">> \o w, rest)
         /\ <<"release">> \o w # <<>> /\ Head(<<"release">> \o w) = "release"
  <1>1. h \in Seq(Locks) /\ w \in Seq(Doings) /\ "release" \in Doings
    BY PlanTypes DEF Doings
  <1>2. /\ <<"release">> \o w \in Seq(Doings) /\ <<"release">> \o w # <<>>
        /\ Head(<<"release">> \o w) = "release" /\ Tail(<<"release">> \o w) = w
    BY <1>1, Cons
  <1>3. /\ <<a>> \o h \in Seq(Locks) /\ <<a>> \o h # <<>>
        /\ Head(<<a>> \o h) = a /\ Tail(<<a>> \o h) = h
    BY <1>1, Cons
  <1>4. PICK D \in SUBSET Plans : Sound(D, rest) /\ <<h, w>> \in D
    BY DEF Disciplined
  <1>5. "release" \notin Locks /\ "release" # "test"
    BY Kinds
  <1> QED
    BY <1>2, <1>3, <1>4, <1>5, Before

LEMMA Looks ==
  ASSUME NEW rest, NEW h, NEW w, Disciplined(h, w, rest)
  PROVE  /\ Disciplined(h, <<"test">> \o w, rest)
         /\ <<"test">> \o w # <<>> /\ Head(<<"test">> \o w) = "test"
  <1>1. h \in Seq(Locks) /\ w \in Seq(Doings) /\ "test" \in Doings
    BY PlanTypes DEF Doings
  <1>2. /\ <<"test">> \o w \in Seq(Doings) /\ <<"test">> \o w # <<>>
        /\ Head(<<"test">> \o w) = "test" /\ Tail(<<"test">> \o w) = w
    BY <1>1, Cons
  <1>3. PICK D \in SUBSET Plans : Sound(D, rest) /\ <<h, w>> \in D
    BY DEF Disciplined
  <1>4. "test" \notin Locks /\ "test" # "release"
    BY Kinds
  <1> QED
    BY <1>1, <1>2, <1>3, <1>4, Before

-----------------------------------------------------------------------------
(* The passages.                                                           *)

\* A lock taken and released at once, before the rest of a passage.
LEMMA BriefOn ==
  ASSUME NEW rest, NEW h, NEW w, Disciplined(h, w, rest), NEW a \in Locks, Above(a, h),
         w # <<>> => Head(w) # a
  PROVE  /\ Disciplined(h, Brief(a) \o w, rest)
         /\ Brief(a) \o w # <<>> /\ Head(Brief(a) \o w) = a
  <1>1. h \in Seq(Locks) /\ w \in Seq(Doings) /\ a \in Doings /\ "release" \in Doings
    BY PlanTypes DEF Doings
  <1>2. Brief(a) \o w = <<a>> \o (<<"release">> \o w)
    <2>1. <<a>> \o <<>> = <<a>>
      BY <1>1, ConcatEmptySeq
    <2>2. <<a>> \in Seq(Doings) /\ <<"release">> \in Seq(Doings)
      BY <1>1
    <2>3. Brief(a) = <<a>> \o <<"release">>
      BY <2>1 DEF Brief, Guarded
    <2> QED
      BY <1>1, <2>2, <2>3, ConcatAssociative
  <1>3. Disciplined(<<a>> \o h, <<"release">> \o w, rest)
    BY GivesBack
  <1>4. Disciplined(h, <<a>> \o (<<"release">> \o w), rest)
    BY <1>1, <1>3, Takes
  <1>5. /\ <<a>> \o (<<"release">> \o w) # <<>>
        /\ Head(<<a>> \o (<<"release">> \o w)) = a
    BY <1>1, Cons
  <1> QED
    BY <1>2, <1>4, <1>5

\* A lock held during what is inside.
LEMMA GuardedOn ==
  ASSUME NEW rest, NEW h \in Seq(Locks), NEW inside \in Seq(Doings), NEW w \in Seq(Doings),
         NEW a \in Locks, Above(a, h),
         Disciplined(<<a>> \o h, inside \o (<<"release">> \o w), rest)
  PROVE  /\ Disciplined(h, Guarded(a, inside) \o w, rest)
         /\ Guarded(a, inside) \o w # <<>> /\ Head(Guarded(a, inside) \o w) = a
  <1>1. /\ a \in Doings /\ "release" \in Doings
        /\ <<a>> \in Seq(Doings) /\ <<"release">> \in Seq(Doings)
    BY DEF Doings
  <1>2. Guarded(a, inside) \o w = <<a>> \o (inside \o (<<"release">> \o w))
    <2>1. <<a>> \o inside \in Seq(Doings) /\ <<"release">> \o w \in Seq(Doings)
      BY <1>1, ConcatProperties
    <2>2. Guarded(a, inside) \o w = (<<a>> \o inside) \o (<<"release">> \o w)
      BY <1>1, <2>1, ConcatAssociative DEF Guarded
    <2>3. @ = <<a>> \o (inside \o (<<"release">> \o w))
      BY <1>1, <2>1, ConcatAssociative
    <2> QED
      BY <2>2, <2>3
  <1>3. inside \o (<<"release">> \o w) \in Seq(Doings)
    BY PlanTypes
  <1>4. Disciplined(h, <<a>> \o (inside \o (<<"release">> \o w)), rest)
    BY Takes
  <1>5. /\ <<a>> \o (inside \o (<<"release">> \o w)) # <<>>
        /\ Head(<<a>> \o (inside \o (<<"release">> \o w))) = a
    BY <1>1, <1>3, Cons
  <1> QED
    BY <1>2, <1>4, <1>5

\* Passages are sequences of doings.
LEMMA WayTypes ==
  /\ \A a \in Locks : Brief(a) \in Seq(Doings)
  /\ \A a \in Locks, inside \in Seq(Doings) : Guarded(a, inside) \in Seq(Doings)
  /\ \A s, t \in Seq(Doings) : s \o t \in Seq(Doings)
  /\ <<"test">> \in Seq(Doings) /\ <<"release">> \in Seq(Doings) /\ <<>> \in Seq(Doings)
  <1>1. \A s, t \in Seq(Doings) : s \o t \in Seq(Doings)
    BY ConcatProperties
  <1>2. <<"test">> \in Seq(Doings) /\ <<"release">> \in Seq(Doings) /\ <<>> \in Seq(Doings)
    BY DEF Doings
  <1>3. \A a \in Locks, inside \in Seq(Doings) : Guarded(a, inside) \in Seq(Doings)
    <2> TAKE a \in Locks, inside \in Seq(Doings)
    <2>1. <<a>> \in Seq(Doings)
      BY DEF Doings
    <2> QED
      BY <1>1, <1>2, <2>1 DEF Guarded
  <1> QED
    BY <1>1, <1>2, <1>3 DEF Brief

\* A whole passage that is one lock with something inside, if the inside keeps the
\* order and ends with the lock's release.
LEMMA WholeGuarded ==
  ASSUME NEW a \in Locks, NEW inside \in Seq(Doings),
         Disciplined(<<a>> \o <<>>, inside \o (<<"release">> \o <<>>), <<>>)
  PROVE  Disciplined(<<>>, Guarded(a, inside), <<>>)
  <1>1. <<>> \in Seq(Locks) /\ <<>> \in Seq(Doings) /\ Above(a, <<>>)
    BY AboveNothing
  <1>2. Disciplined(<<>>, Guarded(a, inside) \o <<>>, <<>>)
    BY <1>1, GuardedOn
  <1>3. Guarded(a, inside) \o <<>> = Guarded(a, inside)
    BY WayTypes, ConcatEmptySeq
  <1> QED
    BY <1>2, <1>3

\* The end of such a passage.
LEMMA LastRelease ==
  ASSUME NEW a \in Locks
  PROVE  /\ Disciplined(<<a>> \o <<>>, <<"release">> \o <<>>, <<>>)
         /\ <<a>> \o <<>> \in Seq(Locks)
         /\ <<"release">> \o <<>> # <<>> /\ Head(<<"release">> \o <<>>) = "release"
         /\ \A b \in Locks : Rank(a) < Rank(b) => Above(b, <<a>> \o <<>>)
  <1>1. <<>> \in Seq(Locks) /\ Disciplined(<<>>, <<>>, <<>>)
    <2>1. <<>> \in Seq(Locks)
      OBVIOUS
    <2> QED
      BY <2>1, Finished, Zenon
  <1>2. <<a>> \o <<>> \in Seq(Locks)
    BY <1>1, Cons
  <1> QED
    BY <1>1, <1>2, GivesBack, AboveMore, AboveNothing

LEMMA BriefWay ==
  ASSUME NEW a \in Locks
  PROVE  Disciplined(<<>>, Brief(a), <<>>) /\ Head(Brief(a)) = a
  <1>1. Disciplined(<<a>> \o <<>>, <<>> \o (<<"release">> \o <<>>), <<>>)
    <2>1. <<"release">> \o <<>> \in Seq(Doings)
      BY WayTypes
    <2>2. <<>> \o (<<"release">> \o <<>>) = <<"release">> \o <<>>
      BY <2>1, ConcatEmptySeq
    <2> QED
      BY <2>2, LastRelease
  <1>2. Head(Brief(a)) = a
    <2>1. a \in Doings /\ <<a>> \in Seq(Doings) /\ <<"release">> \in Seq(Doings)
      BY DEF Doings
    <2>2. Brief(a) = <<a>> \o <<"release">>
      BY <2>1, ConcatEmptySeq DEF Brief, Guarded
    <2> QED
      BY <2>1, <2>2, Cons
  <1> QED
    BY <1>1, <1>2, WholeGuarded, WayTypes DEF Brief

LEMMA NestedWay ==
  ASSUME NEW a \in Locks, NEW b \in Locks, Rank(a) < Rank(b)
  PROVE  Disciplined(<<>>, Guarded(a, Brief(b)), <<>>)
  <1>1. Disciplined(<<a>> \o <<>>, Brief(b) \o (<<"release">> \o <<>>), <<>>)
    BY LastRelease, Kinds, BriefOn
  <1> QED
    BY <1>1, WholeGuarded, WayTypes

\* Two locks one after the other inside a third.
LEMMA TwiceNestedWay ==
  ASSUME NEW a \in Locks, NEW b \in Locks, NEW c \in Locks, Rank(a) < Rank(b),
         Rank(a) < Rank(c), b # c
  PROVE  Disciplined(<<>>, Guarded(a, Brief(b) \o Brief(c)), <<>>)
  <1> DEFINE last == <<"release">> \o <<>>
  <1>1. /\ Disciplined(<<a>> \o <<>>, last, <<>>) /\ last # <<>> /\ Head(last) = "release"
        /\ last \in Seq(Doings) /\ Above(b, <<a>> \o <<>>) /\ Above(c, <<a>> \o <<>>)
    BY LastRelease, WayTypes
  <1> HIDE DEF last
  <1>2. /\ Disciplined(<<a>> \o <<>>, Brief(c) \o last, <<>>)
        /\ Head(Brief(c) \o last) = c
    BY <1>1, Kinds, BriefOn
  <1>3. Disciplined(<<a>> \o <<>>, Brief(b) \o (Brief(c) \o last), <<>>)
    BY <1>1, <1>2, BriefOn
  <1>4. (Brief(b) \o Brief(c)) \o last = Brief(b) \o (Brief(c) \o last)
    <2>1. Brief(b) \in Seq(Doings) /\ Brief(c) \in Seq(Doings)
      BY WayTypes
    <2> QED
      BY <1>1, <2>1, ConcatAssociative
  <1>5. Disciplined(<<a>> \o <<>>, (Brief(b) \o Brief(c)) \o (<<"release">> \o <<>>), <<>>)
    BY <1>3, <1>4 DEF last
  <1> QED
    BY <1>5, WholeGuarded, WayTypes

\* Claim, when the worker that is to start others looks at their number again.
LEMMA DeepNestedWay ==
  ASSUME NEW a \in Locks, NEW b \in Locks, NEW c \in Locks, Rank(a) < Rank(b),
         Rank(b) < Rank(c), Rank(a) < Rank(c), b # c
  PROVE  Disciplined(<<>>, Guarded(a, Brief(c) \o Guarded(b, Brief(c))), <<>>)
  <1> DEFINE last == <<"release">> \o <<>>
             h == <<a>> \o <<>>
  <1>1. /\ Disciplined(h, last, <<>>) /\ last # <<>> /\ Head(last) = "release"
        /\ last \in Seq(Doings) /\ Above(b, h) /\ Above(c, h) /\ h \in Seq(Locks)
    BY LastRelease, WayTypes
  <1> HIDE DEF last, h
  <1>2. Disciplined(<<b>> \o h, <<"release">> \o last, <<>>)
        /\ <<"release">> \o last # <<>> /\ Head(<<"release">> \o last) = "release"
    BY <1>1, Kinds, GivesBack
  <1>3. Disciplined(<<b>> \o h, Brief(c) \o (<<"release">> \o last), <<>>)
    <2>1. Above(c, <<b>> \o h)
      BY <1>1, AboveMore
    <2> QED
      BY <1>2, <2>1, Kinds, BriefOn
  <1>4. /\ Disciplined(h, Guarded(b, Brief(c)) \o last, <<>>)
        /\ Head(Guarded(b, Brief(c)) \o last) = b
    BY <1>1, <1>3, WayTypes, GuardedOn
  <1>5. Disciplined(h, Brief(c) \o (Guarded(b, Brief(c)) \o last), <<>>)
    BY <1>1, <1>4, BriefOn
  <1>6. (Brief(c) \o Guarded(b, Brief(c))) \o last = Brief(c) \o (Guarded(b, Brief(c)) \o last)
    <2>1. Brief(c) \in Seq(Doings) /\ Guarded(b, Brief(c)) \in Seq(Doings)
      BY WayTypes
    <2> QED
      BY <1>1, <2>1, ConcatAssociative
  <1>7. Disciplined(<<a>> \o <<>>,
                    (Brief(c) \o Guarded(b, Brief(c))) \o (<<"release">> \o <<>>), <<>>)
    BY <1>5, <1>6 DEF last, h
  <1> QED
    BY <1>7, WholeGuarded, WayTypes

\* Claim, when it does not: the same lock twice, with a test between.
LEMMA TestedWay ==
  ASSUME NEW a \in Locks, NEW b \in Locks, Rank(a) < Rank(b)
  PROVE  Disciplined(<<>>, Guarded(a, Brief(b) \o <<"test">> \o Brief(b)), <<>>)
  <1> DEFINE last == <<"release">> \o <<>>
             h == <<a>> \o <<>>
  <1>1. /\ Disciplined(h, last, <<>>) /\ last # <<>> /\ Head(last) = "release"
        /\ last \in Seq(Doings) /\ Above(b, h)
    BY LastRelease, WayTypes
  <1> HIDE DEF last, h
  <1>2. Disciplined(h, Brief(b) \o last, <<>>)
    BY <1>1, Kinds, BriefOn
  <1>3. /\ Disciplined(h, <<"test">> \o (Brief(b) \o last), <<>>)
        /\ Head(<<"test">> \o (Brief(b) \o last)) = "test"
    BY <1>2, Looks
  <1>4. Disciplined(h, Brief(b) \o (<<"test">> \o (Brief(b) \o last)), <<>>)
    BY <1>1, <1>3, Kinds, BriefOn
  <1>5. (Brief(b) \o <<"test">> \o Brief(b)) \o last
          = Brief(b) \o (<<"test">> \o (Brief(b) \o last))
    <2>1. /\ Brief(b) \in Seq(Doings) /\ <<"test">> \in Seq(Doings)
          /\ Brief(b) \o <<"test">> \in Seq(Doings) /\ Brief(b) \o last \in Seq(Doings)
      BY <1>1, WayTypes
    <2>2. (Brief(b) \o <<"test">> \o Brief(b)) \o last
            = (Brief(b) \o <<"test">>) \o (Brief(b) \o last)
      BY <1>1, <2>1, ConcatAssociative
    <2>3. @ = Brief(b) \o (<<"test">> \o (Brief(b) \o last))
      BY <1>1, <2>1, ConcatAssociative
    <2> QED
      BY <2>2, <2>3
  <1>6. Disciplined(<<a>> \o <<>>,
                    (Brief(b) \o <<"test">> \o Brief(b)) \o (<<"release">> \o <<>>), <<>>)
    BY <1>4, <1>5 DEF last, h
  <1> QED
    BY <1>6, WholeGuarded, WayTypes

\* EPoll::run takes the two job queues and the number of running threads, and perhaps
\* looks at the idle ones.
LEMMA TakeWay == \A way \in Take : Disciplined(<<>>, way, <<>>)
  <1> DEFINE a == "lstSvcM_"
             b == "lstSvcLowM_"
             c == "rtM_"
             d == "threadsAvailM_"
             last == <<"release">> \o <<>>
             h == <<a>> \o <<>>
  <1>1. /\ a \in Locks /\ b \in Locks /\ c \in Locks /\ d \in Locks
        /\ Rank(a) = 1 /\ Rank(b) = 2 /\ Rank(c) = 3 /\ Rank(d) = 4
    BY DEF Locks, Rank
  <1> HIDE DEF a, b, c, d
  <1>2. Rank(a) < Rank(b) /\ Rank(a) < Rank(c) /\ Rank(a) < Rank(d) /\ Rank(b) < Rank(c)
        /\ Rank(b) < Rank(d) /\ Rank(c) < Rank(d)
    BY <1>1
  <1>3. /\ Disciplined(h, last, <<>>) /\ last # <<>> /\ Head(last) = "release"
        /\ last \in Seq(Doings) /\ h \in Seq(Locks)
        /\ Above(b, h) /\ Above(c, h) /\ Above(d, h)
    BY <1>1, <1>2, LastRelease, WayTypes
  <1> DEFINE last2 == <<"release">> \o last
             h2 == <<b>> \o h
             last3 == <<"release">> \o last2
             h3 == <<c>> \o h2
  <1> HIDE DEF h, last
  <1>4. /\ Disciplined(h2, last2, <<>>) /\ last2 # <<>> /\ Head(last2) = "release"
        /\ last2 \in Seq(Doings) /\ h2 \in Seq(Locks)
        /\ Above(c, h2) /\ Above(d, h2)
    <2>1. Disciplined(h2, last2, <<>>) /\ last2 # <<>> /\ Head(last2) = "release"
      BY <1>1, <1>3, Kinds, GivesBack
    <2>2. last2 \in Seq(Doings) /\ h2 \in Seq(Locks)
      BY <1>1, <1>3, WayTypes, Cons
    <2> QED
      BY <1>1, <1>2, <1>3, <2>1, <2>2, AboveMore
  <1> HIDE DEF last2, h2
  <1>5. /\ Disciplined(h3, last3, <<>>) /\ last3 # <<>> /\ Head(last3) = "release"
        /\ last3 \in Seq(Doings) /\ Above(d, h3)
    <2>1. Disciplined(h3, last3, <<>>) /\ last3 # <<>> /\ Head(last3) = "release"
      BY <1>1, <1>4, Kinds, GivesBack
    <2>2. last3 \in Seq(Doings)
      BY <1>4, WayTypes
    <2> QED
      BY <1>1, <1>2, <1>4, <2>1, <2>2, AboveMore
  <1> HIDE DEF last3, h3
  <1>6. ASSUME NEW inside \in {<<>>, Brief(d)}
        PROVE  Disciplined(<<>>, Guarded(a, Guarded(b, Guarded(c, inside))), <<>>)
    <2>1. inside \in Seq(Doings)
      BY <1>1, <1>6, WayTypes
    <2>2. Disciplined(h3, inside \o last3, <<>>)
      <3>1. CASE inside = <<>>
        <4>1. <<>> \o last3 = last3
          BY <1>5, ConcatEmptySeq
        <4> QED
          BY <1>5, <3>1, <4>1
      <3>2. CASE inside = Brief(d)
        BY <1>1, <1>5, <3>2, Kinds, BriefOn
      <3> QED
        BY <1>6, <3>1, <3>2
    <2>3. Disciplined(h2, Guarded(c, inside) \o last2, <<>>)
      BY <1>1, <1>4, <2>1, <2>2, GuardedOn DEF h3, last3
    <2>4. Disciplined(h, Guarded(b, Guarded(c, inside)) \o last, <<>>)
      BY <1>1, <1>3, <2>1, <2>3, WayTypes, GuardedOn DEF h2, last2
    <2>5. Guarded(b, Guarded(c, inside)) \in Seq(Doings)
      BY <1>1, <2>1, WayTypes
    <2> QED
      BY <1>1, <2>4, <2>5, WholeGuarded DEF h, last
  <1> QED
    BY <1>6 DEF Take, a, b, c, d

\* ServiceInfo, then the job queue: callbacks.
LEMMA CallWay ==
  ASSUME NEW a \in Locks, NEW b \in Locks, a # b
  PROVE  Disciplined(<<>>, Brief(a) \o Brief(b), <<>>)
  BY BriefWay, AboveNothing, BriefOn

\* The main thread: to its wait, which keeps lstCntrlM_, through the wait, and out.
LEMMA MainWays ==
  LET c == "lstCntrlM_" IN
  /\ Disciplined(<<>>, Brief("threadsAvailM_") \o Brief("lstEPollM_") \o <<c>>, <<c>>)
  /\ Disciplined(<<c>>, <<"release">>, <<>>)
  /\ Disciplined(<<>>, <<c>>, <<c>>)
  /\ Disciplined(<<c>>, <<"release">> \o Brief("lstEPollM_"), <<>>)
  <1> DEFINE c == "lstCntrlM_"
             d == "threadsAvailM_"
             e == "lstEPollM_"
  <1>1. /\ c \in Locks /\ d \in Locks /\ e \in Locks /\ c # d /\ c # e /\ d # e
    BY DEF Locks
  <1> HIDE DEF c, d, e
  <1>2. /\ <<>> \in Seq(Locks) /\ <<>> \in Seq(Doings) /\ <<c>> \in Seq(Locks)
        /\ <<c>> \in Seq(Doings) /\ <<"release">> \in Seq(Doings)
    BY <1>1 DEF Doings
  <1>3. /\ <<c>> \o <<>> = <<c>> /\ <<"release">> \o <<>> = <<"release">>
    BY <1>2, ConcatEmptySeq
  <1>4. Disciplined(<<>>, <<>>, <<>>) /\ Disciplined(<<c>>, <<>>, <<c>>)
    BY <1>2, Finished, Zenon
  <1>5. Disciplined(<<c>>, <<"release">>, <<>>)
    BY <1>1, <1>3, <1>4, GivesBack
  <1>6. Disciplined(<<>>, <<c>>, <<c>>)
    BY <1>1, <1>2, <1>3, <1>4, AboveNothing, Takes
  <1>7. Disciplined(<<c>>, <<"release">> \o Brief(e), <<>>)
    <2>1. Disciplined(<<>>, Brief(e), <<>>) /\ Head(Brief(e)) = e
      BY <1>1, BriefWay
    <2> QED
      BY <1>1, <1>3, <2>1, GivesBack
  <1>8. Disciplined(<<>>, Brief(d) \o Brief(e) \o <<c>>, <<c>>)
    <2>1. /\ Disciplined(<<>>, Brief(e) \o <<c>>, <<c>>)
          /\ Head(Brief(e) \o <<c>>) = e
      <3>1. Head(<<c>>) = c
        OBVIOUS
      <3> QED
        BY <1>1, <1>6, <3>1, AboveNothing, BriefOn
    <2>2. Disciplined(<<>>, Brief(d) \o (Brief(e) \o <<c>>), <<c>>)
      BY <1>1, <2>1, AboveNothing, BriefOn
    <2>3. Brief(d) \o Brief(e) \o <<c>> = Brief(d) \o (Brief(e) \o <<c>>)
      BY <1>1, <1>2, WayTypes, ConcatAssociative
    <2> QED
      BY <2>2, <2>3
  <1> QED
    BY <1>5, <1>6, <1>7, <1>8 DEF c, d, e

\* What a thread holds when it comes to a passage.
Upon(p) == IF p \in {"perform", "exit"} THEN <<"lstCntrlM_">> ELSE <<>>

LEMMA WaysDisciplined ==
  \A p \in Passages : \A way \in Ways[p] : Disciplined(Upon(p), way, Rest(p))
  <1> SUFFICES ASSUME NEW p \in Passages, NEW way \in Ways[p]
               PROVE  Disciplined(Upon(p), way, Rest(p))
    OBVIOUS
  <1>1. /\ "lstCntrlM_" \in Locks /\ "lstSvcM_" \in Locks /\ "lstSvcLowM_" \in Locks
        /\ "lstSocketM_" \in Locks /\ "threadsAvailM_" \in Locks /\ "rtM_" \in Locks
        /\ "lstEPollM_" \in Locks /\ "l" \in Locks /\ "buf_" \in Locks
    BY DEF Locks
  <1>2. /\ Rank("lstCntrlM_") = 1 /\ Rank("lstSvcM_") = 1 /\ Rank("rtM_") = 3
        /\ Rank("threadsAvailM_") = 4 /\ Rank("lstSocketM_") = 4 /\ Rank("l") = 4
        /\ Rank("lstEPollM_") = 4
    BY DEF Rank
  <1>3. CASE p \in {"new", "drop", "wakeFini", "enter", "leave", "register", "status", "report",
                   "fini", "start", "accum", "conn", "requeue", "put", "get", "putAll", "log"}
    <2>1. Ways[p] \in {{Brief(a)} : a \in Locks}
      BY <1>1, <1>3 DEF Ways
    <2>2. Upon(p) = <<>> /\ Rest(p) = <<>>
      BY <1>3 DEF Upon, Rest
    <2> QED
      BY <2>1, <2>2, BriefWay
  <1>4. CASE p = "take"
    <2>1. Ways[p] = Take /\ Upon(p) = <<>> /\ Rest(p) = <<>>
      BY <1>4 DEF Ways, Upon, Rest
    <2> QED
      BY <2>1, TakeWay
  <1>5. CASE p = "claim"
    <2>1. Ways[p] = Claim /\ Upon(p) = <<>> /\ Rest(p) = <<>>
      BY <1>5 DEF Ways, Upon, Rest
    <2>2. /\ Disciplined(<<>>, Guarded("lstCntrlM_", Brief("threadsAvailM_") \o Brief("rtM_")), <<>>)
          /\ Disciplined(<<>>, Guarded("lstCntrlM_",
               Brief("threadsAvailM_") \o Guarded("rtM_", Brief("threadsAvailM_"))), <<>>)
          /\ Disciplined(<<>>, Guarded("lstCntrlM_",
               Brief("threadsAvailM_") \o <<"test">> \o Brief("threadsAvailM_")), <<>>)
          /\ Disciplined(<<>>, Guarded("lstCntrlM_", Brief("threadsAvailM_")), <<>>)
      BY <1>1, <1>2, TwiceNestedWay, DeepNestedWay, TestedWay, NestedWay
    <2> QED
      BY <2>1, <2>2 DEF Claim
  <1>6. CASE p = "control"
    <2>1. Ways[p] = ControlWays /\ Upon(p) = <<>> /\ Rest(p) = <<>>
      BY <1>6 DEF Ways, Upon, Rest
    <2>2. /\ Disciplined(<<>>, Guarded("lstCntrlM_", Brief("threadsAvailM_") \o Brief("l")), <<>>)
          /\ Disciplined(<<>>, Brief("lstCntrlM_"), <<>>)
      BY <1>1, <1>2, TwiceNestedWay, BriefWay
    <2> QED
      BY <2>1, <2>2 DEF ControlWays
  <1>7. CASE p \in {"finish", "wakeAll", "check"}
    <2>1. /\ Ways[p] \in {Finish, WakeAll, Check} /\ Upon(p) = <<>> /\ Rest(p) = <<>>
      BY <1>7 DEF Ways, Upon, Rest
    <2>2. /\ Disciplined(<<>>, Guarded("lstCntrlM_", Brief("threadsAvailM_")), <<>>)
          /\ Disciplined(<<>>, Guarded("lstSvcM_", Brief("lstEPollM_")), <<>>)
          /\ Disciplined(<<>>, Guarded("lstCntrlM_", Brief("lstSocketM_")), <<>>)
          /\ Disciplined(<<>>, Brief("lstCntrlM_"), <<>>)
          /\ Disciplined(<<>>, Brief("lstSvcM_"), <<>>)
      BY <1>1, <1>2, NestedWay, BriefWay
    <2> QED
      BY <2>1, <2>2 DEF Finish, WakeAll, Check
  <1>8. CASE p = "call"
    <2>1. Ways[p] = {Brief("l") \o Brief("lstSvcM_")} /\ Upon(p) = <<>> /\ Rest(p) = <<>>
      BY <1>8 DEF Ways, Upon, Rest
    <2> QED
      BY <1>1, <2>1, CallWay
  <1>9. CASE p \in {"main", "perform", "relock", "exit"}
    <2>1. /\ p = "main" => /\ Ways[p] = {Brief("threadsAvailM_") \o Brief("lstEPollM_")
                                          \o <<"lstCntrlM_">>}
                           /\ Upon(p) = <<>> /\ Rest(p) = <<"lstCntrlM_">>
          /\ p = "perform" => /\ Ways[p] = {<<"release">>}
                              /\ Upon(p) = <<"lstCntrlM_">> /\ Rest(p) = <<>>
          /\ p = "relock" => /\ Ways[p] = {<<"lstCntrlM_">>}
                             /\ Upon(p) = <<>> /\ Rest(p) = <<"lstCntrlM_">>
          /\ p = "exit" => /\ Ways[p] = {<<"release">> \o Brief("lstEPollM_")}
                           /\ Upon(p) = <<"lstCntrlM_">> /\ Rest(p) = <<>>
      BY <1>9 DEF Ways, PerformWays, Upon, Rest
    <2> QED
      BY <1>9, <2>1, MainWays
  <1>10. CASE p \in {"service", "run", "end", "begin"}
    <2>1. Ways[p] = {<<>>} /\ Upon(p) = <<>> /\ Rest(p) = <<>>
      BY <1>10 DEF Ways, Upon, Rest
    <2>2. <<>> \in Seq(Locks)
      OBVIOUS
    <2> QED
      BY <2>1, <2>2, Finished, Zenon
  <1> QED
    BY <1>3, <1>4, <1>5, <1>6, <1>7, <1>8, <1>9, <1>10 DEF Passages

-----------------------------------------------------------------------------
(* The invariant.                                                          *)

\* What a disciplined plan owes, one doing at a time.
LEMMA Obliged ==
  ASSUME NEW rest, NEW h, NEW w, Disciplined(h, w, rest)
  PROVE  /\ w = <<>> => h = rest
         /\ w # <<>> /\ Head(w) \in Locks =>
              Above(Head(w), h) /\ Disciplined(<<Head(w)>> \o h, Tail(w), rest)
         /\ w # <<>> /\ Head(w) = "release" =>
              /\ h # <<>> /\ Disciplined(Tail(h), Tail(w), rest)
              /\ Tail(w) # <<>> => Head(Tail(w)) # Head(h)
         /\ w # <<>> /\ Head(w) = "test" => Disciplined(h, Tail(w), rest)
  <1>1. h \in Seq(Locks) /\ w \in Seq(Doings)
    BY PlanTypes
  <1>2. PICK D \in SUBSET Plans : Sound(D, rest) /\ <<h, w>> \in D
    BY DEF Disciplined
  <1>3. /\ w = <<>> => h = rest
        /\ w # <<>> /\ Head(w) \in Locks =>
             Above(Head(w), h) /\ <<<<Head(w)>> \o h, Tail(w)>> \in D
        /\ w # <<>> /\ Head(w) = "release" =>
             /\ h # <<>> /\ <<Tail(h), Tail(w)>> \in D
             /\ Tail(w) # <<>> => Head(Tail(w)) # Head(h)
        /\ w # <<>> /\ Head(w) = "test" => <<h, Tail(w)>> \in D
    BY <1>1, <1>2, Zenon DEF Sound
  <1> QED
    BY <1>2, <1>3, Zenon DEF Disciplined

\* A thread comes to a passage with the locks the one before leaves it.
LEMMA ThenUpon ==
  \A p \in Passages : \A q \in Then[p] : q \in Passages /\ Upon(q) = Rest(p)
  <1> SUFFICES ASSUME NEW p \in Passages, NEW q \in Then[p]
               PROVE  q \in Passages /\ Upon(q) = Rest(p)
    OBVIOUS
  <1>1. CASE p \in {"main", "relock"}
    <2>1. q \in {"perform", "exit"}
      BY <1>1 DEF Then
    <2> QED
      BY <1>1, <2>1 DEF Passages, Upon, Rest
  <1>2. CASE p \notin {"main", "relock"}
    <2>1. q \in Passages \ {"perform", "exit"}
      BY <1>2 DEF Then, Passages
    <2> QED
      BY <1>2, <2>1 DEF Upon, Rest
  <1> QED
    BY <1>1, <1>2

LEMMA RestIsLocks == \A p : Rest(p) \in Seq(Locks)
  <1>1. "lstCntrlM_" \in Locks
    BY DEF Locks
  <1>2. <<>> \in Seq(Locks) /\ <<"lstCntrlM_">> \in Seq(Locks)
    BY <1>1
  <1> QED
    BY <1>2 DEF Rest

LEMMA InitIInv == Init => IInv
  <1> SUFFICES ASSUME Init PROVE IInv
    OBVIOUS
  <1>1. /\ \A t \in Threads : passage[t] \in {"begin", "end"}
        /\ \A t \in Threads : todo[t] = <<>>
        /\ \A t \in Threads : held[t] = <<>>
    BY DEF Init
  <1>2. <<>> \in Seq(Locks) /\ <<>> \in Seq(Locks \cup {"release", "test"})
    OBVIOUS
  <1>3. TypeOK
    BY <1>2 DEF Init, TypeOK, Passages
  <1>4. Discipline
    <2>1. \A t \in Threads : Rest(passage[t]) = <<>>
      BY <1>1 DEF Rest
    <2> QED
      BY <1>1, <1>2, <2>1, Finished, Zenon DEF Discipline
  <1>5. Exclusive
    <2>1. DOMAIN <<>> = {}
      OBVIOUS
    <2>2. \A t \in Threads : DOMAIN held[t] = {}
      BY <1>1, <2>1
    <2> QED
      BY <2>2 DEF Exclusive, Holders
  <1> QED
    BY <1>3, <1>4, <1>5 DEF IInv

\* b is among h.
Among(b, h) == \E i \in DOMAIN h : h[i] = b

Distinct(h) == \A i, j \in DOMAIN h : h[i] = h[j] => i = j

LEMMA AmongCons ==
  ASSUME NEW h \in Seq(Locks), NEW a \in Locks
  PROVE  /\ \A b : Among(b, <<a>> \o h) <=> b = a \/ Among(b, h)
         /\ Distinct(<<a>> \o h) <=> Distinct(h) /\ ~Among(a, h)
  <1> DEFINE c == <<a>> \o h
  <1>1. /\ c \in Seq(Locks) /\ Len(c) = Len(h) + 1 /\ c[1] = a
        /\ \A i \in 1..Len(h) : c[i + 1] = h[i]
    BY Cons
  <1>2. Len(h) \in Nat /\ DOMAIN h = 1..Len(h) /\ DOMAIN c = 1..Len(h) + 1
    BY <1>1, LenProperties
  <1> HIDE DEF c
  <1>3. \A i \in DOMAIN c : i # 1 => i - 1 \in DOMAIN h /\ c[i] = h[i - 1]
    BY <1>1, <1>2
  <1>4. 1 \in DOMAIN c /\ \A i \in DOMAIN h : i + 1 \in DOMAIN c /\ i + 1 # 1 /\ c[i + 1] = h[i]
    BY <1>1, <1>2
  <1>5. ASSUME NEW b PROVE Among(b, c) <=> b = a \/ Among(b, h)
    <2>1. ASSUME NEW i \in DOMAIN c, c[i] = b, b # a PROVE Among(b, h)
      BY <1>1, <1>3, <2>1, Zenon DEF Among
    <2>2. ASSUME NEW i \in DOMAIN h, h[i] = b PROVE Among(b, c)
      BY <1>4, <2>2, Zenon DEF Among
    <2>3. Among(a, c)
      BY <1>1, <1>4, Zenon DEF Among
    <2> QED
      BY <2>1, <2>2, <2>3, Zenon DEF Among
  <1>6. Distinct(c) => Distinct(h) /\ ~Among(a, h)
    <2> SUFFICES ASSUME Distinct(c) PROVE Distinct(h) /\ ~Among(a, h)
      OBVIOUS
    <2>1. ASSUME NEW i \in DOMAIN h, h[i] = a PROVE FALSE
      BY <1>1, <1>4, <2>1 DEF Distinct
    <2>2. ASSUME NEW i \in DOMAIN h, NEW j \in DOMAIN h, h[i] = h[j] PROVE i = j
      <3>1. i + 1 = j + 1
        BY <1>4, <2>2 DEF Distinct
      <3> QED
        BY <1>2, <3>1
    <2> QED
      BY <2>1, <2>2 DEF Distinct, Among
  <1>7. Distinct(h) /\ ~Among(a, h) => Distinct(c)
    <2> SUFFICES ASSUME Distinct(h), ~Among(a, h), NEW i \in DOMAIN c, NEW j \in DOMAIN c,
                        c[i] = c[j]
                 PROVE  i = j
      BY DEF Distinct
    <2>1. CASE i = 1 /\ j = 1
      BY <2>1
    <2>2. CASE i = 1 /\ j # 1
      BY <1>1, <1>3, <2>2 DEF Among
    <2>3. CASE i # 1 /\ j = 1
      BY <1>1, <1>3, <2>3 DEF Among
    <2>4. CASE i # 1 /\ j # 1
      <3>1. i - 1 = j - 1
        BY <1>3, <2>4 DEF Distinct
      <3> QED
        BY <1>2, <3>1
    <2> QED
      BY <2>1, <2>2, <2>3, <2>4
  <1> QED
    BY <1>5, <1>6, <1>7 DEF c

LEMMA AmongTail ==
  ASSUME NEW h \in Seq(Locks), h # <<>>
  PROVE  /\ Head(h) \in Locks /\ Tail(h) \in Seq(Locks)
         /\ \A b : Among(b, h) <=> b = Head(h) \/ Among(b, Tail(h))
         /\ Distinct(h) => Distinct(Tail(h)) /\ ~Among(Head(h), Tail(h))
  <1>1. Head(h) \in Locks /\ Tail(h) \in Seq(Locks)
    BY HeadTailProperties
  <1>2. h = <<Head(h)>> \o Tail(h)
    <2> DEFINE c == <<Head(h)>> \o Tail(h)
    <2>1. /\ c \in Seq(Locks) /\ Len(c) = Len(Tail(h)) + 1 /\ c[1] = Head(h)
          /\ \A i \in 1..Len(Tail(h)) : c[i + 1] = Tail(h)[i]
      BY <1>1, Cons
    <2>2. /\ Len(h) \in Nat /\ Len(h) > 0 /\ Len(Tail(h)) = Len(h) - 1 /\ h[1] = Head(h)
          /\ \A i \in 1..Len(Tail(h)) : Tail(h)[i] = h[i + 1]
      BY HeadTailProperties, EmptySeq, LenProperties
    <2> HIDE DEF c
    <2>3. ASSUME NEW i \in 1..Len(h) PROVE c[i] = h[i]
      <3>1. CASE i = 1
        BY <2>1, <2>2, <3>1
      <3>2. CASE i # 1
        <4>1. i - 1 \in 1..Len(Tail(h)) /\ (i - 1) + 1 = i
          BY <2>2, <3>2
        <4> QED
          BY <2>1, <2>2, <4>1
      <3> QED
        BY <3>1, <3>2
    <2>4. c = h
      BY <2>1, <2>2, <2>3, SeqEqual
    <2> QED
      BY <2>4 DEF c
  <1>3. /\ \A b : Among(b, <<Head(h)>> \o Tail(h)) <=> b = Head(h) \/ Among(b, Tail(h))
        /\ Distinct(<<Head(h)>> \o Tail(h)) <=> Distinct(Tail(h)) /\ ~Among(Head(h), Tail(h))
    BY <1>1, AmongCons, Zenon
  <1>4. Distinct(h) <=> Distinct(<<Head(h)>> \o Tail(h))
    BY <1>2, Zenon
  <1>5. \A b : Among(b, h) <=> Among(b, <<Head(h)>> \o Tail(h))
    BY <1>2, Zenon
  <1> QED
    BY <1>1, <1>3, <1>4, <1>5, Zenon

LEMMA ExclusiveAs ==
  /\ \A a : Holders(a) = {t \in Threads : Among(a, held[t])}
  /\ Exclusive <=> /\ \A t \in Threads : Distinct(held[t])
                   /\ \A a \in Locks : \A t, u \in Holders(a) : t = u
  BY DEF Holders, Among, Exclusive, Distinct

\* What a thread with something left does to the locks, by what it does next.
LEMMA EnterEffect ==
  ASSUME IInv, NEW t \in Threads, Enter(t, Passages)
  PROVE  /\ todo[t] = <<>> /\ held' = held
         /\ \E p \in Passages : \E way \in Ways[p] :
              /\ passage' = [passage EXCEPT ![t] = p]
              /\ todo' = [todo EXCEPT ![t] = way]
              /\ Disciplined(held[t], way, Rest(p))
  <1>1. PICK p \in Then[passage[t]] \cap Passages :
          /\ passage' = [passage EXCEPT ![t] = p]
          /\ \E way \in Ways[p] : todo' = [todo EXCEPT ![t] = way]
    BY DEF Enter
  <1>2. PICK way \in Ways[p] : todo' = [todo EXCEPT ![t] = way]
    BY <1>1
  <1>3. todo[t] = <<>> /\ held' = held
    BY DEF Enter
  <1>4. passage[t] \in Passages /\ Disciplined(held[t], todo[t], Rest(passage[t]))
    BY DEF IInv, TypeOK, Discipline
  <1>5. held[t] = Rest(passage[t])
    BY <1>3, <1>4, Obliged
  <1>6. held[t] = Upon(p)
    BY <1>1, <1>4, <1>5, ThenUpon
  <1>7. Disciplined(held[t], way, Rest(p))
    BY <1>1, <1>2, <1>6, WaysDisciplined
  <1> QED
    BY <1>1, <1>2, <1>3, <1>7

LEMMA AcquireEffect ==
  ASSUME IInv, NEW t \in Threads, NEW a \in Locks, Acquire(t, a)
  PROVE  /\ passage' = passage
         /\ held' = [held EXCEPT ![t] = <<a>> \o held[t]]
         /\ todo' = [todo EXCEPT ![t] = Tail(todo[t])]
         /\ todo[t] # <<>> /\ Head(todo[t]) = a /\ Holders(a) = {}
         /\ Above(a, held[t])
         /\ Disciplined(<<a>> \o held[t], Tail(todo[t]), Rest(passage[t]))
         /\ Holders(a)' = {t}
         /\ \A b \in Locks \ {a} : Holders(b)' = Holders(b)
  <1>1. /\ passage' = passage
        /\ held' = [held EXCEPT ![t] = <<a>> \o held[t]]
        /\ todo' = [todo EXCEPT ![t] = Tail(todo[t])]
        /\ Holders(a) = {} /\ Upcoming(t) = a
    BY DEF Acquire, Proceed, Wants
  <1>2. todo[t] # <<>> /\ Head(todo[t]) = a
    <2>1. a # "nothing"
      BY DEF Locks
    <2> QED
      BY <1>1, <2>1 DEF Upcoming
  <1>3. Disciplined(held[t], todo[t], Rest(passage[t]))
    BY DEF IInv, Discipline
  <1>4. /\ Above(a, held[t])
        /\ Disciplined(<<a>> \o held[t], Tail(todo[t]), Rest(passage[t]))
    BY <1>2, <1>3, Obliged
  <1>5. \A u \in Threads : held[u] \in Seq(Locks) /\ held \in [Threads -> Seq(Locks)]
    BY DEF IInv, TypeOK
  <1>6. held'[t] = <<a>> \o held[t] /\ \A u \in Threads \ {t} : held'[u] = held[u]
    BY <1>1, <1>5
  <1>7. \A b : Among(b, held'[t]) <=> b = a \/ Among(b, held[t])
    <2>1. \A b : Among(b, <<a>> \o held[t]) <=> b = a \/ Among(b, held[t])
      BY <1>5, AmongCons
    <2> QED
      BY <1>6, <2>1, Zenon
  <1>8. \A b : Holders(b)' = {u \in Threads : Among(b, held'[u])}
    BY DEF Holders, Among
  <1>9. \A u \in Threads : ~Among(a, held[u])
    BY <1>1, ExclusiveAs
  <1>10. Holders(a)' = {t}
    <2>1. \A u \in Threads : Among(a, held'[u]) <=> u = t
      BY <1>6, <1>7, <1>9, Zenon
    <2> QED
      BY <1>8, <2>1
  <1>11. ASSUME NEW b \in Locks \ {a} PROVE Holders(b)' = Holders(b)
    <2>1. \A u \in Threads : Among(b, held'[u]) <=> Among(b, held[u])
      BY <1>6, <1>7, <1>11, Zenon
    <2> QED
      BY <1>8, <2>1, ExclusiveAs
  <1> QED
    BY <1>1, <1>2, <1>4, <1>10, <1>11

LEMMA ReleaseEffect ==
  ASSUME IInv, NEW t \in Threads, Release(t)
  PROVE  /\ passage' = passage
         /\ held' = [held EXCEPT ![t] = Tail(held[t])]
         /\ todo' = [todo EXCEPT ![t] = Tail(todo[t])]
         /\ todo[t] # <<>> /\ Head(todo[t]) = "release" /\ held[t] # <<>>
         /\ Disciplined(Tail(held[t]), Tail(todo[t]), Rest(passage[t]))
         /\ \E a \in Locks :
              /\ a = Head(held[t])
              /\ Tail(todo[t]) # <<>> => Head(Tail(todo[t])) # a
              /\ Holders(a) = {t} /\ Holders(a)' = {}
              /\ \A b \in Locks \ {a} : Holders(b)' = Holders(b)
  <1>1. /\ passage' = passage
        /\ held' = [held EXCEPT ![t] = Tail(held[t])]
        /\ todo' = [todo EXCEPT ![t] = Tail(todo[t])]
        /\ Upcoming(t) = "release"
    BY DEF Release, Proceed
  <1>2. todo[t] # <<>> /\ Head(todo[t]) = "release"
    BY <1>1 DEF Upcoming
  <1>3. Disciplined(held[t], todo[t], Rest(passage[t]))
    BY DEF IInv, Discipline
  <1>4. /\ held[t] # <<>>
        /\ Disciplined(Tail(held[t]), Tail(todo[t]), Rest(passage[t]))
        /\ Tail(todo[t]) # <<>> => Head(Tail(todo[t])) # Head(held[t])
    <2>1. \A h, w, rest :
            Disciplined(h, w, rest) /\ w # <<>> /\ Head(w) = "release" =>
              /\ h # <<>> /\ Disciplined(Tail(h), Tail(w), rest)
              /\ Tail(w) # <<>> => Head(Tail(w)) # Head(h)
      BY Obliged
    <2> QED
      BY <1>2, <1>3, <2>1, Zenon
  <1>5. \A u \in Threads : held[u] \in Seq(Locks) /\ held \in [Threads -> Seq(Locks)]
    BY DEF IInv, TypeOK
  <1>6. held'[t] = Tail(held[t]) /\ \A u \in Threads \ {t} : held'[u] = held[u]
    BY <1>1, <1>5
  <1>7. PICK a \in Locks : a = Head(held[t])
    BY <1>4, <1>5, AmongTail
  <1>8. /\ \A b : Among(b, held[t]) <=> b = a \/ Among(b, held'[t])
        /\ Distinct(held[t]) => ~Among(a, held'[t])
    <2>1. held[t] \in Seq(Locks) /\ held[t] # <<>>
      BY <1>4, <1>5
    <2>2. /\ Head(held[t]) \in Locks
          /\ \A b : Among(b, held[t]) <=> b = Head(held[t]) \/ Among(b, Tail(held[t]))
          /\ Distinct(held[t]) => ~Among(Head(held[t]), Tail(held[t]))
      BY <2>1, AmongTail, Zenon
    <2> QED
      BY <1>6, <1>7, <2>2, Zenon
  <1>9. \A b : Holders(b)' = {u \in Threads : Among(b, held'[u])}
    BY DEF Holders, Among
  <1>10. ~Among(a, held'[t]) /\ \A u \in Threads : Among(a, held[u]) <=> u = t
    <2>1. Distinct(held[t]) /\ \A u, v \in Holders(a) : u = v
      BY <1>8, ExclusiveAs DEF IInv
    <2>2. \A u, v \in Threads : Among(a, held[u]) /\ Among(a, held[v]) => u = v
      BY <2>1, ExclusiveAs
    <2> QED
      BY <1>8, <2>1, <2>2, Zenon
  <1>11. Holders(a) = {t} /\ Holders(a)' = {}
    <2>1. \A u \in Threads : ~Among(a, held'[u])
      BY <1>6, <1>10, Zenon
    <2>2. Holders(a)' = {u \in Threads : Among(a, held'[u])}
      BY <1>9, Zenon
    <2>3. Holders(a)' = {}
      BY <2>1, <2>2
    <2>4. Holders(a) = {u \in Threads : Among(a, held[u])}
      BY ExclusiveAs, Zenon
    <2>5. Holders(a) = {t}
      <3>1. \A u : u \in Holders(a) <=> u = t
        BY <1>10, <2>4, Zenon
      <3> QED
        BY <3>1
    <2> QED
      BY <2>3, <2>5
  <1>12. ASSUME NEW b \in Locks \ {a} PROVE Holders(b)' = Holders(b)
    <2>1. \A u \in Threads : Among(b, held'[u]) <=> Among(b, held[u])
      BY <1>6, <1>8, <1>12, Zenon
    <2> QED
      BY <1>9, <2>1, ExclusiveAs
  <1> QED
    BY <1>1, <1>2, <1>4, <1>7, <1>11, <1>12

LEMMA TestEffect ==
  ASSUME IInv, NEW t \in Threads, Test(t)
  PROVE  /\ passage' = passage /\ held' = held
         /\ todo' = [todo EXCEPT ![t] = Tail(todo[t])]
         /\ todo[t] # <<>> /\ Head(todo[t]) = "test"
         /\ Disciplined(held[t], Tail(todo[t]), Rest(passage[t]))
  <1>1. /\ passage' = passage /\ held' = held
        /\ todo' = [todo EXCEPT ![t] = Tail(todo[t])] /\ Upcoming(t) = "test"
    BY DEF Test, Proceed
  <1>2. todo[t] # <<>> /\ Head(todo[t]) = "test"
    BY <1>1 DEF Upcoming
  <1>3. Disciplined(held[t], todo[t], Rest(passage[t]))
    BY DEF IInv, Discipline
  <1> QED
    BY <1>1, <1>2, <1>3, Obliged

LEMMA NextIInv == IInv /\ [Next]_vars => IInv'
  <1> SUFFICES ASSUME IInv, [Next]_vars PROVE IInv'
    OBVIOUS
  <1>1. /\ passage \in [Threads -> Passages] /\ todo \in [Threads -> Seq(Doings)]
        /\ held \in [Threads -> Seq(Locks)]
        /\ \A t \in Threads : Disciplined(held[t], todo[t], Rest(passage[t]))
        /\ \A t \in Threads : Distinct(held[t])
        /\ \A a \in Locks : \A t, u \in Holders(a) : t = u
    BY ExclusiveAs DEF IInv, TypeOK, Discipline, Doings
  \* A step of one thread keeps the discipline if its new plan is disciplined.
  <1>2. ASSUME NEW t \in Threads, NEW p \in Passages, NEW h, NEW w,
               Disciplined(h, w, Rest(p)),
               passage' = [passage EXCEPT ![t] = p],
               held' = [held EXCEPT ![t] = h], todo' = [todo EXCEPT ![t] = w]
        PROVE  TypeOK' /\ Discipline'
    <2>1. h \in Seq(Locks) /\ w \in Seq(Doings)
      BY <1>2, PlanTypes
    <2>2. TypeOK'
      BY <1>1, <1>2, <2>1 DEF TypeOK, Doings
    <2>3. /\ passage'[t] = p /\ held'[t] = h /\ todo'[t] = w
          /\ \A u \in Threads \ {t} : /\ passage'[u] = passage[u] /\ held'[u] = held[u]
                                      /\ todo'[u] = todo[u]
      BY <1>1, <1>2
    <2>4. Discipline'
      BY <1>1, <1>2, <2>3, Zenon DEF Discipline
    <2> QED
      BY <2>2, <2>4
  <1>3. ASSUME NEW t \in Threads, Enter(t, Passages) PROVE IInv'
    <2>1. PICK p \in Passages : \E way \in Ways[p] :
            /\ passage' = [passage EXCEPT ![t] = p]
            /\ todo' = [todo EXCEPT ![t] = way]
            /\ Disciplined(held[t], way, Rest(p))
      BY <1>3, EnterEffect
    <2>2. PICK way \in Ways[p] :
            /\ passage' = [passage EXCEPT ![t] = p]
            /\ todo' = [todo EXCEPT ![t] = way]
            /\ Disciplined(held[t], way, Rest(p))
      BY <2>1
    <2>3. held' = held /\ held' = [held EXCEPT ![t] = held[t]]
      BY <1>1, <1>3, EnterEffect
    <2>4. TypeOK' /\ Discipline'
      BY <1>2, <2>2, <2>3
    <2>5. Exclusive'
      BY <2>3 DEF IInv, Exclusive, Holders
    <2> QED
      BY <2>4, <2>5 DEF IInv
  <1>4. ASSUME NEW t \in Threads, NEW a \in Locks, Acquire(t, a) PROVE IInv'
    <2>1. /\ passage' = passage
          /\ held' = [held EXCEPT ![t] = <<a>> \o held[t]]
          /\ todo' = [todo EXCEPT ![t] = Tail(todo[t])]
          /\ Holders(a) = {} /\ Holders(a)' = {t}
          /\ \A b \in Locks \ {a} : Holders(b)' = Holders(b)
          /\ Disciplined(<<a>> \o held[t], Tail(todo[t]), Rest(passage[t]))
      BY <1>4, AcquireEffect, Zenon
    <2>2. passage' = [passage EXCEPT ![t] = passage[t]] /\ passage[t] \in Passages
      BY <1>1, <2>1
    <2>3. TypeOK' /\ Discipline'
      BY <1>2, <2>1, <2>2, Zenon
    <2>4. Exclusive'
      <3>1. held'[t] = <<a>> \o held[t] /\ \A u \in Threads \ {t} : held'[u] = held[u]
        BY <1>1, <2>1
      <3>2. ~Among(a, held[t]) /\ held[t] \in Seq(Locks)
        BY <1>1, <2>1, ExclusiveAs
      <3>3. Distinct(<<a>> \o held[t])
        BY <1>1, <3>2, AmongCons
      <3>4. \A u \in Threads : Distinct(held'[u])
        BY <1>1, <3>1, <3>3, Zenon
      <3>5. \A b \in Locks : \A u, v \in Holders(b)' : u = v
        <4> TAKE b \in Locks
        <4>1. CASE b = a
          BY <2>1, <4>1
        <4>2. CASE b # a
          BY <1>1, <2>1, <4>2, Zenon
        <4> QED
          BY <4>1, <4>2
      <3> QED
        BY <3>4, <3>5, Zenon DEF Exclusive, Distinct
    <2> QED
      BY <2>3, <2>4 DEF IInv
  <1>5. ASSUME NEW t \in Threads, Release(t) PROVE IInv'
    <2>1. /\ passage' = passage
          /\ held' = [held EXCEPT ![t] = Tail(held[t])]
          /\ todo' = [todo EXCEPT ![t] = Tail(todo[t])]
          /\ held[t] # <<>>
          /\ Disciplined(Tail(held[t]), Tail(todo[t]), Rest(passage[t]))
          /\ \E a \in Locks : /\ Holders(a)' = {}
                              /\ \A b \in Locks \ {a} : Holders(b)' = Holders(b)
      BY <1>5, ReleaseEffect, Zenon
    <2>2. passage' = [passage EXCEPT ![t] = passage[t]] /\ passage[t] \in Passages
      BY <1>1, <2>1
    <2>3. TypeOK' /\ Discipline'
      BY <1>2, <2>1, <2>2, Zenon
    <2>4. Exclusive'
      <3>1. held'[t] = Tail(held[t]) /\ \A u \in Threads \ {t} : held'[u] = held[u]
        BY <1>1, <2>1
      <3>2. Distinct(Tail(held[t]))
        BY <1>1, <2>1, AmongTail
      <3>3. \A u \in Threads : Distinct(held'[u])
        BY <1>1, <3>1, <3>2, Zenon
      <3>4. PICK a \in Locks : /\ Holders(a)' = {}
                               /\ \A b \in Locks \ {a} : Holders(b)' = Holders(b)
        BY <2>1
      <3>5. \A b \in Locks : \A u, v \in Holders(b)' : u = v
        <4> TAKE b \in Locks
        <4>1. CASE b = a
          BY <3>4, <4>1
        <4>2. CASE b # a
          <5>1. Holders(b)' = Holders(b)
            BY <3>4, <4>2
          <5>2. \A u, v \in Holders(b) : u = v
            BY <1>1 DEF IInv, Exclusive
          <5> QED
            BY <5>1, <5>2, Zenon
        <4> QED
          BY <4>1, <4>2
      <3> QED
        BY <3>3, <3>5, Zenon DEF Exclusive, Distinct
    <2> QED
      BY <2>3, <2>4 DEF IInv
  <1>6. ASSUME NEW t \in Threads, Test(t) PROVE IInv'
    <2>1. /\ passage' = passage /\ held' = held
          /\ todo' = [todo EXCEPT ![t] = Tail(todo[t])]
          /\ Disciplined(held[t], Tail(todo[t]), Rest(passage[t]))
      BY <1>6, TestEffect, Zenon
    <2>2. /\ passage' = [passage EXCEPT ![t] = passage[t]] /\ passage[t] \in Passages
          /\ held' = [held EXCEPT ![t] = held[t]]
      BY <1>1, <2>1
    <2>3. TypeOK' /\ Discipline'
      BY <1>2, <2>1, <2>2, Zenon
    <2>4. Exclusive'
      BY <2>1 DEF IInv, Exclusive, Holders
    <2> QED
      BY <2>3, <2>4 DEF IInv
  <1>7. CASE UNCHANGED vars
    BY <1>7 DEF vars, IInv, TypeOK, Discipline, Exclusive, Holders
  <1> QED
    BY <1>3, <1>4, <1>5, <1>6, <1>7 DEF Next

-----------------------------------------------------------------------------
(* The theorems.                                                           *)

\* Every thread keeps to the order, and no lock has two holders.
THEOREM Invariant == Spec => []IInv
  BY InitIInv, NextIInv, PTL DEF Spec, SafeSpec

\* Threads are in known passages and hold and take known locks.
THEOREM TypeCorrect == Spec => []TypeOK
  <1>1. IInv => TypeOK
    BY DEF IInv
  <1> QED
    BY <1>1, Invariant, PTL

\* Between two passages a thread holds no lock, or the main thread the one its wait
\* needs: no path leaks one.
THEOREM NoPathLeaks == Spec => []NothingLeaks
  <1>1. IInv => NothingLeaks
    <2> SUFFICES ASSUME IInv, NEW t \in Threads, todo[t] = <<>>
                 PROVE  held[t] = Rest(passage[t])
      BY DEF NothingLeaks, Rest
    <2> QED
      BY Obliged DEF IInv, Discipline
  <1> QED
    BY <1>1, Invariant, PTL

\* No set of threads waits for one another in a circle: those that want the highest
\* lock wanted find nobody among them that holds it, since it would want a higher one.
THEOREM NoDeadlock == Spec => []NoCircle
  <1>1. IInv => NoCircle
    <2> SUFFICES ASSUME IInv, NEW S \in (SUBSET Threads) \ {{}}
                 PROVE  \E t \in S : \A a \in Locks : Wants(t, a) => Holders(a) \cap S = {}
      BY DEF NoCircle
    <2>1. ASSUME NEW t \in Threads, NEW a \in Locks, Wants(t, a) PROVE Above(a, held[t])
      <3>1. a # "nothing"
        BY DEF Locks
      <3>2. todo[t] # <<>> /\ Head(todo[t]) = a
        BY <2>1, <3>1 DEF Wants, Upcoming
      <3>3. Disciplined(held[t], todo[t], Rest(passage[t]))
        BY DEF IInv, Discipline
      <3> QED
        BY <3>2, <3>3, Obliged, Zenon
    \* A holder of a that wants b wants a higher lock.
    <2>2. ASSUME NEW a \in Locks, NEW b \in Locks, NEW u \in Holders(a), Wants(u, b)
          PROVE  Rank(a) < Rank(b)
      <3>1. u \in Threads /\ \E i \in DOMAIN held[u] : held[u][i] = a
        BY DEF Holders
      <3>2. Above(b, held[u])
        BY <2>1, <2>2, <3>1
      <3> QED
        BY <3>1, <3>2 DEF Above
    <2>3. \A a \in Locks : Rank(a) \in {1, 2, 3, 4}
      BY DEF Rank
    <2> DEFINE Wanted == {a \in Locks : \E t \in S : Wants(t, a)}
    <2>4. CASE \E t \in S : \A a \in Locks : ~Wants(t, a)
      BY <2>4
    <2>5. CASE \A t \in S : \E a \in Locks : Wants(t, a)
      <3>1. Wanted # {} /\ Wanted \subseteq Locks
        <4>1. \E t \in S, a \in Locks : Wants(t, a)
          BY <2>5
        <4> QED
          BY <4>1
      <3>2. PICK a \in Wanted : \A b \in Wanted : Rank(b) <= Rank(a)
        <4> HIDE DEF Wanted
        <4>1. \A b \in Wanted : Rank(b) \in {1, 2, 3, 4}
          BY <2>3, <3>1
        <4>2. CASE \E b \in Wanted : Rank(b) = 4
          BY <4>1, <4>2
        <4>3. CASE (\A b \in Wanted : Rank(b) # 4) /\ \E b \in Wanted : Rank(b) = 3
          BY <4>1, <4>3
        <4>4. CASE (\A b \in Wanted : Rank(b) \notin {3, 4}) /\ \E b \in Wanted : Rank(b) = 2
          BY <4>1, <4>4
        <4>5. CASE \A b \in Wanted : Rank(b) = 1
          BY <3>1, <4>5
        <4> QED
          BY <4>1, <4>2, <4>3, <4>4, <4>5
      <3>3. PICK t \in S : Wants(t, a)
        BY <3>2
      <3>4. ASSUME NEW b \in Locks, Wants(t, b), NEW u \in Holders(b) \cap S PROVE FALSE
        <4>1. b = a
          BY <3>3, <3>4 DEF Wants
        <4>2. PICK c \in Locks : Wants(u, c)
          BY <2>5, <3>4
        <4>3. Rank(a) < Rank(c)
          BY <2>2, <3>4, <4>1, <4>2
        <4>4. c \in Wanted
          BY <3>4, <4>2
        <4>5. Rank(c) <= Rank(a) /\ Rank(a) \in {1, 2, 3, 4} /\ Rank(c) \in {1, 2, 3, 4}
          BY <2>3, <3>1, <3>2, <4>4
        <4> QED
          BY <4>3, <4>5
      <3> QED
        BY <3>3, <3>4
    <2> QED
      BY <2>4, <2>5
  <1> QED
    BY <1>1, Invariant, PTL

\* Nobody asks for a lock it holds.
LEMMA Fresh ==
  ASSUME NEW h, NEW w, NEW rest, Disciplined(h, w, rest), NEW a \in Locks,
         w # <<>>, Head(w) = a
  PROVE  ~Among(a, h)
  <1>1. Above(a, h)
    BY Obliged, Zenon
  <1>2. Rank(a) \in {1, 2, 3, 4}
    BY DEF Rank
  <1> QED
    BY <1>1, <1>2 DEF Above, Among

LEMMA StepUsesLocks ==
  ASSUME IInv, [Next]_vars, NEW a \in Locks
  PROVE  UNCHANGED Lock(a)!vars \/ Lock(a)!Next
  <1> DEFINE wanting == {t \in Threads : Wants(t, a)}
  <1>1. IInv'
    BY NextIInv
  <1>2. a \notin {"nothing", "release", "test"}
    BY DEF Locks
  <1>3. /\ \A t \in Threads : Wants(t, a) <=> todo[t] # <<>> /\ Head(todo[t]) = a
        /\ \A t \in Threads : Wants(t, a)' <=> todo'[t] # <<>> /\ Head(todo'[t]) = a
    BY <1>2 DEF Wants, Upcoming
  <1>4. \A t \in Threads : Wants(t, a)' => t \notin Holders(a)'
    <2>1. \A t \in Threads : Disciplined(held'[t], todo'[t], Rest(passage'[t]))
      BY <1>1 DEF IInv, Discipline
    <2>2. Holders(a)' = {t \in Threads : Among(a, held'[t])}
      BY DEF Holders, Among
    <2> QED
      BY <1>3, <2>1, <2>2, Fresh, Zenon
  <1>5. todo \in [Threads -> Seq(Doings)]
    BY DEF IInv, TypeOK, Doings
  \* The lock looks as if t asked for it, or as before.
  <1>6. ASSUME NEW t \in Threads, \A u \in Threads \ {t} : todo'[u] = todo[u],
               Holders(a)' = Holders(a), ~Wants(t, a)
        PROVE  UNCHANGED Lock(a)!vars \/ Lock(a)!Next
    <2>1. \A u \in Threads \ {t} : Wants(u, a)' <=> Wants(u, a)
      BY <1>3, <1>6, Zenon
    <2>2. CASE Wants(t, a)'
      <3>1. \A u : u \in wanting' <=> u \in wanting \/ u = t
        BY <2>1, <2>2, Zenon
      <3>2. wanting' = wanting \cup {t} /\ t \notin wanting /\ t \notin Holders(a)
        BY <1>4, <1>6, <2>2, <3>1
      <3> QED
        BY <1>6, <3>2 DEF Lock!Next, Lock!Request
    <2>3. CASE ~Wants(t, a)'
      <3>1. \A u : u \in wanting' <=> u \in wanting
        BY <1>6, <2>1, <2>3, Zenon
      <3>2. wanting' = wanting
        BY <3>1
      <3> QED
        BY <1>6, <3>2 DEF Lock!vars
    <2> QED
      BY <2>2, <2>3
  <1>7. ASSUME NEW t \in Threads, Enter(t, Passages)
        PROVE  UNCHANGED Lock(a)!vars \/ Lock(a)!Next
    <2>1. todo[t] = <<>> /\ held' = held /\ \A u \in Threads \ {t} : todo'[u] = todo[u]
      BY <1>5, <1>7, EnterEffect
    <2>2. Holders(a)' = Holders(a)
      BY <2>1 DEF Holders
    <2> QED
      BY <1>3, <1>6, <2>1, <2>2
  <1>8. ASSUME NEW t \in Threads, NEW b \in Locks, Acquire(t, b)
        PROVE  UNCHANGED Lock(a)!vars \/ Lock(a)!Next
    <2>1. /\ todo[t] # <<>> /\ Head(todo[t]) = b /\ Holders(b) = {} /\ Holders(b)' = {t}
          /\ \A c \in Locks \ {b} : Holders(c)' = Holders(c)
          /\ todo' = [todo EXCEPT ![t] = Tail(todo[t])]
      BY <1>8, AcquireEffect, Zenon
    <2>2. \A u \in Threads \ {t} : todo'[u] = todo[u]
      BY <1>5, <2>1
    <2>3. CASE b # a
      BY <1>3, <1>6, <2>1, <2>2, <2>3
    <2>4. CASE b = a
      <3>1. Wants(t, a) /\ ~Wants(t, a)'
        BY <1>3, <1>4, <2>1, <2>4
      <3>2. \A u : u \in wanting' <=> u \in wanting /\ u # t
        BY <1>3, <2>2, <3>1, Zenon
      <3>3. wanting' = wanting \ {t} /\ t \in wanting
        BY <3>1, <3>2
      <3> QED
        BY <2>1, <2>4, <3>3 DEF Lock!Next, Lock!Acquire
    <2> QED
      BY <2>3, <2>4
  <1>9. ASSUME NEW t \in Threads, Release(t)
        PROVE  UNCHANGED Lock(a)!vars \/ Lock(a)!Next
    <2>1. /\ todo' = [todo EXCEPT ![t] = Tail(todo[t])]
          /\ todo[t] # <<>> /\ Head(todo[t]) = "release"
          /\ \E b \in Locks : /\ b = Head(held[t])
                              /\ Tail(todo[t]) # <<>> => Head(Tail(todo[t])) # b
                              /\ Holders(b) = {t} /\ Holders(b)' = {}
                              /\ \A c \in Locks \ {b} : Holders(c)' = Holders(c)
      BY <1>9, ReleaseEffect, Zenon
    <2>2. PICK b \in Locks : /\ Tail(todo[t]) # <<>> => Head(Tail(todo[t])) # b
                             /\ Holders(b) = {t} /\ Holders(b)' = {}
                             /\ \A c \in Locks \ {b} : Holders(c)' = Holders(c)
      BY <2>1, Zenon
    <2>3. todo'[t] = Tail(todo[t]) /\ \A u \in Threads \ {t} : todo'[u] = todo[u]
      BY <1>5, <2>1
    <2>4. ~Wants(t, a)
      BY <1>2, <1>3, <2>1
    <2>5. CASE b # a
      BY <1>6, <2>2, <2>3, <2>4, <2>5
    <2>6. CASE b = a
      <3>1. ~Wants(t, a)'
        BY <1>3, <2>2, <2>3, <2>6, Zenon
      <3>2. \A u : u \in wanting' <=> u \in wanting
        BY <1>3, <2>3, <2>4, <3>1, Zenon
      <3>3. wanting' = wanting
        BY <3>2
      <3> QED
        BY <2>2, <2>6, <3>3 DEF Lock!Next, Lock!Release
    <2> QED
      BY <2>5, <2>6
  <1>10. ASSUME NEW t \in Threads, Test(t)
         PROVE  UNCHANGED Lock(a)!vars \/ Lock(a)!Next
    <2>1. /\ todo' = [todo EXCEPT ![t] = Tail(todo[t])] /\ held' = held
          /\ todo[t] # <<>> /\ Head(todo[t]) = "test"
      BY <1>10, TestEffect, Zenon
    <2>2. \A u \in Threads \ {t} : todo'[u] = todo[u]
      BY <1>5, <2>1
    <2>3. Holders(a)' = Holders(a)
      BY <2>1 DEF Holders
    <2> QED
      BY <1>2, <1>3, <1>6, <2>1, <2>2, <2>3
  <1>11. CASE UNCHANGED vars
    BY <1>11 DEF vars, Lock!vars, Holders, Wants, Upcoming
  <1> QED
    BY <1>7, <1>8, <1>9, <1>10, <1>11 DEF Next

\* Every step of the threads is, for every lock, a step AbstractLock allows or none: a
\* lock is taken only by who asked for it and when nobody has it, given back by its
\* holder, and asked for by nobody who has it.
THEOREM LocksAreUsed == Spec => LocksUsed
  <1>1. Init => \A a \in Locks : Lock(a)!Init
    <2> SUFFICES ASSUME Init, NEW a \in Locks PROVE Lock(a)!Init
      OBVIOUS
    <2>1. IInv /\ \A t \in Threads : todo[t] = <<>> /\ held[t] = <<>>
      BY InitIInv DEF Init
    <2>2. Holders(a) = {}
      <3>1. DOMAIN <<>> = {}
        OBVIOUS
      <3> QED
        BY <2>1, <3>1 DEF Holders
    <2>3. \A t \in Threads : ~Wants(t, a)
      BY <2>1 DEF Wants, Upcoming, Locks
    <2> QED
      BY <2>2, <2>3 DEF Lock!Init
  <1>2. IInv /\ [Next]_vars => [\A a \in Locks : UNCHANGED Lock(a)!vars \/ Lock(a)!Next]_vars
    BY StepUsesLocks
  <1> QED
    BY <1>1, <1>2, Invariant, PTL DEF Spec, SafeSpec, LocksUsed

=============================================================================
