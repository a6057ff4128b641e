----------------------------- MODULE TextProofs -----------------------------
(***************************************************************************)
(* The functions on text, for texts, patterns and uris of any length over  *)
(* any characters: what a loop has done so far is related to the part of   *)
(* its argument that it has consumed.                                      *)
(***************************************************************************)
EXTENDS Url, Match, HttpRequest, SequenceTheorems, TLAPS

LEMMA BoundedIsSeq ==
  ASSUME NEW S, NEW n \in Nat, NEW q \in BoundedSeq(S, n)
  PROVE  q \in Seq(S)
  <1>1. PICK m \in 0..n : q \in [1..m -> S]
    BY DEF BoundedSeq, SeqOf
  <1> QED
    BY <1>1

LEMMA PrefixOf ==
  ASSUME NEW S, NEW q \in Seq(S), NEW n \in 0..Len(q)
  PROVE  /\ SubSeq(q, 1, n) \in Seq(S) /\ Len(SubSeq(q, 1, n)) = n
         /\ \A k \in 1..n : SubSeq(q, 1, n)[k] = q[k]
  <1> DEFINE p == SubSeq(q, 1, n)
  <1>1. n \in Int /\ 1 \in Int /\ n \in Nat /\ 1..n \subseteq 1..Len(q)
    BY LenProperties
  <1>2. \A k \in 1..n : q[k] \in S
    BY <1>1, ElementOfSeq
  <1>3. /\ p \in Seq(S) /\ Len(p) = (IF 1 <= n THEN n - 1 + 1 ELSE 0)
        /\ \A k \in 1..n - 1 + 1 : p[k] = q[1 + k - 1]
    BY ONLY <1>1, <1>2, SubSeqProperties
  <1> HIDE DEF p
  <1>4. (IF 1 <= n THEN n - 1 + 1 ELSE 0) = n /\ n - 1 + 1 = n
    BY <1>1
  <1>5. \A k \in 1..n : 1 + k - 1 = k
    BY <1>1
  <1>6. p \in Seq(S) /\ Len(p) = n /\ \A k \in 1..n : p[k] = q[k]
    BY <1>3, <1>4, <1>5
  <1> QED
    BY <1>6 DEF p

-----------------------------------------------------------------------------
(* Match: what a pattern means, one character of it at a time.             *)

Frames == [p : 0..Len(patt), c : 0..Len(string)]

MatchTypes ==
  /\ string \in Seq(Nat) /\ patt \in Seq(Nat)
  /\ at \in {"loop", "star", "fail", "true", "false"}
  /\ p_iter \in 0..Len(patt) /\ c_iter \in 0..Len(string)
  /\ calls \in Seq(Frames)

LEMMA EndMeans ==
  ASSUME MatchTypes, NEW n \in 0..Len(string)
  PROVE  Means(Len(patt), n) <=> n = Len(string)
  <1> DEFINE P == Len(patt)
             cut == [k \in P..P |-> n]
  <1>1. P \in Nat /\ Len(string) \in Nat
    BY DEF MatchTypes
  <1>2. Means(P, n) => n = Len(string)
    BY DEF Means
  <1>3. ASSUME n = Len(string) PROVE Means(P, n)
    <2>1. cut \in [P..P -> 0..Len(string)] /\ cut[P] = n /\ P + 1..P = {}
      BY <1>1
    <2> HIDE DEF cut
    <2> QED
      BY <1>1, <1>3, <2>1 DEF Means
  <1> QED
    BY <1>2, <1>3

\* A pattern that has a character left means: that one takes a piece of the text, the
\* others take the rest.
LEMMA Unroll ==
  ASSUME MatchTypes, NEW i \in 0..Len(patt), i < Len(patt), NEW n \in 0..Len(string)
  PROVE  Means(i, n) <=> \E m \in n..Len(string) : Fits(i + 1, n, m) /\ Means(i + 1, m)
  <1> DEFINE P == Len(patt)
             N == Len(string)
  <1>1. P \in Nat /\ N \in Nat /\ i + 1 \in 1..P
    BY DEF MatchTypes
  <1>2. ASSUME Means(i, n)
        PROVE  \E m \in n..N : Fits(i + 1, n, m) /\ Means(i + 1, m)
    <2>1. PICK cut \in [i..P -> 0..N] :
            /\ cut[i] = n /\ cut[P] = N
            /\ \A k \in i + 1..P : cut[k - 1] <= cut[k] /\ Fits(k, cut[k - 1], cut[k])
      BY <1>2 DEF Means
    <2> DEFINE m == cut[i + 1]
               rest == [k \in i + 1..P |-> cut[k]]
    <2>2. i + 1 \in i + 1..P /\ i + 1 \in i..P /\ P \in i + 1..P /\ i + 1 - 1 = i
      BY <1>1
    <2>3. m \in n..N /\ Fits(i + 1, n, m)
      <3>1. m \in 0..N
        BY <2>2
      <3>2. n <= m /\ Fits(i + 1, n, m)
        BY <2>1, <2>2
      <3> QED
        BY <1>1, <3>1, <3>2
    <2>4. rest \in [i + 1..P -> 0..N] /\ rest[i + 1] = m /\ rest[P] = N
      BY <1>1, <2>1, <2>2
    <2>5. ASSUME NEW k \in (i + 1) + 1..P
          PROVE  rest[k - 1] <= rest[k] /\ Fits(k, rest[k - 1], rest[k])
      <3>1. k \in i + 1..P /\ k - 1 \in i + 1..P
        BY <1>1
      <3>2. rest[k] = cut[k] /\ rest[k - 1] = cut[k - 1]
        BY <3>1
      <3> QED
        BY <2>1, <3>1, <3>2
    <2> HIDE DEF rest, m
    <2>6. Means(i + 1, m)
      BY <2>4, <2>5 DEF Means
    <2> QED
      BY <2>3, <2>6
  <1>3. ASSUME NEW m \in n..N, Fits(i + 1, n, m), Means(i + 1, m) PROVE Means(i, n)
    <2>1. PICK rest \in [i + 1..P -> 0..N] :
            /\ rest[i + 1] = m /\ rest[P] = N
            /\ \A k \in (i + 1) + 1..P :
                 rest[k - 1] <= rest[k] /\ Fits(k, rest[k - 1], rest[k])
      BY <1>3 DEF Means
    <2> DEFINE cut == [k \in i..P |-> IF k = i THEN n ELSE rest[k]]
    <2>2. \A k \in i..P : k = i \/ k \in i + 1..P
      BY <1>1
    <2>3. cut \in [i..P -> 0..N] /\ cut[i] = n /\ \A k \in i + 1..P : cut[k] = rest[k]
      BY <1>1, <2>2
    <2>4. cut[P] = N
      BY <1>1, <2>1, <2>3
    <2> HIDE DEF cut
    <2>5. ASSUME NEW k \in i + 1..P
          PROVE  cut[k - 1] <= cut[k] /\ Fits(k, cut[k - 1], cut[k])
      <3>1. CASE k = i + 1
        BY <1>1, <1>3, <2>1, <2>3, <3>1
      <3>2. CASE k # i + 1
        <4>1. k \in (i + 1) + 1..P /\ k - 1 \in i + 1..P
          BY <1>1, <3>2
        <4> QED
          BY <2>1, <2>3, <4>1
      <3> QED
        BY <3>1, <3>2
    <2> QED
      BY <2>3, <2>4, <2>5 DEF Means
  <1> QED
    BY <1>2, <1>3

\* The ways to go on: after a single character, at the last star, from a star to the
\* next one, and from a star to something else.
LEMMA OneMeans ==
  ASSUME MatchTypes, NEW i \in 0..Len(patt), i < Len(patt), NEW n \in 0..Len(string),
         patt[i + 1] # Star
  PROVE  Means(i, n) <=> /\ n < Len(string) /\ Same(patt[i + 1], string[n + 1])
                         /\ Means(i + 1, n + 1)
  <1>1. \A m \in n..Len(string) :
          Fits(i + 1, n, m) <=> m = n + 1 /\ Same(patt[i + 1], string[m])
    BY DEF Fits
  <1>2. Len(string) \in Nat /\ (n < Len(string) <=> n + 1 \in n..Len(string))
    BY DEF MatchTypes
  <1> QED
    BY <1>1, <1>2, Unroll

LEMMA LastStarMeans ==
  ASSUME MatchTypes, NEW n \in 0..Len(string), patt # <<>>, patt[Len(patt)] = Star
  PROVE  Means(Len(patt) - 1, n)
  <1> DEFINE i == Len(patt) - 1
  <1>1. Len(patt) \in Nat /\ Len(string) \in Nat /\ Len(patt) # 0
    BY EmptySeq DEF MatchTypes
  <1>2. i \in 0..Len(patt) /\ i < Len(patt) /\ i + 1 = Len(patt)
    BY <1>1
  <1>3. Len(string) \in n..Len(string) /\ Len(string) \in 0..Len(string)
    BY <1>1
  <1>4. Fits(i + 1, n, Len(string))
    BY <1>2 DEF Fits
  <1>5. Means(i + 1, Len(string))
    BY <1>2, <1>3, EndMeans
  <1> HIDE DEF i
  <1>6. Means(i, n)
    BY <1>2, <1>3, <1>4, <1>5, Unroll
  <1> QED
    BY <1>6 DEF i

LEMMA SkippedStarMeans ==
  ASSUME MatchTypes, NEW i \in 0..Len(patt), i + 1 < Len(patt), NEW n \in 0..Len(string),
         patt[i + 1] = Star, patt[i + 2] = Star
  PROVE  Means(i, n) <=> Means(i + 1, n)
  <1>1. Len(patt) \in Nat /\ Len(string) \in Nat /\ i < Len(patt) /\ (i + 1) + 1 = i + 2
    BY DEF MatchTypes
  <1>2. \A m \in n..Len(string) : Fits(i + 1, n, m) <=> n = m
    BY <1>1 DEF Fits
  <1>3. n \in n..Len(string)
    BY <1>1
  <1> QED
    BY <1>1, <1>2, <1>3, Unroll

LEMMA StarMeans ==
  ASSUME MatchTypes, NEW i \in 0..Len(patt), i + 1 < Len(patt), NEW n \in 0..Len(string),
         patt[i + 1] = Star, patt[i + 2] # Star
  PROVE  Means(i, n) <=> \E m \in n + 1..Len(string) : Means(i + 1, m)
  <1>1. Len(patt) \in Nat /\ Len(string) \in Nat /\ i < Len(patt) /\ (i + 1) + 1 = i + 2
    BY DEF MatchTypes
  <1>2. \A m \in n..Len(string) : Fits(i + 1, n, m) <=> n < m
    BY <1>1 DEF Fits
  <1>3. \A m \in Int : m \in n + 1..Len(string) <=> m \in n..Len(string) /\ n < m
    BY <1>1
  <1> QED
    BY <1>1, <1>2, <1>3, Unroll

-----------------------------------------------------------------------------
(* Match: the invariant.  Whatever is left to be tried decides.            *)

\* Some call that waits has a place left where what follows its stars means the rest.
Pending(waiting) ==
  \E k \in 1..Len(waiting) : \E n \in waiting[k].c + 1..Len(string) :
    Means(waiting[k].p, n)

Decides ==
  /\ at = "loop"  => (Means(0, 0) <=> Means(p_iter, c_iter) \/ Pending(calls))
  /\ at = "star"  => \E n \in 0..Len(string) :
                       /\ p_iter > 0 /\ patt[p_iter] = Star
                       /\ c_iter = n + Consumed(n)
                       /\ Means(0, 0) <=> Means(p_iter - 1, n) \/ Pending(calls)
  /\ at = "fail"  => (Means(0, 0) <=> Pending(calls))
  /\ at = "true"  => Means(0, 0)
  /\ at = "false" => ~Means(0, 0)

MatchInv == MatchTypes /\ Decides

LEMMA MatchInitInv == MatchInit => MatchInv
  <1> SUFFICES ASSUME MatchInit PROVE MatchInv
    OBVIOUS
  <1>1. string \in Seq(Nat) /\ patt \in Seq(Nat)
    <2>1. string \in Seq(StringCharacters) /\ patt \in Seq(PatternCharacters)
      BY BoundedIsSeq, MatchAssumption DEF MatchInit
    <2> QED
      BY <2>1, SeqMonotonic, MatchAssumption
  <1>2. Len(string) \in Nat /\ Len(patt) \in Nat
    BY <1>1
  <1>3. MatchTypes
    <2>1. calls \in Seq(Frames)
      BY EmptySeq DEF MatchInit
    <2> QED
      BY <1>1, <1>2, <2>1 DEF MatchInit, MatchTypes
  <1>4. ~Pending(calls)
    BY DEF MatchInit, Pending
  <1>5. Decides
    BY <1>4 DEF MatchInit, Decides
  <1> QED
    BY <1>3, <1>5 DEF MatchInv

\* What the calls that wait have left, after one more of them and after one less.
LEMMA PendingAppend ==
  ASSUME NEW waiting \in Seq(Frames), NEW f \in Frames
  PROVE  Pending(Append(waiting, f)) <=>
           Pending(waiting) \/ \E n \in f.c + 1..Len(string) : Means(f.p, n)
  <1> DEFINE longer == Append(waiting, f)
             m == Len(waiting)
  <1>1. /\ m \in Nat /\ Len(longer) = m + 1 /\ longer[m + 1] = f
        /\ \A k \in 1..m : longer[k] = waiting[k]
    BY AppendProperties, LenProperties
  <1> HIDE DEF longer, m
  <1>2. \A k \in 1..m + 1 : k \in 1..m \/ k = m + 1
    BY <1>1
  <1>3. 1..m \subseteq 1..m + 1 /\ m + 1 \in 1..m + 1
    BY <1>1
  <1>4. Pending(longer) <=> \/ \E k \in 1..m : \E n \in waiting[k].c + 1..Len(string) :
                                 Means(waiting[k].p, n)
                            \/ \E n \in f.c + 1..Len(string) : Means(f.p, n)
    <2>1. Pending(longer) <=> \E k \in 1..m + 1 :
                                \E n \in longer[k].c + 1..Len(string) : Means(longer[k].p, n)
      BY <1>1 DEF Pending
    <2>2. \A k \in 1..m :
            (\E n \in longer[k].c + 1..Len(string) : Means(longer[k].p, n)) <=>
            (\E n \in waiting[k].c + 1..Len(string) : Means(waiting[k].p, n))
      BY <1>1
    <2>3. (\E n \in longer[m + 1].c + 1..Len(string) : Means(longer[m + 1].p, n)) <=>
          (\E n \in f.c + 1..Len(string) : Means(f.p, n))
      BY <1>1
    <2> QED
      BY <1>2, <1>3, <2>1, <2>2, <2>3
  <1> QED
    BY <1>4 DEF Pending, longer, m

LEMMA LastCall ==
  ASSUME NEW S, NEW q \in Seq(S), q # <<>>
  PROVE  Front(q) \in Seq(S) /\ Last(q) \in S /\ q = Append(Front(q), Last(q))
  <1>1. /\ Len(q) \in Nat /\ Len(q) # 0 /\ \A k \in 1..Len(q) : q[k] \in S
        /\ Len(q) \in 1..Len(q)
    BY EmptySeq, LenProperties, ElementOfSeq
  <1>2. /\ Front(q) \in Seq(S) /\ Len(Front(q)) = Len(q) - 1
        /\ \A k \in 1..Len(q) - 1 : Front(q)[k] = q[k]
    <2>1. Len(q) - 1 \in 0..Len(q)
      BY <1>1
    <2> QED
      BY <2>1, PrefixOf DEF Front
  <1>3. Last(q) \in S /\ Last(q) = q[Len(q)]
    BY <1>1 DEF Last
  <1> DEFINE r == Append(Front(q), Last(q))
  <1>4. /\ r \in Seq(S) /\ Len(r) = Len(q) /\ r[Len(q)] = q[Len(q)]
        /\ \A k \in 1..Len(q) - 1 : r[k] = q[k]
    BY <1>1, <1>2, <1>3, AppendProperties
  <1>5. \A k \in 1..Len(q) : r[k] = q[k]
    BY <1>1, <1>4
  <1> HIDE DEF r
  <1>6. q = r
    BY <1>4, <1>5, SeqEqual
  <1> QED
    BY <1>2, <1>3, <1>6 DEF r

\* The arguments stay, and so does what they mean.
LEMMA SameArguments ==
  ASSUME UNCHANGED <<string, patt>>
  PROVE  /\ \A k, m, n : Fits(k, m, n)' <=> Fits(k, m, n)
         /\ \A k, n : Means(k, n)' <=> Means(k, n)
         /\ \A waiting : Pending(waiting)' <=> Pending(waiting)
         /\ \A n : Consumed(n)' = Consumed(n)
  BY DEF Means, Fits, Pending, Consumed

\* Every step leaves the types as they are.
LEMMA MatchTypesStep == MatchTypes /\ MatchNext => MatchTypes'
  <1> SUFFICES ASSUME MatchTypes, MatchNext PROVE MatchTypes'
    OBVIOUS
  <1>1. /\ UNCHANGED <<string, patt>> /\ Frames' = Frames
        /\ Len(patt) \in Nat /\ Len(string) \in Nat
    <2>1. UNCHANGED <<string, patt>>
      BY DEF MatchNext, PattEnd, One, FirstStar, SkipStar, LastStar, Call, Return, Fail
    <2> QED
      BY <2>1 DEF Frames, MatchTypes
  <1>2. <<>> \in Seq(Frames)
    BY EmptySeq
  <1> SUFFICES /\ at' \in {"loop", "star", "fail", "true", "false"}
               /\ p_iter' \in 0..Len(patt) /\ c_iter' \in 0..Len(string)
               /\ calls' \in Seq(Frames)
    BY <1>1 DEF MatchTypes
  <1>3. CASE PattEnd
    <2>1. /\ at' \in {"loop", "star", "fail", "true", "false"}
          /\ p_iter' \in 0..Len(patt) /\ c_iter' \in 0..Len(string)
      BY <1>3 DEF PattEnd, MatchTypes
    <2>2. calls' = <<>> \/ calls' = calls
      BY ONLY <1>3 DEF PattEnd
    <2>3. calls \in Seq(Frames)
      BY DEF MatchTypes
    <2> QED
      BY ONLY <1>2, <2>1, <2>2, <2>3
  <1>4. CASE One
    <2>1. calls' \in Seq(Frames) /\ at' \in {"loop", "star", "fail", "true", "false"}
      BY <1>4 DEF One, MatchTypes
    <2>2. p_iter' \in 0..Len(patt)
      BY <1>1, <1>4 DEF One, PattEnds, MatchTypes
    <2>3. c_iter' \in 0..Len(string)
      BY <1>1, <1>4 DEF One, StringEnds, MatchTypes
    <2> QED
      BY ONLY <2>1, <2>2, <2>3
  <1>5. CASE FirstStar
    BY <1>1, <1>5 DEF FirstStar, PattEnds, Consumed, MatchTypes
  <1>6. CASE SkipStar
    BY <1>1, <1>6 DEF SkipStar, PattEnds, MatchTypes
  <1>7. CASE LastStar
    BY <1>2, <1>7 DEF LastStar, MatchTypes
  <1>8. CASE Call
    <2>1. [p |-> p_iter, c |-> c_iter] \in Frames
      BY DEF Frames, MatchTypes
    <2>2. calls' \in Seq(Frames)
      BY <1>8, <2>1, AppendProperties DEF Call, MatchTypes
    <2> QED
      BY <1>8, <2>2 DEF Call, MatchTypes
  <1>9. CASE Return
    <2>1. Front(calls) \in Seq(Frames) /\ Last(calls) \in Frames
      BY <1>9, LastCall DEF Return, MatchTypes
    <2> DEFINE f == Last(calls)
               g == [f EXCEPT !.c = f.c + 1]
    <2>2. CASE f.c < Len(string)
      <3>1. f.c + 1 \in 0..Len(string) /\ f.p \in 0..Len(patt) /\ g \in Frames
        <4> HIDE DEF f
        <4>1. f \in Frames
          BY <2>1 DEF f
        <4>2. f.p \in 0..Len(patt) /\ f.c \in 0..Len(string) /\ f.c + 1 \in 0..Len(string)
          BY <1>1, <2>2, <4>1 DEF Frames
        <4> QED
          BY <4>1, <4>2 DEF Frames
      <3>2. /\ at' = "loop" /\ p_iter' = f.p /\ c_iter' = f.c + 1
            /\ calls' = Append(Front(calls), g)
        BY <1>9, <2>2 DEF Return
      <3> HIDE DEF f, g
      <3>3. calls' \in Seq(Frames)
        BY <2>1, <3>1, <3>2, AppendProperties
      <3> QED
        BY <3>1, <3>2, <3>3
    <2>3. CASE ~(f.c < Len(string))
      BY <1>9, <2>1, <2>3 DEF Return, MatchTypes
    <2> QED
      BY <2>2, <2>3
  <1>10. CASE Fail
    BY <1>10 DEF Fail, MatchTypes
  <1> QED
    BY <1>3, <1>4, <1>5, <1>6, <1>7, <1>8, <1>9, <1>10 DEF MatchNext

\* Every step keeps what decides.
LEMMA DecidesStep == MatchInv /\ MatchNext => Decides'
  <1> SUFFICES ASSUME MatchInv, MatchNext PROVE Decides'
    OBVIOUS
  <1> USE DEF MatchInv
  <1>1. UNCHANGED <<string, patt>> /\ Len(patt) \in Nat /\ Len(string) \in Nat
    <2>1. UNCHANGED <<string, patt>>
      BY ONLY MatchNext
         DEF MatchNext, PattEnd, One, FirstStar, SkipStar, LastStar, Call, Return, Fail
    <2>2. string \in Seq(Nat) /\ patt \in Seq(Nat)
      BY DEF MatchTypes
    <2> QED
      BY ONLY <2>1, <2>2
  <1>2. /\ \A k, n : Means(k, n)' <=> Means(k, n)
        /\ \A waiting : Pending(waiting)' <=> Pending(waiting)
        /\ \A n : Consumed(n)' = Consumed(n)
    BY <1>1, SameArguments
  <1>3. ASSUME at' = "loop", Means(0, 0) <=> Means(p_iter', c_iter') \/ Pending(calls')
        PROVE  Decides'
    BY <1>2, <1>3 DEF Decides
  <1>4. ASSUME at' = "fail", Means(0, 0) <=> Pending(calls') PROVE Decides'
    BY <1>2, <1>4 DEF Decides
  <1>5. ASSUME at' = "true", Means(0, 0) PROVE Decides'
    BY <1>2, <1>5 DEF Decides
  <1>6. ASSUME at' = "false", ~Means(0, 0) PROVE Decides'
    BY <1>2, <1>6 DEF Decides
  <1>7. ASSUME NEW n \in 0..Len(string),
               at' = "star", p_iter' > 0, patt[p_iter'] = Star, c_iter' = n + Consumed(n),
               Means(0, 0) <=> Means(p_iter' - 1, n) \/ Pending(calls')
        PROVE  Decides'
    BY <1>1, <1>2, <1>7 DEF Decides
  <1>8. CASE PattEnd
    <2>1. Means(p_iter, c_iter) <=> c_iter = Len(string)
      BY <1>8, EndMeans DEF PattEnd, PattEnds, MatchTypes
    <2>2. Means(0, 0) <=> c_iter = Len(string) \/ Pending(calls)
      BY <1>8, <2>1 DEF PattEnd, Decides
    <2> QED
      BY <1>4, <1>5, <1>8, <2>2 DEF PattEnd, StringEnds
  <1>9. CASE One
    <2>1. p_iter < Len(patt) /\ patt[p_iter + 1] # Star
      BY <1>1, <1>9 DEF One, PattEnds, Patt, MatchTypes
    <2>2. Means(p_iter, c_iter) <=> /\ c_iter < Len(string)
                                    /\ Same(patt[p_iter + 1], string[c_iter + 1])
                                    /\ Means(p_iter + 1, c_iter + 1)
      BY <2>1, OneMeans DEF MatchTypes
    <2>3. c_iter < Len(string) <=> ~StringEnds
      BY <1>1 DEF StringEnds, MatchTypes
    <2>4. Means(0, 0) <=> Means(p_iter, c_iter) \/ Pending(calls)
      BY <1>9 DEF One, Decides
    <2>5. CASE ~StringEnds /\ Same(Patt, string[c_iter + 1])
      BY <1>3, <1>9, <2>2, <2>3, <2>4, <2>5 DEF One, Patt
    <2>6. CASE ~(~StringEnds /\ Same(Patt, string[c_iter + 1]))
      BY <1>4, <1>9, <2>2, <2>3, <2>4, <2>6 DEF One, Patt
    <2> QED
      BY <2>5, <2>6
  <1>10. CASE FirstStar
    <2>1. /\ at' = "star" /\ p_iter' = p_iter + 1 /\ c_iter' = c_iter + Consumed(c_iter)
          /\ calls' = calls /\ patt[p_iter + 1] = Star
      BY <1>10 DEF FirstStar, Patt
    <2>2. p_iter' - 1 = p_iter /\ p_iter' > 0 /\ c_iter \in 0..Len(string)
      BY <2>1 DEF MatchTypes
    <2>3. Means(0, 0) <=> Means(p_iter' - 1, c_iter) \/ Pending(calls')
      BY <1>10, <2>1, <2>2 DEF FirstStar, Decides
    <2> QED
      BY <1>7, <2>1, <2>2, <2>3
  <1>11. ASSUME at = "star"
         PROVE  \E n \in 0..Len(string) :
                  /\ p_iter > 0 /\ patt[p_iter] = Star
                  /\ c_iter = n + Consumed(n)
                  /\ Means(0, 0) <=> Means(p_iter - 1, n) \/ Pending(calls)
    BY <1>11 DEF Decides
  <1>12. CASE SkipStar
    <2>1. /\ at = "star" /\ at' = "star" /\ p_iter' = p_iter + 1 /\ c_iter' = c_iter
          /\ calls' = calls /\ patt[p_iter + 1] = Star /\ p_iter # Len(patt)
      BY <1>12 DEF SkipStar, Patt, PattEnds
    <2>2. PICK n \in 0..Len(string) :
            /\ p_iter > 0 /\ patt[p_iter] = Star
            /\ c_iter = n + Consumed(n)
            /\ Means(0, 0) <=> Means(p_iter - 1, n) \/ Pending(calls)
      BY <1>11, <2>1
    <2> DEFINE q == p_iter - 1
    <2>3. q \in 0..Len(patt) /\ q + 1 < Len(patt) /\ q + 1 = p_iter /\ q + 2 = p_iter + 1
      BY <1>1, <2>1, <2>2 DEF MatchTypes
    <2> HIDE DEF q
    <2>4. Means(q, n) <=> Means(q + 1, n)
      BY <2>1, <2>2, <2>3, SkippedStarMeans
    <2>5. p_iter' > 0 /\ p_iter' - 1 = q + 1
      BY <2>1, <2>3
    <2>6. Means(0, 0) <=> Means(p_iter' - 1, n) \/ Pending(calls')
      BY <2>1, <2>2, <2>4, <2>5 DEF q
    <2> QED
      BY <1>7, <2>1, <2>2, <2>5, <2>6
  <1>13. CASE LastStar
    <2>1. at = "star" /\ at' = "true" /\ p_iter = Len(patt)
      BY <1>13 DEF LastStar, PattEnds
    <2>2. PICK n \in 0..Len(string) :
            /\ p_iter > 0 /\ patt[p_iter] = Star
            /\ Means(0, 0) <=> Means(p_iter - 1, n) \/ Pending(calls)
      BY <1>11, <2>1
    <2>3. patt # <<>>
      BY <2>1, <2>2, EmptySeq
    <2>4. Means(p_iter - 1, n)
      BY <2>1, <2>2, <2>3, LastStarMeans
    <2> QED
      BY <1>5, <2>1, <2>2, <2>4
  <1>14. CASE Call
    <2> DEFINE f == [p |-> p_iter, c |-> c_iter]
    <2>1. /\ at = "star" /\ at' = "loop" /\ p_iter' = p_iter /\ c_iter' = c_iter
          /\ calls' = Append(calls, f) /\ patt[p_iter + 1] # Star /\ p_iter # Len(patt)
      BY <1>14 DEF Call, Patt, PattEnds
    <2>2. PICK n \in 0..Len(string) :
            /\ p_iter > 0 /\ patt[p_iter] = Star
            /\ c_iter = n + Consumed(n)
            /\ Means(0, 0) <=> Means(p_iter - 1, n) \/ Pending(calls)
      BY <1>11, <2>1
    <2>3. p_iter < Len(patt) /\ p_iter \in 0..Len(patt)
      BY <1>1, <2>1 DEF MatchTypes
    <2> DEFINE q == p_iter - 1
    <2>4. q \in 0..Len(patt) /\ q + 1 < Len(patt) /\ q + 1 = p_iter /\ q + 2 = p_iter + 1
      BY <1>1, <2>2, <2>3
    <2> HIDE DEF q
    <2>5. Means(q, n) <=> \E m \in n + 1..Len(string) : Means(p_iter, m)
      BY <2>1, <2>2, <2>4, StarMeans
    <2>6. (\E m \in n + 1..Len(string) : Means(p_iter, m)) <=>
          Means(p_iter, c_iter) \/ \E m \in c_iter + 1..Len(string) : Means(p_iter, m)
      <3>1. CASE n = Len(string)
        <4>1. c_iter = n
          BY <1>1, <2>2, <3>1 DEF Consumed
        <4>2. ~Means(p_iter, c_iter)
          BY <1>1, <2>1, <2>3, <3>1, <4>1, OneMeans
        <4> QED
          BY <4>1, <4>2
      <3>2. CASE n # Len(string)
        <4>1. c_iter = n + 1 /\ c_iter \in n + 1..Len(string)
          BY <1>1, <2>2, <3>2 DEF Consumed
        <4>2. \A m \in n + 1..Len(string) : m = c_iter \/ m \in c_iter + 1..Len(string)
          BY <1>1, <4>1
        <4>3. c_iter + 1..Len(string) \subseteq n + 1..Len(string)
          BY <1>1, <4>1
        <4> QED
          BY <4>1, <4>2, <4>3
      <3> QED
        BY <3>1, <3>2
    <2>7. Pending(calls') <=>
            Pending(calls) \/ \E m \in c_iter + 1..Len(string) : Means(p_iter, m)
      <3>1. f \in Frames /\ f.p = p_iter /\ f.c = c_iter
        BY DEF Frames, MatchTypes
      <3> HIDE DEF f
      <3> QED
        BY <2>1, <3>1, PendingAppend DEF MatchTypes
    <2>8. Means(0, 0) <=> Means(p_iter', c_iter') \/ Pending(calls')
      BY <2>1, <2>2, <2>5, <2>6, <2>7 DEF q
    <2> QED
      BY <1>3, <2>1, <2>8
  <1>15. CASE Return
    <2> DEFINE f == Last(calls)
               rest == Front(calls)
               g == [f EXCEPT !.c = f.c + 1]
    <2>1. at = "fail" /\ calls # <<>>
      BY <1>15 DEF Return
    <2>2. f \in Frames /\ rest \in Seq(Frames) /\ calls = Append(rest, f)
      BY <2>1, LastCall DEF MatchTypes
    <2>3. f.p \in 0..Len(patt) /\ f.c \in 0..Len(string)
      BY <2>2 DEF Frames
    <2>4. CASE f.c < Len(string)
      <3>1. /\ at' = "loop" /\ p_iter' = f.p /\ c_iter' = f.c + 1
            /\ calls' = Append(rest, g)
        BY <1>15, <2>4 DEF Return
      <3>2. g \in Frames /\ g.p = f.p /\ g.c = f.c + 1
        <4> HIDE DEF f
        <4>1. f.c + 1 \in 0..Len(string)
          BY <1>1, <2>3, <2>4
        <4> QED
          BY <2>2, <4>1 DEF Frames
      <3> HIDE DEF f, rest, g
      <3>3. Pending(calls) <=>
              Pending(rest) \/ \E n \in f.c + 1..Len(string) : Means(f.p, n)
        BY <2>2, PendingAppend
      <3>4. Pending(calls') <=>
              Pending(rest) \/ \E n \in f.c + 1 + 1..Len(string) : Means(f.p, n)
        BY <2>2, <3>1, <3>2, PendingAppend
      <3>5. (\E n \in f.c + 1..Len(string) : Means(f.p, n)) <=>
              Means(f.p, f.c + 1) \/ \E n \in f.c + 1 + 1..Len(string) : Means(f.p, n)
        <4>1. f.c + 1 \in f.c + 1..Len(string)
          BY <1>1, <2>3, <2>4
        <4>2. /\ f.c + 1 + 1..Len(string) \subseteq f.c + 1..Len(string)
              /\ \A n \in f.c + 1..Len(string) : n = f.c + 1 \/ n \in f.c + 1 + 1..Len(string)
          BY <1>1, <2>3
        <4> QED
          BY <4>1, <4>2
      <3>6. Means(0, 0) <=> Means(p_iter', c_iter') \/ Pending(calls')
        BY <2>1, <3>1, <3>3, <3>4, <3>5 DEF Decides
      <3> QED
        BY <1>3, <3>1, <3>6
    <2>5. CASE ~(f.c < Len(string))
      <3>1. at' = "fail" /\ calls' = rest
        BY <1>15, <2>1, <2>5 DEF Return
      <3>2. f.c + 1..Len(string) = {}
        BY <1>1, <2>3, <2>5
      <3> HIDE DEF f, rest, g
      <3>3. Pending(calls) <=> Pending(rest)
        BY <2>2, <3>2, PendingAppend
      <3>4. Means(0, 0) <=> Pending(calls')
        BY <2>1, <3>1, <3>3 DEF Decides
      <3> QED
        BY <1>4, <3>1, <3>4
    <2> QED
      BY <2>4, <2>5
  <1>16. CASE Fail
    <2>1. at = "fail" /\ at' = "false" /\ calls = <<>>
      BY <1>16 DEF Fail
    <2>2. ~Pending(calls)
      BY <2>1 DEF Pending
    <2> QED
      BY <1>6, <2>1, <2>2 DEF Decides
  <1> QED
    BY <1>8, <1>9, <1>10, <1>12, <1>13, <1>14, <1>15, <1>16 DEF MatchNext

\* Each call tries the places it must and no other, so that the text matches exactly
\* when what is being tried matches or something is left to be tried.
THEOREM MatchInvariant == MatchSpec => []MatchInv
  <1>1. MatchInv /\ UNCHANGED matchVars => MatchInv'
    <2> SUFFICES ASSUME MatchInv, UNCHANGED matchVars PROVE MatchInv'
      OBVIOUS
    <2>1. MatchTypes'
      BY DEF MatchInv, MatchTypes, Frames, matchVars
    <2>2. Decides'
      <3> USE DEF matchVars
      <3>1. /\ \A k, n : Means(k, n)' <=> Means(k, n)
            /\ \A n : Consumed(n)' = Consumed(n)
            /\ \A waiting : Pending(waiting)' <=> Pending(waiting)
        BY SameArguments
      <3> QED
        BY <3>1 DEF MatchInv, Decides
    <2> QED
      BY <2>1, <2>2 DEF MatchInv
  <1>2. MatchInv /\ MatchNext => MatchInv'
    BY MatchTypesStep, DecidesStep DEF MatchInv
  <1> QED
    BY MatchInitInv, <1>1, <1>2, PTL DEF MatchSpec

\* What s_match returns is whether the text can be cut to the pattern.
THEOREM MatchIsMeaning == MatchSpec => []MatchesMeaning
  <1>1. MatchInv => MatchesMeaning
    BY DEF MatchInv, Decides, MatchesMeaning
  <1> QED
    BY <1>1, MatchInvariant, PTL

-----------------------------------------------------------------------------
(* Url: an escape is read as the character it was written for.             *)

LEMMA Hexadecimal ==
  ASSUME NEW n \in 0..15
  PROVE  /\ bhex(n) \in Digits \cup 65..70
         /\ xdigit(bhex(n)) = n
         /\ bhex(n) \in 0..255 \ {Percent, Plus}
  <1>1. CASE n < 10
    BY <1>1 DEF bhex, xdigit, Digits, Percent, Plus
  <1>2. CASE ~(n < 10)
    <2>1. bhex(n) = 55 + n /\ 55 + n \in 65..70 /\ 55 + n \notin Digits
      BY <1>2 DEF bhex, Digits
    <2> QED
      BY <2>1 DEF xdigit, Percent, Plus
  <1> QED
    BY <1>1, <1>2

LEMMA Halves ==
  ASSUME NEW c \in 0..255
  PROVE  /\ c \div 16 \in 0..15 /\ c % 16 \in 0..15
         /\ (c \div 16) * 16 + (c % 16) = c
  OBVIOUS

LEMMA EscapeForms ==
  ASSUME NEW c \in 0..255
  PROVE  \/ /\ Escape(c) = <<c>> /\ c \notin {Plus, Percent}
            /\ c \in 0..255 \ {38, 61, Question, Slash, Space}
         \/ Escape(c) = <<Plus>> /\ c = Space
         \/ /\ Escape(c) = <<Percent, bhex(c \div 16), bhex(c % 16)>>
            /\ xdigit(bhex(c \div 16)) * 16 + xdigit(bhex(c % 16)) = c
            /\ {bhex(c \div 16), bhex(c % 16)} \subseteq Digits \cup 65..70
  <1>1. CASE c \in Plain
    BY <1>1 DEF Escape, Plain, Alphanumeric, Marks, Digits, Upper, Lower, Dot, Star, Plus,
                Percent, Question, Slash, Space
  <1>2. CASE c \notin Plain /\ c = Space
    BY <1>2 DEF Escape
  <1>3. CASE c \notin Plain /\ c # Space
    <2>1. Escape(c) = <<Percent, bhex(c \div 16), bhex(c % 16)>>
      BY <1>3 DEF Escape
    <2>2. /\ xdigit(bhex(c \div 16)) = c \div 16 /\ xdigit(bhex(c % 16)) = c % 16
          /\ {bhex(c \div 16), bhex(c % 16)} \subseteq Digits \cup 65..70
      <3>1. c \div 16 \in 0..15 /\ c % 16 \in 0..15
        BY Halves
      <3> QED
        BY ONLY <3>1, Hexadecimal
    <2>3. (c \div 16) * 16 + (c % 16) = c
      BY Halves
    <2>4. xdigit(bhex(c \div 16)) * 16 + xdigit(bhex(c % 16)) = c
      BY ONLY <2>2, <2>3
    <2> QED
      BY ONLY <2>1, <2>2, <2>4
  <1> QED
    BY <1>1, <1>2, <1>3

LEMMA EscapeIsSafe ==
  ASSUME NEW c \in 0..255
  PROVE  /\ Escape(c) \in Seq(0..255) /\ Len(Escape(c)) \in 1..3
         /\ \A j \in 1..Len(Escape(c)) :
              /\ Escape(c)[j] \notin Separators
              /\ Escape(c)[j] = Percent =>
                   /\ j + 2 <= Len(Escape(c))
                   /\ {Escape(c)[j + 1], Escape(c)[j + 2]} \subseteq Digits \cup 65..70
  <1> DEFINE x == Escape(c)
  <1> HIDE DEF x
  <1> SUFFICES /\ x \in Seq(0..255) /\ Len(x) \in 1..3
               /\ \A j \in 1..Len(x) :
                    /\ x[j] \notin Separators
                    /\ x[j] = Percent => /\ j + 2 <= Len(x)
                                         /\ {x[j + 1], x[j + 2]} \subseteq Digits \cup 65..70
    BY DEF x
  <1>1. CASE /\ x = <<c>> /\ c \notin {Plus, Percent}
             /\ c \in 0..255 \ {38, 61, Question, Slash, Space}
    BY <1>1 DEF Separators
  <1>2. CASE x = <<Plus>>
    BY <1>2 DEF Separators, Plus, Percent, Question, Slash, Space
  <1>3. ASSUME NEW a, NEW b, x = <<Percent, a, b>>, {a, b} \subseteq Digits \cup 65..70
        PROVE  /\ x \in Seq(0..255) /\ Len(x) \in 1..3
               /\ \A j \in 1..Len(x) :
                    /\ x[j] \notin Separators
                    /\ x[j] = Percent => /\ j + 2 <= Len(x)
                                         /\ {x[j + 1], x[j + 2]} \subseteq Digits \cup 65..70
    <2>1. /\ a \in 0..255 /\ b \in 0..255 /\ Percent \in 0..255
          /\ a \notin Separators /\ b \notin Separators /\ Percent \notin Separators
          /\ a # Percent /\ b # Percent
      BY <1>3 DEF Digits, Separators, Percent, Question, Slash, Space
    <2>2. /\ x \in Seq(0..255) /\ Len(x) = 3
          /\ x[1] = Percent /\ x[2] = a /\ x[3] = b
      BY <1>3, <2>1
    <2>3. \A j \in 1..3 : j = 1 \/ j = 2 \/ j = 3
      OBVIOUS
    <2> QED
      BY <1>3, <2>1, <2>2, <2>3
  <1>4. CASE /\ x = <<Percent, bhex(c \div 16), bhex(c % 16)>>
             /\ {bhex(c \div 16), bhex(c % 16)} \subseteq Digits \cup 65..70
    BY <1>3, <1>4
  <1> QED
    BY <1>1, <1>2, <1>4, EscapeForms DEF x

-----------------------------------------------------------------------------
(* Url: the invariant.                                                     *)

UrlTypes ==
  /\ input \in Seq(0..255)
  /\ stage \in {"encode", "decode", "done"}
  /\ taken \in Nat
  /\ out \in Seq(0..255) /\ encoded \in Seq(0..255) /\ url \in Seq(0..255)

\* text has x behind its first n characters.
Behind(x, n, text) == \A j \in 1..Len(x) : text[n + j] = x[j]

\* text is the encoding of the first n characters of the input, ends being where the
\* encoding of each of them ends.
EncodingBy(ends, n, text) ==
  /\ ends \in [0..n -> 0..Len(text)]
  /\ ends[0] = 0 /\ ends[n] = Len(text)
  /\ \A k \in 1..n : LET x == Escape(input[k])
                     IN  ends[k] = ends[k - 1] + Len(x) /\ Behind(x, ends[k - 1], text)

Encoding ==
  stage = "encode" =>
    taken <= Len(input) /\ \E ends \in [0..taken -> 0..Len(out)] : EncodingBy(ends, taken, out)

\* The decoder has read the encoding of what it has written.
Decoding ==
  stage = "decode" =>
    /\ Len(out) <= Len(input) /\ \A k \in 1..Len(out) : out[k] = input[k]
    /\ taken <= Len(url) /\ Len(url) <= Len(encoded)
    /\ \A k \in 1..Len(url) : url[k] = encoded[k]
    /\ \E ends \in [0..Len(input) -> 0..Len(encoded)] :
         EncodingBy(ends, Len(input), encoded) /\ ends[Len(out)] = taken

UrlInv == UrlTypes /\ EncodedIsSafe /\ Encoding /\ Decoding /\ RoundTrip

LEMMA SameInput ==
  ASSUME UNCHANGED input
  PROVE  \A ends, n, text : EncodingBy(ends, n, text)' <=> EncodingBy(ends, n, text)
  BY DEF EncodingBy

LEMMA UrlInitInv == UrlInit => UrlInv
  <1> SUFFICES ASSUME UrlInit PROVE UrlInv
    OBVIOUS
  <1>1. input \in Seq(0..255)
    <2>1. input \in Seq(Characters)
      BY BoundedIsSeq, UrlAssumption DEF UrlInit
    <2> DEFINE bytes == 0..255
    <2>2. Characters \subseteq bytes
      BY UrlAssumption
    <2> HIDE DEF bytes
    <2>3. input \in Seq(bytes)
      BY ONLY <2>1, <2>2, SeqMonotonic
    <2> QED
      BY ONLY <2>3 DEF bytes
  <1>2. UrlTypes
    BY <1>1, EmptySeq DEF UrlInit, UrlTypes
  <1>3. EncodedIsSafe
    BY DEF UrlInit, EncodedIsSafe, ToSet
  <1>4. Encoding
    <2> DEFINE ends == [k \in 0..0 |-> 0]
    <2>1. ends \in [0..0 -> 0..Len(out)] /\ EncodingBy(ends, 0, out)
      BY DEF UrlInit, EncodingBy
    <2> HIDE DEF ends
    <2>2. taken <= Len(input)
      BY <1>1 DEF UrlInit
    <2> QED
      BY <2>1, <2>2 DEF UrlInit, Encoding
  <1>5. Decoding /\ RoundTrip
    BY DEF UrlInit, Decoding, RoundTrip
  <1> QED
    BY <1>2, <1>3, <1>4, <1>5 DEF UrlInv

\* One more character is written.
LEMMA EncodeStep == UrlInv /\ url_encode => UrlInv'
  <1> SUFFICES ASSUME UrlInv, url_encode PROVE UrlInv'
    OBVIOUS
  <1> DEFINE x == Escape(input[taken + 1])
             n == Len(out)
  <1>1. /\ stage = "encode" /\ stage' = "encode" /\ taken < Len(input)
        /\ out' = out \o x /\ taken' = taken + 1
        /\ UNCHANGED <<input, encoded, url>>
    BY DEF url_encode
  <1>2. /\ input \in Seq(0..255) /\ Len(input) \in Nat /\ taken \in Nat
        /\ out \in Seq(0..255) /\ n \in Nat
    BY DEF UrlInv, UrlTypes
  <1>3. input[taken + 1] \in 0..255
    <2>1. taken + 1 \in 1..Len(input)
      BY <1>1, <1>2
    <2> QED
      BY ONLY <1>2, <2>1, ElementOfSeq, Zenon
  <1>4. /\ x \in Seq(0..255) /\ Len(x) \in 1..3
        /\ \A j \in 1..Len(x) :
             /\ x[j] \notin Separators
             /\ x[j] = Percent => /\ j + 2 <= Len(x)
                                  /\ {x[j + 1], x[j + 2]} \subseteq Digits \cup 65..70
    BY <1>3, EscapeIsSafe
  <1> HIDE DEF x, n
  <1>5. /\ out' \in Seq(0..255) /\ Len(out') = n + Len(x)
        /\ \A j \in 1..n : out'[j] = out[j]
        /\ \A j \in 1..Len(x) : out'[n + j] = x[j]
    <2> DEFINE y == out \o x
    <2>1. /\ y \in Seq(0..255) /\ Len(y) = n + Len(x)
          /\ \A j \in 1..n + Len(x) : y[j] = IF j <= n THEN out[j] ELSE x[j - n]
      BY <1>2, <1>4, ConcatProperties DEF n
    <2>4. out' = y
      BY <1>1
    <2> HIDE DEF y
    <2>2. \A j \in 1..Len(x) : n + j \in 1..n + Len(x) /\ ~(n + j <= n) /\ n + j - n = j
      BY <1>2, <1>4
    <2>3. \A j \in 1..n : j \in 1..n + Len(x) /\ j <= n
      BY <1>2, <1>4
    <2>5. \A j \in 1..n : y[j] = out[j]
      BY <2>1, <2>3
    <2>6. ASSUME NEW j \in 1..Len(x) PROVE y[n + j] = x[j]
      <3> DEFINE m == n + j
      <3>1. m \in 1..n + Len(x) /\ ~(m <= n) /\ m - n = j
        BY <1>2, <1>4
      <3> HIDE DEF m
      <3>2. y[m] = x[m - n]
        BY <2>1, <3>1
      <3> QED
        BY <3>1, <3>2 DEF m
    <2> QED
      BY <2>1, <2>4, <2>5, <2>6
  <1>6. \A j \in 1..n + Len(x) : j \in 1..n \/ \E m \in 1..Len(x) : j = n + m
    <2>1. ASSUME NEW j \in 1..n + Len(x), j \notin 1..n PROVE j - n \in 1..Len(x) /\ j = n + (j - n)
      BY <1>2, <1>4, <2>1
    <2> QED
      BY <2>1
  <1>7. DOMAIN out = 1..n /\ DOMAIN out' = 1..n + Len(x)
    BY <1>2, <1>5, LenProperties DEF n
  <1>8. UrlTypes'
    BY <1>1, <1>2, <1>5 DEF UrlInv, UrlTypes
  <1>9. EncodedIsSafe'
    <2>1. \A j \in 1..n : /\ out[j] \notin Separators
                          /\ out[j] = Percent =>
                               /\ j + 2 <= n
                               /\ {out[j + 1], out[j + 2]} \subseteq Digits \cup 65..70
      BY <1>1, <1>7 DEF UrlInv, EncodedIsSafe, ToSet, n
    <2>2. ASSUME NEW j \in 1..n + Len(x)
          PROVE  /\ out'[j] \notin Separators
                 /\ out'[j] = Percent =>
                      /\ j + 2 <= n + Len(x)
                      /\ {out'[j + 1], out'[j + 2]} \subseteq Digits \cup 65..70
      <3>1. CASE j \in 1..n
        <4>1. out'[j] = out[j]
          BY <1>5, <3>1
        <4>2. ASSUME out[j] = Percent
              PROVE  j + 1 \in 1..n /\ j + 2 \in 1..n
          BY <1>2, <2>1, <3>1, <4>2
        <4>3. out'[j] \notin Separators
          BY <2>1, <3>1, <4>1
        <4>4. ASSUME out'[j] = Percent
              PROVE  /\ j + 2 <= n + Len(x)
                     /\ {out'[j + 1], out'[j + 2]} \subseteq Digits \cup 65..70
          <5>1. out[j] = Percent
            BY <4>1, <4>4
          <5>2. out'[j + 1] = out[j + 1] /\ out'[j + 2] = out[j + 2]
            BY <1>5, <4>2, <5>1
          <5>3. j + 2 <= n /\ {out[j + 1], out[j + 2]} \subseteq Digits \cup 65..70
            BY <2>1, <3>1, <5>1
          <5>4. j + 2 <= n + Len(x)
            BY <1>2, <1>4, <3>1, <5>3
          <5> QED
            BY <5>2, <5>3, <5>4
        <4> QED
          BY <4>3, <4>4
      <3>2. ASSUME NEW m \in 1..Len(x), j = n + m
            PROVE  /\ out'[j] \notin Separators
                   /\ out'[j] = Percent =>
                        /\ j + 2 <= n + Len(x)
                        /\ {out'[j + 1], out'[j + 2]} \subseteq Digits \cup 65..70
        <4>1. out'[j] = x[m]
          BY <1>5, <3>2
        <4>2. ASSUME x[m] = Percent
              PROVE  /\ m + 1 \in 1..Len(x) /\ m + 2 \in 1..Len(x)
                     /\ j + 1 = n + (m + 1) /\ j + 2 = n + (m + 2)
                     /\ j + 2 <= n + Len(x)
          BY <1>2, <1>4, <3>2, <4>2
        <4>3. ASSUME x[m] = Percent
              PROVE  out'[j + 1] = x[m + 1] /\ out'[j + 2] = x[m + 2]
          BY <1>5, <4>2, <4>3
        <4>4. out'[j] \notin Separators
          BY <1>4, <4>1
        <4>5. ASSUME out'[j] = Percent
              PROVE  /\ j + 2 <= n + Len(x)
                     /\ {out'[j + 1], out'[j + 2]} \subseteq Digits \cup 65..70
          <5>1. x[m] = Percent
            BY <4>1, <4>5
          <5>2. {x[m + 1], x[m + 2]} \subseteq Digits \cup 65..70
            BY <1>4, <5>1
          <5> QED
            BY ONLY <4>2, <4>3, <5>1, <5>2
        <4> QED
          BY <4>4, <4>5
      <3> QED
        BY <1>6, <3>1, <3>2
    <2>3. ToSet(out') \cap Separators = {}
      BY <1>7, <2>2 DEF ToSet
    <2> QED
      <3> DEFINE z == out'
      <3>1. DOMAIN z = 1..Len(z)
        BY <1>7
      <3>2. ASSUME NEW k \in DOMAIN z, z[k] = Percent
            PROVE  k + 2 <= Len(z) /\ {z[k + 1], z[k + 2]} \subseteq Digits \cup 65..70
        BY <1>5, <1>7, <2>2, <3>1, <3>2
      <3> QED
        BY ONLY <2>3, <3>2 DEF EncodedIsSafe
  <1>10. Encoding'
    <2>1. PICK ends \in [0..taken -> 0..n] : EncodingBy(ends, taken, out)
      BY <1>1 DEF UrlInv, Encoding, n
    <2> DEFINE longer == [k \in 0..taken + 1 |-> IF k = taken + 1 THEN n + Len(x) ELSE ends[k]]
    <2>2. \A k \in 0..taken + 1 : k \in 0..taken \/ k = taken + 1
      BY <1>2
    <2>3. /\ longer \in [0..taken + 1 -> 0..n + Len(x)]
          /\ \A k \in 0..taken : longer[k] = ends[k]
          /\ longer[taken + 1] = n + Len(x)
      <3>1. \A k \in 0..taken : ends[k] \in 0..n + Len(x) /\ k \in 0..taken + 1 /\ k # taken + 1
        BY <1>2, <1>4
      <3>2. n + Len(x) \in 0..n + Len(x) /\ taken + 1 \in 0..taken + 1
        BY <1>2, <1>4
      <3> QED
        BY <2>2, <3>1, <3>2
    <2> HIDE DEF longer
    <2>4. /\ ends[0] = 0 /\ ends[taken] = n
          /\ \A k \in 1..taken : /\ ends[k] = ends[k - 1] + Len(Escape(input[k]))
                                 /\ Behind(Escape(input[k]), ends[k - 1], out)
      BY <2>1 DEF EncodingBy, n
    <2>5. longer[0] = 0
      BY <1>2, <2>3, <2>4
    <2>6. ASSUME NEW k \in 1..taken + 1
          PROVE  /\ longer[k] = longer[k - 1] + Len(Escape(input[k]))
                 /\ Behind(Escape(input[k]), longer[k - 1], out')
      <3>1. CASE k = taken + 1
        <4>1. k - 1 = taken /\ taken \in 0..taken
          BY <1>2, <3>1
        <4>2. longer[k - 1] = n /\ longer[k] = n + Len(x) /\ Escape(input[k]) = x
          BY <2>3, <2>4, <3>1, <4>1 DEF x
        <4>3. Behind(x, n, out')
          BY <1>5 DEF Behind
        <4> QED
          BY <4>2, <4>3
      <3>2. CASE k # taken + 1
        <4>1. k \in 1..taken /\ k \in 0..taken /\ k - 1 \in 0..taken
          BY <1>2, <3>2
        <4>2. longer[k] = ends[k] /\ longer[k - 1] = ends[k - 1]
          BY <2>3, <4>1
        <4> DEFINE y == Escape(input[k])
                   a == ends[k - 1]
        <4>3. ends[k] = a + Len(y) /\ Behind(y, a, out) /\ ends[k] \in 0..n /\ a \in 0..n
          BY <2>4, <4>1
        <4>4. Len(y) \in Nat
          <5>1. k \in 1..Len(input)
            BY <1>1, <1>2, <4>1
          <5>2. input[k] \in 0..255
            BY ONLY <1>2, <5>1, ElementOfSeq, Zenon
          <5>3. Len(Escape(input[k])) \in 1..3
            BY ONLY <5>2, EscapeIsSafe
          <5> QED
            BY <5>3
        <4> HIDE DEF y, a
        <4>5. \A j \in 1..Len(y) : a + j \in 1..n
          BY <1>2, <4>3, <4>4
        <4>6. Behind(y, a, out')
          BY <1>5, <4>3, <4>5 DEF Behind
        <4> QED
          BY <4>2, <4>3, <4>6 DEF y, a
      <3> QED
        BY <3>1, <3>2
    <2>7. EncodingBy(longer, taken + 1, out')
      BY <1>5, <2>3, <2>5, <2>6 DEF EncodingBy
    <2>8. taken + 1 <= Len(input)
      BY <1>1, <1>2
    <2>9. /\ taken' <= Len(input') /\ longer \in [0..taken' -> 0..Len(out')]
          /\ EncodingBy(longer, taken', out')
      BY <1>1, <1>5, <2>3, <2>7, <2>8
    <2>10. \A e, k, text : EncodingBy(e, k, text)' <=> EncodingBy(e, k, text)
      BY <1>1, SameInput
    <2> QED
      BY <2>9, <2>10 DEF Encoding
  <1>11. Decoding' /\ RoundTrip'
    BY <1>1 DEF Decoding, RoundTrip
  <1> QED
    BY <1>8, <1>9, <1>10, <1>11 DEF UrlInv

\* The encoding is complete, and some of it arrives.
LEMMA ArriveStep == UrlInv /\ Arrive => UrlInv'
  <1> SUFFICES ASSUME UrlInv, Arrive PROVE UrlInv'
    OBVIOUS
  <1>1. /\ stage = "encode" /\ stage' = "decode" /\ taken = Len(input) /\ taken' = 0
        /\ encoded' = out /\ out' = <<>> /\ input' = input
    BY DEF Arrive
  <1>2. /\ input \in Seq(0..255) /\ out \in Seq(0..255) /\ Len(out) \in Nat
        /\ Len(input) \in Nat
    BY DEF UrlInv, UrlTypes
  <1>3. PICK n \in 0..Len(out) : url' = SubSeq(out, 1, n)
    BY DEF Arrive
  <1>4. /\ url' \in Seq(0..255) /\ Len(url') = n
        /\ \A k \in 1..n : url'[k] = out[k]
    BY <1>2, <1>3, PrefixOf
  <1>5. UrlTypes'
    BY <1>1, <1>2, <1>4, EmptySeq DEF UrlTypes
  <1>6. Decoding'
    <2>1. PICK ends \in [0..Len(input) -> 0..Len(out)] : EncodingBy(ends, Len(input), out)
      BY <1>1 DEF UrlInv, Encoding
    <2>2. ends[0] = 0
      BY <2>1 DEF EncodingBy
    <2>3. \A e, k, text : EncodingBy(e, k, text)' <=> EncodingBy(e, k, text)
      BY <1>1, SameInput
    <2>4. Len(out') = 0 /\ Len(out') <= Len(input') /\ \A k \in 1..Len(out') : out'[k] = input'[k]
      BY <1>1, <1>2
    <2>5. /\ taken' <= Len(url') /\ Len(url') <= Len(encoded')
          /\ \A k \in 1..Len(url') : url'[k] = encoded'[k]
      BY <1>1, <1>2, <1>4
    <2>6. /\ ends \in [0..Len(input') -> 0..Len(encoded')]
          /\ EncodingBy(ends, Len(input'), encoded') /\ ends[Len(out')] = taken'
      BY <1>1, <2>1, <2>2, <2>4
    <2> QED
      BY <2>3, <2>4, <2>5, <2>6 DEF Decoding
  <1>7. EncodedIsSafe' /\ Encoding' /\ RoundTrip'
    BY <1>1 DEF EncodedIsSafe, Encoding, RoundTrip
  <1> QED
    BY <1>5, <1>6, <1>7 DEF UrlInv

\* Where the decoder stands: before the encoding of the next character, or at the end.
LEMMA NextCharacter ==
  ASSUME UrlInv, stage = "decode",
         NEW ends \in [0..Len(input) -> 0..Len(encoded)],
         EncodingBy(ends, Len(input), encoded), ends[Len(out)] = taken
  PROVE  /\ taken < Len(encoded) => Len(out) < Len(input)
         /\ Len(out) < Len(input) =>
              LET c == input[Len(out) + 1]
              IN  /\ c \in 0..255
                  /\ ends[Len(out) + 1] = taken + Len(Escape(c))
                  /\ Behind(Escape(c), taken, encoded)
                  /\ taken + Len(Escape(c)) <= Len(encoded)
  <1> DEFINE n == Len(out)
  <1>1. n \in Nat /\ Len(input) \in Nat /\ Len(encoded) \in Nat /\ n <= Len(input)
    BY DEF UrlInv, UrlTypes, Decoding
  <1>2. ends[Len(input)] = Len(encoded)
    BY DEF EncodingBy
  <1>3. ASSUME n < Len(input)
        PROVE  /\ input[n + 1] \in 0..255
               /\ ends[n + 1] = taken + Len(Escape(input[n + 1]))
               /\ Behind(Escape(input[n + 1]), taken, encoded)
               /\ ends[n + 1] <= Len(encoded)
    <2>1. n + 1 \in 1..Len(input) /\ n + 1 \in 0..Len(input) /\ n + 1 - 1 = n
      BY <1>1, <1>3
    <2>2. input[n + 1] \in 0..255
      BY <2>1, ElementOfSeq DEF UrlInv, UrlTypes
    <2>3. /\ ends[n + 1] = ends[n] + Len(Escape(input[n + 1]))
          /\ Behind(Escape(input[n + 1]), ends[n], encoded)
      BY <2>1 DEF EncodingBy
    <2>4. ends[n + 1] \in 0..Len(encoded)
      BY <2>1
    <2> QED
      BY <2>2, <2>3, <2>4
  <1>4. n = Len(input) => taken = Len(encoded)
    BY <1>2
  <1> HIDE DEF n
  <1>5. taken < Len(encoded) => n < Len(input)
    BY <1>1, <1>4
  <1> QED
    BY <1>3, <1>5 DEF n

\* The decoder has consumed the encoding of a character and written it.
LEMMA Taken ==
  ASSUME UrlInv, stage = "decode", NEW n \in 1..3,
         NEW ends \in [0..Len(input) -> 0..Len(encoded)],
         EncodingBy(ends, Len(input), encoded), ends[Len(out)] = taken,
         Len(out) < Len(input), ends[Len(out) + 1] = taken + n, taken + n <= Len(url),
         Take(n, input[Len(out) + 1]), UNCHANGED <<input, encoded, url>>
  PROVE  UrlInv'
  <1> DEFINE c == input[Len(out) + 1]
             m == Len(out)
  <1>1. stage' = "decode" /\ taken' = taken + n /\ out' = Append(out, c)
    BY DEF Take
  <1>2. /\ m \in Nat /\ Len(input) \in Nat /\ out \in Seq(0..255) /\ taken \in Nat
        /\ m + 1 \in 1..Len(input)
    BY DEF UrlInv, UrlTypes
  <1>3. c \in 0..255
    BY <1>2, ElementOfSeq DEF UrlInv, UrlTypes
  <1> HIDE DEF c, m
  <1>4. /\ out' \in Seq(0..255) /\ Len(out') = m + 1
        /\ \A k \in 1..m : out'[k] = out[k]
        /\ out'[m + 1] = c
    BY <1>1, <1>2, <1>3, AppendProperties DEF m
  <1>5. UrlTypes'
    BY <1>1, <1>2, <1>4 DEF UrlInv, UrlTypes
  <1>6. Decoding'
    <2>1. \A e, k, text : EncodingBy(e, k, text)' <=> EncodingBy(e, k, text)
      BY SameInput
    <2>2. \A k \in 1..m + 1 : k \in 1..m \/ k = m + 1
      BY <1>2
    <2>3. \A k \in 1..m + 1 : out'[k] = input[k]
      BY <1>4, <2>2 DEF UrlInv, Decoding, m, c
    <2>4. /\ Len(out') <= Len(input') /\ \A k \in 1..Len(out') : out'[k] = input'[k]
      BY <1>2, <1>4, <2>3
    <2>5. /\ taken' <= Len(url') /\ Len(url') <= Len(encoded')
          /\ \A k \in 1..Len(url') : url'[k] = encoded'[k]
      BY <1>1 DEF UrlInv, Decoding
    <2>6. /\ ends \in [0..Len(input') -> 0..Len(encoded')]
          /\ EncodingBy(ends, Len(input'), encoded') /\ ends[Len(out')] = taken'
      BY <1>1, <1>4 DEF m
    <2> QED
      BY <2>1, <2>4, <2>5, <2>6 DEF Decoding
  <1>7. EncodedIsSafe' /\ Encoding' /\ RoundTrip'
    BY <1>1 DEF EncodedIsSafe, Encoding, RoundTrip
  <1> QED
    BY <1>5, <1>6, <1>7 DEF UrlInv

\* A function returns with what it has read so far.
LEMMA DoneStep ==
  ASSUME UrlInv, stage = "decode", stage' = "done",
         UNCHANGED <<input, taken, out, encoded, url>>,
         url = encoded => Len(out) = Len(input)
  PROVE  UrlInv'
  <1>1. /\ input \in Seq(0..255) /\ out \in Seq(0..255)
        /\ Len(out) \in Nat /\ Len(input) \in Nat
        /\ Len(out) <= Len(input) /\ \A k \in 1..Len(out) : out[k] = input[k]
    BY DEF UrlInv, UrlTypes, Decoding
  <1>2. IsPrefix(out, input)
    <2> DEFINE q == SubSeq(input, 1, Len(out))
    <2>1. Len(out) \in 0..Len(input)
      BY <1>1
    <2>2. q \in Seq(0..255) /\ Len(q) = Len(out) /\ \A k \in 1..Len(out) : q[k] = input[k]
      BY <1>1, <2>1, PrefixOf
    <2>3. SubSeq(out, 1, Len(out)) = out
      BY <1>1, SubSeqFull
    <2> HIDE DEF q
    <2>4. q = out
      BY <1>1, <2>2, SeqEqual
    <2> QED
      BY <1>1, <2>3, <2>4 DEF IsPrefix, q
  <1>3. url = encoded => out = input
    BY <1>1, SeqEqual
  <1>4. RoundTrip'
    <2>1. RoundTrip' <=> (stage' = "done" => IsPrefix(out, input) /\ (url = encoded => out = input))
      BY DEF RoundTrip, IsPrefix
    <2> QED
      BY <1>2, <1>3, <2>1
  <1>5. UrlTypes'
    BY DEF UrlInv, UrlTypes
  <1>6. EncodedIsSafe' /\ Encoding' /\ Decoding'
    BY DEF EncodedIsSafe, Encoding, Decoding
  <1> QED
    BY <1>4, <1>5, <1>6 DEF UrlInv

LEMMA DecodeStep == UrlInv /\ url_decode => UrlInv'
  <1> SUFFICES ASSUME UrlInv, url_decode PROVE UrlInv'
    OBVIOUS
  <1> DEFINE c == input[Len(out) + 1]
             x == Escape(c)
  <1>1. stage = "decode" /\ taken < Len(url) /\ UNCHANGED <<input, encoded, url>>
    BY DEF url_decode
  <1>2. PICK ends \in [0..Len(input) -> 0..Len(encoded)] :
          EncodingBy(ends, Len(input), encoded) /\ ends[Len(out)] = taken
    BY <1>1 DEF UrlInv, Decoding
  <1>3. /\ taken \in Nat /\ Len(url) \in Nat /\ Len(encoded) \in Nat /\ Len(url) <= Len(encoded)
        /\ \A k \in 1..Len(url) : url[k] = encoded[k]
    BY <1>1 DEF UrlInv, UrlTypes, Decoding
  <1>4. Len(out) < Len(input)
    BY <1>1, <1>2, <1>3, NextCharacter
  <1>5. /\ c \in 0..255 /\ ends[Len(out) + 1] = taken + Len(x)
        /\ Behind(x, taken, encoded) /\ taken + Len(x) <= Len(encoded)
    BY <1>1, <1>2, <1>4, NextCharacter
  <1>6. Len(x) \in 1..3
    BY <1>5, EscapeIsSafe
  <1>7. \/ x = <<c>> /\ c \notin {Plus, Percent}
        \/ x = <<Plus>> /\ c = Space
        \/ /\ x = <<Percent, bhex(c \div 16), bhex(c % 16)>>
           /\ xdigit(bhex(c \div 16)) * 16 + xdigit(bhex(c % 16)) = c
    BY <1>5, EscapeForms
  <1> HIDE DEF x, c
  <1>8. ASSUME NEW j \in 1..Len(x), taken + j <= Len(url) PROVE url[taken + j] = x[j]
    <2>1. taken + j \in 1..Len(url)
      BY <1>3, <1>6, <1>8
    <2>2. encoded[taken + j] = x[j]
      BY <1>5 DEF Behind
    <2> QED
      BY <1>3, <2>1, <2>2
  <1>9. 1 \in 1..Len(x) /\ taken + 1 <= Len(url)
    <2>1. taken + 1 <= Len(url)
      BY <1>1, <1>3
    <2>2. 1 \in 1..Len(x)
      BY <1>6
    <2> QED
      BY <2>1, <2>2
  <1>10. ASSUME NEW n \in 1..3, Len(x) = n, taken + n <= Len(url), Take(n, c)
         PROVE  UrlInv'
    <2>1. ends[Len(out) + 1] = taken + n
      BY <1>5, <1>10
    <2> QED
      BY <1>1, <1>2, <1>4, <1>10, <2>1, Taken DEF c
  <1>11. CASE x = <<c>> /\ c \notin {Plus, Percent}
    <2>1. Len(x) = 1 /\ x[1] = c
      BY <1>11
    <2>2. url[taken + 1] = c
      BY <1>8, <1>9, <2>1
    <2>3. Take(1, c)
      BY <1>11, <2>2 DEF url_decode
    <2> QED
      BY <1>9, <1>10, <2>1, <2>3
  <1>12. CASE x = <<Plus>> /\ c = Space
    <2>1. Len(x) = 1 /\ x[1] = Plus
      BY <1>12
    <2>2. url[taken + 1] = Plus /\ Plus # Percent
      BY <1>8, <1>9, <2>1 DEF Plus, Percent
    <2>3. Take(1, c)
      BY <1>12, <2>2 DEF url_decode
    <2> QED
      BY <1>9, <1>10, <2>1, <2>3
  <1>13. CASE /\ x = <<Percent, bhex(c \div 16), bhex(c % 16)>>
              /\ xdigit(bhex(c \div 16)) * 16 + xdigit(bhex(c % 16)) = c
    <2>1. /\ Len(x) = 3 /\ x[1] = Percent /\ x[2] = bhex(c \div 16)
          /\ x[3] = bhex(c % 16)
      BY <1>13
    <2>2. url[taken + 1] = Percent /\ Plus # Percent
      BY <1>8, <1>9, <2>1 DEF Plus, Percent
    <2>3. CASE Cut
      <3>1. Break
        BY <2>2, <2>3 DEF url_decode
      <3>2. url = encoded => Len(out) = Len(input)
        BY <1>3, <1>5, <2>1, <2>3 DEF Cut
      <3> QED
        BY <1>1, <3>1, <3>2, DoneStep DEF Break
    <2>4. CASE ~Cut
      <3>1. taken + 3 <= Len(url) /\ taken + 2 <= Len(url)
        BY <1>3, <2>4 DEF Cut
      <3>2. 2 \in 1..Len(x) /\ 3 \in 1..Len(x)
        BY <2>1
      <3>3. url[taken + 2] = x[2] /\ url[taken + 3] = x[3]
        BY <1>8, <3>1, <3>2
      <3>4. Number = c
        BY <1>13, <2>1, <3>3 DEF Number
      <3>5. Take(3, c)
        BY <2>2, <2>4, <3>4 DEF url_decode
      <3> QED
        BY <1>10, <2>1, <3>1, <3>5
    <2> QED
      BY <2>3, <2>4
  <1> QED
    BY <1>7, <1>11, <1>12, <1>13

LEMMA DecodedStep == UrlInv /\ Decoded => UrlInv'
  <1> SUFFICES ASSUME UrlInv, Decoded PROVE UrlInv'
    OBVIOUS
  <1>1. /\ stage = "decode" /\ stage' = "done" /\ taken = Len(url)
        /\ UNCHANGED <<input, taken, out, encoded, url>>
    BY DEF Decoded
  <1>2. PICK ends \in [0..Len(input) -> 0..Len(encoded)] :
          EncodingBy(ends, Len(input), encoded) /\ ends[Len(out)] = taken
    BY <1>1 DEF UrlInv, Decoding
  <1>3. /\ Len(out) \in Nat /\ Len(input) \in Nat /\ Len(out) <= Len(input)
        /\ Len(encoded) \in Nat /\ taken \in Nat
    BY <1>1 DEF UrlInv, UrlTypes, Decoding
  <1>4. ASSUME url = encoded, Len(out) < Len(input) PROVE FALSE
    <2> DEFINE c == input[Len(out) + 1]
    <2>1. c \in 0..255 /\ taken + Len(Escape(c)) <= Len(encoded)
      BY <1>1, <1>2, <1>4, NextCharacter
    <2> DEFINE n == Len(Escape(c))
    <2>2. n \in 1..3
      BY <2>1, EscapeIsSafe
    <2>3. taken + n <= Len(encoded) /\ taken = Len(encoded)
      BY <1>1, <1>4, <2>1
    <2> HIDE DEF c, n
    <2> QED
      BY <1>3, <2>2, <2>3
  <1>5. url = encoded => Len(out) = Len(input)
    BY <1>3, <1>4
  <1> QED
    BY <1>1, <1>5, DoneStep

\* What has been written is the encoding of what has been read, and the decoder takes it
\* apart where the encoder put it together, for every text of characters below 256.
THEOREM UrlInvariant == UrlSpec => []UrlInv
  <1>1. UrlInv /\ UNCHANGED urlVars => UrlInv'
    <2> SUFFICES ASSUME UrlInv, UNCHANGED urlVars PROVE UrlInv'
      OBVIOUS
    <2> USE DEF UrlInv, urlVars
    <2>1. UrlTypes'
      BY DEF UrlTypes
    <2>2. EncodedIsSafe'
      BY DEF EncodedIsSafe
    <2>3. \A e, k, text : EncodingBy(e, k, text)' <=> EncodingBy(e, k, text)
      BY SameInput
    <2>4. Encoding' /\ Decoding'
      BY <2>3 DEF Encoding, Decoding
    <2>5. RoundTrip'
      BY DEF RoundTrip, IsPrefix
    <2> QED
      BY <2>1, <2>2, <2>4, <2>5
  <1>2. UrlInv /\ UrlNext => UrlInv'
    BY EncodeStep, ArriveStep, DecodeStep, DecodedStep DEF UrlNext
  <1> QED
    BY UrlInitInv, <1>1, <1>2, PTL DEF UrlSpec

\* url_decode gives back what url_encode was given, or the beginning of it.
THEOREM DecodingUndoes == UrlSpec => []RoundTrip
  <1>1. UrlInv => RoundTrip
    BY DEF UrlInv
  <1> QED
    BY <1>1, UrlInvariant, PTL

\* An encoded text holds no separator and no escape that is not complete.
THEOREM EncodingIsSafe == UrlSpec => []EncodedIsSafe
  <1>1. UrlInv => EncodedIsSafe
    BY DEF UrlInv
  <1> QED
    BY <1>1, UrlInvariant, PTL

-----------------------------------------------------------------------------
(* HttpRequest: selections from a sequence.                                *)

LEMMA ToSetOf ==
  ASSUME NEW S, NEW q \in Seq(S)
  PROVE  /\ \A k \in 1..Len(q) : q[k] \in ToSet(q)
         /\ \A x \in ToSet(q) : x \in S /\ \E k \in 1..Len(q) : q[k] = x
  BY LenProperties, ElementOfSeq DEF ToSet

LEMMA ConcatAt ==
  ASSUME NEW S, NEW p \in Seq(S), NEW q \in Seq(S)
  PROVE  /\ p \o q \in Seq(S) /\ Len(p) \in Nat /\ Len(q) \in Nat
         /\ Len(p \o q) = Len(p) + Len(q)
         /\ \A k \in 1..Len(p) : (p \o q)[k] = p[k]
         /\ \A k \in 1..Len(q) : (p \o q)[Len(p) + k] = q[k]
         /\ \A k \in 1..Len(p) + Len(q) :
              k \in 1..Len(p) \/ (k - Len(p) \in 1..Len(q) /\ (p \o q)[k] = q[k - Len(p)])
  <1> DEFINE r == p \o q
             m == Len(p)
             n == Len(q)
  <1>1. m \in Nat /\ n \in Nat
    BY LenProperties
  <1>2. /\ r \in Seq(S) /\ Len(r) = m + n
        /\ \A k \in 1..m + n : r[k] = IF k <= m THEN p[k] ELSE q[k - m]
    BY ConcatProperties
  <1> HIDE DEF r, m, n
  <1>3. ASSUME NEW k \in 1..m PROVE r[k] = p[k]
    <2>1. k \in 1..m + n /\ k <= m
      BY <1>1
    <2> QED
      BY <1>2, <2>1
  <1>4. ASSUME NEW k \in 1..m + n, k \notin 1..m PROVE k - m \in 1..n /\ r[k] = q[k - m]
    <2>1. k - m \in 1..n /\ ~(k <= m)
      BY <1>1, <1>4
    <2> QED
      BY <1>2, <2>1
  <1>5. ASSUME NEW k \in 1..n PROVE r[m + k] = q[k]
    <2> DEFINE i == m + k
    <2>1. i \in 1..m + n /\ i \notin 1..m /\ i - m = k
      BY <1>1
    <2> HIDE DEF i
    <2>2. r[i] = q[i - m]
      BY <1>4, <2>1
    <2> QED
      BY <2>1, <2>2 DEF i
  <1> QED
    BY <1>1, <1>2, <1>3, <1>4, <1>5 DEF r, m, n

LEMMA ToSetConcat ==
  ASSUME NEW S, NEW p \in Seq(S), NEW q \in Seq(S)
  PROVE  ToSet(p \o q) = ToSet(p) \cup ToSet(q)
  <1> DEFINE r == p \o q
  <1>1. /\ r \in Seq(S) /\ Len(p) \in Nat /\ Len(q) \in Nat /\ Len(r) = Len(p) + Len(q)
        /\ \A k \in 1..Len(p) : r[k] = p[k]
        /\ \A k \in 1..Len(q) : r[Len(p) + k] = q[k]
        /\ \A k \in 1..Len(p) + Len(q) :
             k \in 1..Len(p) \/ (k - Len(p) \in 1..Len(q) /\ r[k] = q[k - Len(p)])
    BY ConcatAt
  <1> HIDE DEF r
  <1>2. ASSUME NEW x \in ToSet(r) PROVE x \in ToSet(p) \cup ToSet(q)
    <2>1. PICK k \in 1..Len(r) : r[k] = x
      BY <1>1, ToSetOf
    <2>2. CASE k \in 1..Len(p)
      <3>1. p[k] = x
        BY ONLY <1>1, <2>1, <2>2
      <3> QED
        BY <2>2, <3>1, ToSetOf
    <2>3. CASE k - Len(p) \in 1..Len(q) /\ r[k] = q[k - Len(p)]
      <3> DEFINE j == k - Len(p)
      <3>1. j \in 1..Len(q) /\ q[j] = x
        BY ONLY <2>1, <2>3
      <3> HIDE DEF j
      <3> QED
        BY <3>1, ToSetOf
    <2> QED
      BY ONLY <1>1, <2>1, <2>2, <2>3
  <1>3. ASSUME NEW x \in ToSet(p) PROVE x \in ToSet(r)
    <2>1. PICK k \in 1..Len(p) : p[k] = x
      BY ToSetOf
    <2>2. k \in 1..Len(r) /\ r[k] = x
      BY <1>1, <2>1
    <2> QED
      BY <1>1, <2>2, ToSetOf
  <1>4. ASSUME NEW x \in ToSet(q) PROVE x \in ToSet(r)
    <2>1. PICK k \in 1..Len(q) : q[k] = x
      BY ToSetOf
    <2>2. Len(p) + k \in 1..Len(r) /\ r[Len(p) + k] = x
      BY <1>1, <2>1
    <2> QED
      BY <1>1, <2>2, ToSetOf
  <1> QED
    BY <1>2, <1>3, <1>4 DEF r

\* The selections of two stretches of a sequence, one after the other.
LEMMA SelectsConcat ==
  ASSUME NEW whole \in Seq(Nat), NEW p \in Seq(Nat), NEW q \in Seq(Nat),
         NEW v \in Seq(Nat), NEW w \in Seq(Nat),
         Selects(p, whole, v), Selects(q, whole, w),
         \A j \in 1..Len(v), k \in 1..Len(w) : v[j] < w[k]
  PROVE  Selects(p \o q, whole, v \o w)
  <1> DEFINE r == p \o q
             u == v \o w
             m == Len(p)
             n == Len(q)
  <1>1. /\ DOMAIN p = 1..m /\ DOMAIN v = 1..m /\ Len(v) = m
        /\ DOMAIN q = 1..n /\ DOMAIN w = 1..n /\ Len(w) = n /\ m \in Nat /\ n \in Nat
    BY LenProperties DEF Selects
  <1>2. /\ r \in Seq(Nat) /\ Len(r) = m + n
        /\ \A k \in 1..m : r[k] = p[k]
        /\ \A k \in 1..m + n : k \in 1..m \/ (k - m \in 1..n /\ r[k] = q[k - m])
    BY ConcatAt
  <1>3. /\ u \in Seq(Nat) /\ Len(u) = m + n
        /\ \A k \in 1..m : u[k] = v[k]
        /\ \A k \in 1..m + n : k \in 1..m \/ (k - m \in 1..n /\ u[k] = w[k - m])
    <2> HIDE DEF m, n, u
    <2>1. /\ u \in Seq(Nat) /\ Len(u) = Len(v) + Len(w)
          /\ \A k \in 1..Len(v) : u[k] = v[k]
          /\ \A k \in 1..Len(v) + Len(w) :
               k \in 1..Len(v) \/ (k - Len(v) \in 1..Len(w) /\ u[k] = w[k - Len(v)])
      BY ConcatAt DEF u
    <2>2. Len(v) = m /\ Len(w) = n
      BY <1>1
    <2> QED
      BY <2>1, <2>2
  <1> HIDE DEF r, u, m, n
  <1>4. DOMAIN r = 1..m + n /\ DOMAIN u = 1..m + n
    BY <1>2, <1>3, LenProperties
  <1>5. ASSUME NEW k \in 1..m + n PROVE u[k] \in DOMAIN whole /\ r[k] = whole[u[k]]
    <2>1. CASE k \in 1..m
      <3>1. r[k] = p[k] /\ u[k] = v[k] /\ k \in DOMAIN p
        BY ONLY <1>1, <1>2, <1>3, <2>1
      <3> QED
        BY <3>1 DEF Selects
    <2>2. CASE k \notin 1..m
      <3>1. k - m \in 1..n /\ r[k] = q[k - m] /\ u[k] = w[k - m]
        BY <1>2, <1>3, <2>2
      <3> QED
        BY <1>1, <3>1 DEF Selects
    <2> QED
      BY <2>1, <2>2
  <1>6. ASSUME NEW j \in 1..m + n, NEW k \in 1..m + n, j < k PROVE u[j] < u[k]
    <2>1. CASE k \in 1..m
      <3>1. j \in 1..m
        BY <1>1, <1>6, <2>1
      <3>2. v[j] < v[k]
        BY <1>1, <1>6, <2>1, <3>1 DEF Selects
      <3> QED
        BY <1>3, <2>1, <3>1, <3>2
    <2>2. CASE k \notin 1..m /\ j \in 1..m
      <3>1. k - m \in 1..n /\ u[k] = w[k - m] /\ u[j] = v[j]
        BY <1>3, <2>2
      <3> QED
        BY <1>1, <2>2, <3>1
    <2>3. CASE k \notin 1..m /\ j \notin 1..m
      <3>1. /\ k - m \in 1..n /\ u[k] = w[k - m]
            /\ j - m \in 1..n /\ u[j] = w[j - m]
        BY <1>3, <2>3
      <3>2. j - m < k - m
        BY <1>1, <1>6
      <3>3. w[j - m] < w[k - m]
        BY <1>1, <3>1, <3>2 DEF Selects
      <3> QED
        BY <3>1, <3>3
    <2> QED
      BY <2>1, <2>2, <2>3
  <1> QED
    BY <1>4, <1>5, <1>6 DEF Selects, r, u

\* A selection from a selection.
LEMMA SelectsCompose ==
  ASSUME NEW p \in Seq(Nat), NEW q \in Seq(Nat), NEW whole \in Seq(Nat),
         NEW v, NEW w, Selects(p, q, v), Selects(q, whole, w)
  PROVE  Selects(p, whole, [k \in DOMAIN p |-> w[v[k]]])
  <1> DEFINE u == [k \in DOMAIN p |-> w[v[k]]]
  <1>1. DOMAIN u = DOMAIN p
    OBVIOUS
  <1>2. ASSUME NEW k \in DOMAIN p PROVE u[k] \in DOMAIN whole /\ p[k] = whole[u[k]]
    <2>1. v[k] \in DOMAIN q /\ p[k] = q[v[k]] /\ u[k] = w[v[k]]
      BY DEF Selects
    <2> QED
      BY <2>1 DEF Selects
  <1>3. ASSUME NEW j \in DOMAIN p, NEW k \in DOMAIN p, j < k PROVE u[j] < u[k]
    <2>1. v[j] \in DOMAIN q /\ v[k] \in DOMAIN q /\ v[j] < v[k]
      BY <1>3 DEF Selects
    <2>2. w[v[j]] < w[v[k]]
      BY <2>1 DEF Selects
    <2> QED
      BY <2>2
  <1> HIDE DEF u
  <1>4. Selects(p, whole, u)
    BY <1>1, <1>2, <1>3 DEF Selects
  <1> QED
    BY <1>4 DEF u

LEMMA LosesCompose ==
  ASSUME NEW p \in Seq(Nat), NEW q \in Seq(Nat), NEW whole \in Seq(Nat),
         NEW v, NEW w, Selects(p, q, v), Selects(q, whole, w),
         LosesSeparators(q, v), LosesSeparators(whole, w)
  PROVE  LosesSeparators(whole, [k \in DOMAIN p |-> w[v[k]]])
  <1> DEFINE u == [k \in DOMAIN p |-> w[v[k]]]
  <1>1. DOMAIN u = DOMAIN p
    OBVIOUS
  <1>2. \A k \in DOMAIN p : u[k] = w[v[k]]
    OBVIOUS
  <1> HIDE DEF u
  <1>3. ASSUME NEW x \in DOMAIN whole, x \notin ToSet(u), ~(whole[x] \in {Slash, Dot})
        PROVE  FALSE
    <2>1. x \in ToSet(w)
      BY <1>3 DEF LosesSeparators
    <2>2. PICK y \in DOMAIN w : w[y] = x
      BY <2>1 DEF ToSet
    <2>3. y \in DOMAIN q /\ q[y] = whole[x]
      BY <2>2 DEF Selects
    <2>4. y \in ToSet(v)
      BY <1>3, <2>3 DEF LosesSeparators
    <2>5. PICK k \in DOMAIN v : v[k] = y
      BY <2>4 DEF ToSet
    <2>6. k \in DOMAIN u /\ u[k] = x
      BY <1>1, <1>2, <2>2, <2>5 DEF Selects
    <2> QED
      BY <1>3, <2>6 DEF ToSet
  <1>4. LosesSeparators(whole, u)
    BY <1>3 DEF LosesSeparators
  <1> QED
    BY <1>4 DEF u

LEMMA SelectsStretch ==
  ASSUME NEW whole \in Seq(Nat), NEW a \in 1..Len(whole) + 1, NEW b \in a - 1..Len(whole)
  PROVE  /\ SubSeq(whole, a, b) \in Seq(Nat) /\ Through(a, b) \in Seq(Nat)
         /\ Len(Through(a, b)) = b - a + 1 /\ Len(SubSeq(whole, a, b)) = b - a + 1
         /\ \A k \in 1..Len(Through(a, b)) : Through(a, b)[k] \in a..b
         /\ Selects(SubSeq(whole, a, b), whole, Through(a, b))
         /\ ToSet(Through(a, b)) = a..b
  <1> DEFINE n == b - a + 1
             p == SubSeq(whole, a, b)
             v == Through(a, b)
  <1>1. Len(whole) \in Nat /\ DOMAIN whole = 1..Len(whole)
    BY LenProperties
  <1>2. n \in Nat /\ a \in Int /\ b \in Int
    BY <1>1
  <1>3. /\ p \in Seq(Nat) /\ Len(p) = n
        /\ \A k \in 1..n : p[k] = whole[a + k - 1]
    <2>1. \A k \in a..b : whole[k] \in Nat
      <3>1. a..b \subseteq 1..Len(whole)
        BY <1>1
      <3> QED
        BY <3>1, ElementOfSeq
    <2>2. /\ p \in Seq(Nat) /\ Len(p) = (IF a <= b THEN n ELSE 0)
          /\ \A k \in 1..n : p[k] = whole[a + k - 1]
      BY <1>2, <2>1, SubSeqProperties
    <2>3. (IF a <= b THEN n ELSE 0) = n
      BY <1>1
    <2> QED
      BY <2>2, <2>3
  <1>4. ASSUME NEW k \in 1..n
        PROVE  a + k - 1 \in a..b /\ a + k - 1 \in Nat /\ a + k - 1 \in 1..Len(whole)
    BY <1>1
  <1>5. /\ v \in Seq(Nat) /\ Len(v) = n /\ DOMAIN v = 1..n
        /\ \A k \in 1..n : v[k] = a + k - 1
    <2> DEFINE w == [k \in 1..n |-> a + k - 1]
    <2>1. v = w
      BY DEF Through
    <2> HIDE DEF n
    <2>2. w \in [1..n -> Nat] /\ \A k \in 1..n : w[k] = a + k - 1
      BY <1>4
    <2> HIDE DEF w
    <2>3. w \in Seq(Nat) /\ Len(w) = n /\ DOMAIN w = 1..n
      BY <1>2, <2>2
    <2> HIDE DEF v
    <2> QED
      BY <2>1, <2>2, <2>3
  <1> HIDE DEF n, p, v
  <1>6. DOMAIN p = 1..n
    BY <1>3, LenProperties
  <1>7. ASSUME NEW j \in 1..n, NEW k \in 1..n, j < k PROVE v[j] < v[k]
    BY <1>5, <1>7
  <1>8. Selects(p, whole, v)
    BY <1>1, <1>3, <1>4, <1>5, <1>6, <1>7 DEF Selects
  <1>9. ToSet(v) = a..b
    <2>1. ToSet(v) \subseteq a..b
      BY <1>4, <1>5 DEF ToSet
    <2>2. ASSUME NEW x \in a..b PROVE x \in ToSet(v)
      <3>1. x - a + 1 \in 1..n /\ a + (x - a + 1) - 1 = x
        BY <1>1 DEF n
      <3>2. v[x - a + 1] = x
        BY <1>5, <3>1
      <3> QED
        BY <1>5, <3>1, <3>2 DEF ToSet
    <2> QED
      BY <2>1, <2>2
  <1>10. \A k \in 1..n : v[k] \in a..b
    BY <1>4, <1>5
  <1> QED
    BY <1>3, <1>5, <1>8, <1>9, <1>10 DEF n, p, v

LEMMA SelectsOne ==
  ASSUME NEW whole \in Seq(Nat), NEW a \in 1..Len(whole), NEW c, c = whole[a]
  PROVE  /\ <<c>> \in Seq(Nat) /\ <<a>> \in Seq(Nat) /\ Selects(<<c>>, whole, <<a>>)
         /\ ToSet(<<a>>) = {a} /\ Len(<<a>>) = 1 /\ <<a>>[1] = a
  <1>1. c \in Nat /\ a \in Nat /\ a \in DOMAIN whole
    BY LenProperties, ElementOfSeq
  <1>2. /\ <<c>> \in Seq(Nat) /\ <<a>> \in Seq(Nat)
        /\ Len(<<a>>) = 1 /\ <<a>>[1] = a /\ <<c>>[1] = c
        /\ DOMAIN <<a>> = 1..1 /\ DOMAIN <<c>> = 1..1
    BY <1>1
  <1>3. \A k \in 1..1 : k = 1
    OBVIOUS
  <1>4. Selects(<<c>>, whole, <<a>>)
    BY <1>1, <1>2, <1>3 DEF Selects
  <1>5. ToSet(<<a>>) = {a}
    BY <1>2, <1>3 DEF ToSet
  <1> QED
    BY <1>2, <1>4, <1>5

LEMMA SelectsNone ==
  ASSUME NEW whole
  PROVE  <<>> \in Seq(Nat) /\ Selects(<<>>, whole, <<>>) /\ ToSet(<<>>) = {} /\ Len(<<>>) = 0
  BY EmptySeq DEF Selects, ToSet

-----------------------------------------------------------------------------
(* HttpRequest: the invariant.                                             *)

LEMMA PathIs == path_ = IF absolute THEN <<Slash>> ELSE uri_
  <1>1. Len(<<uri_>>) # 2
    OBVIOUS
  <1> QED
    BY <1>1 DEF path_, splitn

LEMMA SamePath ==
  ASSUME UNCHANGED given
  PROVE  path_' = path_
  <1>1. absolute' = absolute /\ uri_' = uri_
    BY DEF given
  <1> QED
    BY <1>1 DEF path_

Halves_ == {"dots", "dotdots"}

RequestTypes ==
  /\ path_ \in Seq(Nat) /\ s \in Seq(Nat) /\ rc \in Seq(Nat)
  /\ from \in Seq(Nat) /\ kept \in Seq(Nat)
  /\ doing \in {"uri", "slashes", "slash", "done"} \cup Halves_
  /\ pos \in 0..Len(s)

\* Where everything comes from, and that nothing else than slashes and dots has been lost.
Tracking ==
  /\ doing = "uri" => s = <<>> /\ pos = 0
  /\ doing # "uri" => Selects(s, path_, from) /\ LosesSeparators(path_, from)
  /\ Selects(rc, s, kept)
  /\ \A k \in 1..Len(kept) : kept[k] <= pos

\* What has been consumed ends with a separator, which has not been replaced yet.
Splitting ==
  doing \in Halves_ =>
    /\ pos > 0 => s[pos] = Slash /\ \A k \in 1..Len(kept) : kept[k] < pos
    /\ \A x \in 1..pos : x \in ToSet(kept) \/ s[x] \in {Slash, Dot}

\* What has been consumed has been copied up to the slashes that follow a slash.
Squeezing ==
  doing \in {"slashes", "slash", "done"} =>
    /\ \A x \in 1..pos : x \in ToSet(kept) <=> ~(x > 1 /\ s[x] = Slash /\ s[x - 1] = Slash)
    /\ \A k \in 1..Len(rc) - 1 : <<rc[k], rc[k + 1]>> # <<Slash, Slash>>
    /\ doing = "slash" => pos > 0 /\ s[pos] = Slash
    /\ doing = "slashes" => /\ pos > 0 => s[pos] # Slash
                            /\ rc # <<>> => rc[Len(rc)] # Slash
    /\ doing = "done" => pos = Len(s)

RequestInv == RequestTypes /\ Tracking /\ Splitting /\ Squeezing

LEMMA RequestInitInv == RequestInit => RequestInv
  <1> SUFFICES ASSUME RequestInit PROVE RequestInv
    OBVIOUS
  <1>1. path_ \in Seq(Nat)
    <2>1. uri_ \in Seq(UriCharacters)
      BY BoundedIsSeq, UriAssumption DEF RequestInit
    <2>2. uri_ \in Seq(Nat)
      BY <2>1, SeqMonotonic, UriAssumption
    <2>3. <<Slash>> \in Seq(Nat)
      BY DEF Slash
    <2> QED
      BY <2>2, <2>3, PathIs
  <1>2. RequestTypes
    BY <1>1, SelectsNone DEF RequestInit, RequestTypes
  <1>3. Tracking
    BY SelectsNone DEF RequestInit, Tracking
  <1>4. Splitting /\ Squeezing
    BY DEF RequestInit, Splitting, Squeezing, Halves_
  <1> QED
    BY <1>2, <1>3, <1>4 DEF RequestInv

\* A selection up to some position and one behind it.
LEMMA SelectsBehind ==
  ASSUME NEW whole \in Seq(Nat), NEW p \in Seq(Nat), NEW q \in Seq(Nat),
         NEW v \in Seq(Nat), NEW w \in Seq(Nat),
         Selects(p, whole, v), Selects(q, whole, w),
         NEW c \in Nat, NEW d \in Nat, c <= d,
         \A k \in 1..Len(v) : v[k] <= c, \A k \in 1..Len(w) : w[k] \in c + 1..d
  PROVE  /\ p \o q \in Seq(Nat) /\ v \o w \in Seq(Nat)
         /\ Selects(p \o q, whole, v \o w)
         /\ ToSet(v \o w) = ToSet(v) \cup ToSet(w)
         /\ \A k \in 1..Len(v \o w) : (v \o w)[k] <= d
  <1>1. \A j \in 1..Len(v) : v[j] \in Nat
    BY ElementOfSeq
  <1>2. \A j \in 1..Len(v), k \in 1..Len(w) : v[j] < w[k]
    <2> SUFFICES ASSUME NEW j \in 1..Len(v), NEW k \in 1..Len(w) PROVE v[j] < w[k]
      OBVIOUS
    <2> DEFINE x == v[j]
               y == w[k]
    <2>1. x \in Nat /\ x <= c /\ y \in c + 1..d
      BY <1>1
    <2> HIDE DEF x, y
    <2>2. x < y
      BY ONLY <2>1, c \in Nat, d \in Nat
    <2> QED
      BY ONLY <2>2 DEF x, y
  <1>3. Selects(p \o q, whole, v \o w)
    BY <1>2, SelectsConcat
  <1>4. p \o q \in Seq(Nat) /\ v \o w \in Seq(Nat)
    BY ConcatAt
  <1>5. ToSet(v \o w) = ToSet(v) \cup ToSet(w)
    BY ToSetConcat
  <1>6. \A x \in ToSet(v) \cup ToSet(w) : x <= d
    <2>1. \A x \in ToSet(v) : x \in Nat /\ x <= c
      BY <1>1, ToSetOf
    <2>2. ASSUME NEW x \in ToSet(w) PROVE x <= d
      <3>1. PICK k \in 1..Len(w) : w[k] = x
        BY ToSetOf
      <3>2. w[k] \in c + 1..d
        OBVIOUS
      <3> QED
        BY <3>1, <3>2
    <2>3. \A x \in ToSet(v) : x <= d
      BY <2>1
    <2> QED
      BY <2>2, <2>3
  <1>7. \A k \in 1..Len(v \o w) : (v \o w)[k] \in ToSet(v \o w)
    BY <1>4, ToSetOf
  <1> QED
    BY <1>3, <1>4, <1>5, <1>6, <1>7

LEMMA SameLength ==
  ASSUME NEW m \in Nat, NEW n \in Nat, 1..m = 1..n PROVE m = n
  OBVIOUS

LEMMA KeptOf ==
  ASSUME RequestInv
  PROVE  /\ s \in Seq(Nat) /\ rc \in Seq(Nat) /\ kept \in Seq(Nat) /\ pos \in 0..Len(s)
         /\ Len(s) \in Nat /\ pos \in Nat /\ DOMAIN s = 1..Len(s)
         /\ Len(kept) \in Nat /\ Len(rc) = Len(kept)
         /\ DOMAIN rc = 1..Len(kept) /\ DOMAIN kept = 1..Len(kept)
         /\ Selects(rc, s, kept)
         /\ \A k \in 1..Len(kept) : kept[k] \in 1..Len(s) /\ kept[k] <= pos
  <1>1. /\ s \in Seq(Nat) /\ rc \in Seq(Nat) /\ kept \in Seq(Nat) /\ pos \in 0..Len(s)
        /\ Selects(rc, s, kept) /\ \A k \in 1..Len(kept) : kept[k] <= pos
    BY DEF RequestInv, RequestTypes, Tracking
  <1>2. /\ DOMAIN rc = 1..Len(rc) /\ DOMAIN kept = 1..Len(kept) /\ DOMAIN s = 1..Len(s)
        /\ Len(rc) \in Nat /\ Len(kept) \in Nat /\ Len(s) \in Nat
    BY ONLY <1>1, LenProperties
  <1>3. DOMAIN kept = DOMAIN rc /\ \A k \in DOMAIN rc : kept[k] \in DOMAIN s
    BY ONLY <1>1 DEF Selects
  <1>4. Len(rc) = Len(kept)
    BY ONLY <1>2, <1>3, SameLength
  <1>5. pos \in Nat
    BY <1>1, <1>2
  <1> QED
    BY <1>1, <1>2, <1>3, <1>4, <1>5

\* The fold, without the part to come.
LEMMA BaseSelects ==
  ASSUME RequestInv, doing \in Halves_,
         NEW base, base = IF rc # <<>> THEN rc \o <<Slash>> ELSE <<>>,
         NEW where, where = IF rc # <<>> THEN kept \o <<pos>> ELSE <<>>
  PROVE  /\ base \in Seq(Nat) /\ where \in Seq(Nat) /\ Selects(base, s, where)
         /\ \A k \in 1..Len(where) : where[k] <= pos
         /\ ToSet(where) = ToSet(kept) \cup (IF rc # <<>> THEN {pos} ELSE {})
  <1>1. CASE rc = <<>>
    <2>1. base = <<>> /\ where = <<>>
      BY <1>1
    <2>2. ToSet(kept) = {}
      <3>1. Len(kept) = 0
        BY <1>1, KeptOf
      <3> QED
        BY <3>1, KeptOf DEF ToSet
    <2> QED
      BY <1>1, <2>1, <2>2, SelectsNone
  <1>2. CASE rc # <<>>
    <2>1. Len(kept) # 0
      BY <1>2, KeptOf, EmptySeq
    <2>2. 1 \in 1..Len(kept)
      BY <2>1, KeptOf
    <2>3. kept[1] \in 1..Len(s) /\ kept[1] <= pos
      BY <2>2, KeptOf
    <2>4. pos \in 1..Len(s) /\ pos > 0
      <3>1. pos \in Nat /\ Len(s) \in Nat /\ pos \in 0..Len(s)
        BY KeptOf
      <3> QED
        BY ONLY <2>3, <3>1
    <2>5. Slash = s[pos] /\ \A k \in 1..Len(kept) : kept[k] < pos
      BY <2>4 DEF RequestInv, Splitting
    <2>6. \A k \in 1..Len(kept) : kept[k] <= pos - 1
      BY <2>5, KeptOf
    <2> DEFINE one == <<pos>>
               slash == <<Slash>>
    <2>7. /\ slash \in Seq(Nat) /\ one \in Seq(Nat) /\ Selects(slash, s, one)
          /\ ToSet(one) = {pos} /\ Len(one) = 1 /\ one[1] = pos
      BY <2>4, <2>5, KeptOf, SelectsOne
    <2>8. base = rc \o slash /\ where = kept \o one
      BY <1>2
    <2> HIDE DEF one, slash
    <2>9. pos - 1 \in Nat /\ pos - 1 <= pos /\ pos \in (pos - 1) + 1..pos
      BY <2>4, KeptOf
    <2>10. \A k \in 1..Len(one) : one[k] \in (pos - 1) + 1..pos
      <3> SUFFICES ASSUME NEW k \in 1..Len(one) PROVE one[k] \in (pos - 1) + 1..pos
        OBVIOUS
      <3>1. k = 1
        BY <2>7
      <3> QED
        BY <2>7, <2>9, <3>1
    <2> DEFINE below == pos - 1
    <2>11. /\ below \in Nat /\ below <= pos
           /\ \A k \in 1..Len(kept) : kept[k] <= below
           /\ \A k \in 1..Len(one) : one[k] \in below + 1..pos
      BY <2>6, <2>9, <2>10
    <2> HIDE DEF below
    <2>12. /\ s \in Seq(Nat) /\ rc \in Seq(Nat) /\ kept \in Seq(Nat) /\ pos \in Nat
           /\ Selects(rc, s, kept)
      BY KeptOf
    <2>13. /\ rc \o slash \in Seq(Nat) /\ kept \o one \in Seq(Nat)
           /\ Selects(rc \o slash, s, kept \o one)
           /\ ToSet(kept \o one) = ToSet(kept) \cup ToSet(one)
           /\ \A k \in 1..Len(kept \o one) : (kept \o one)[k] <= pos
      <3>1. slash \in Seq(Nat) /\ one \in Seq(Nat) /\ Selects(slash, s, one)
        BY <2>7
      <3> QED
        BY ONLY <2>11, <2>12, <3>1, SelectsBehind
    <2> QED
      BY <1>2, <2>7, <2>8, <2>13
  <1> QED
    BY <1>1, <1>2

\* The fold over one more part.
LEMMA JoinedSelects ==
  ASSUME RequestInv, doing \in Halves_, NEW last \in pos..Len(s)
  PROVE  /\ Joined(last) \in Seq(Nat) /\ JoinedFrom(last) \in Seq(Nat)
         /\ Selects(Joined(last), s, JoinedFrom(last))
         /\ \A k \in 1..Len(JoinedFrom(last)) : JoinedFrom(last)[k] <= last
         /\ ToSet(JoinedFrom(last)) =
              (ToSet(kept) \cup (IF rc # <<>> THEN {pos} ELSE {})) \cup (pos + 1..last)
  <1> DEFINE base == IF rc # <<>> THEN rc \o <<Slash>> ELSE <<>>
             where == IF rc # <<>> THEN kept \o <<pos>> ELSE <<>>
             part == SubSeq(s, pos + 1, last)
             partFrom == Through(pos + 1, last)
  <1>1. /\ base \in Seq(Nat) /\ where \in Seq(Nat) /\ Selects(base, s, where)
        /\ \A k \in 1..Len(where) : where[k] <= pos
        /\ ToSet(where) = ToSet(kept) \cup (IF rc # <<>> THEN {pos} ELSE {})
    <2> HIDE DEF base, where
    <2>1. /\ base = IF rc # <<>> THEN rc \o <<Slash>> ELSE <<>>
          /\ where = IF rc # <<>> THEN kept \o <<pos>> ELSE <<>>
      BY DEF base, where
    <2> QED
      BY <2>1, BaseSelects
  <1>2. pos + 1 \in 1..Len(s) + 1 /\ last \in (pos + 1) - 1..Len(s)
    BY KeptOf
  <1>3. last \in Nat /\ pos <= last
    BY KeptOf
  <1>4. s \in Seq(Nat) /\ pos \in Nat
    BY KeptOf
  <1>5. Joined(last) = base \o part /\ JoinedFrom(last) = where \o partFrom
    BY DEF Joined, JoinedFrom
  <1> DEFINE first == pos + 1
  <1>6. first \in 1..Len(s) + 1 /\ last \in first - 1..Len(s)
    BY <1>2
  <1> HIDE DEF base, where
  <1>7. /\ part \in Seq(Nat) /\ partFrom \in Seq(Nat) /\ Selects(part, s, partFrom)
        /\ \A k \in 1..Len(partFrom) : partFrom[k] \in pos + 1..last
        /\ ToSet(partFrom) = pos + 1..last
    <2> HIDE DEF first
    <2>1. /\ SubSeq(s, first, last) \in Seq(Nat) /\ Through(first, last) \in Seq(Nat)
          /\ Selects(SubSeq(s, first, last), s, Through(first, last))
          /\ \A k \in 1..Len(Through(first, last)) : Through(first, last)[k] \in first..last
          /\ ToSet(Through(first, last)) = first..last
      BY <1>4, <1>6, SelectsStretch
    <2> USE DEF first
    <2> QED
      BY ONLY <2>1
  <1> HIDE DEF part, partFrom, first
  <1>8. /\ base \o part \in Seq(Nat) /\ where \o partFrom \in Seq(Nat)
        /\ Selects(base \o part, s, where \o partFrom)
        /\ ToSet(where \o partFrom) = ToSet(where) \cup ToSet(partFrom)
        /\ \A k \in 1..Len(where \o partFrom) : (where \o partFrom)[k] <= last
    BY <1>1, <1>3, <1>4, <1>7, SelectsBehind
  <1> QED
    BY <1>1, <1>5, <1>7, <1>8

\* A sequence and all of its positions.
LEMMA SelectsAll ==
  ASSUME NEW whole \in Seq(Nat)
  PROVE  /\ Through(1, Len(whole)) \in Seq(Nat)
         /\ Selects(whole, whole, Through(1, Len(whole)))
         /\ LosesSeparators(whole, Through(1, Len(whole)))
  <1> DEFINE n == Len(whole)
             w == Through(1, n)
  <1>1. n \in Nat /\ DOMAIN whole = 1..n
    BY LenProperties
  <1>2. w = [k \in 1..n |-> k]
    <2>1. n - 1 + 1 = n /\ \A k \in 1..n - 1 + 1 : 1 + k - 1 = k
      BY <1>1
    <2> QED
      BY <2>1 DEF Through
  <1> HIDE DEF w, n
  <1>3. w \in Seq(Nat) /\ DOMAIN w = 1..n /\ \A k \in 1..n : w[k] = k
    <2>1. w \in [1..n -> Nat]
      BY <1>1, <1>2
    <2> QED
      BY <1>1, <1>2, <2>1
  <1>4. Selects(whole, whole, w)
    BY <1>1, <1>3 DEF Selects
  <1>5. LosesSeparators(whole, w)
    BY <1>1, <1>3 DEF LosesSeparators, ToSet
  <1> QED
    BY <1>3, <1>4, <1>5 DEF w, n

LEMMA SuffixAt ==
  ASSUME NEW S, NEW e \in Seq(S), NEW q \in Seq(S), IsSuffix(e, q)
  PROVE  /\ Len(e) <= Len(q)
         /\ \A k \in 1..Len(e) : q[Len(q) - Len(e) + k] = e[k]
  <1> DEFINE m == Len(e)
             n == Len(q)
             re == [i \in 1..m |-> e[(m - i) + 1]]
             rq == [i \in 1..n |-> q[(n - i) + 1]]
  <1>1. m \in Nat /\ n \in Nat /\ e \in [1..m -> S] /\ q \in [1..n -> S]
    BY LenProperties
  <1>2. IsPrefix(re, rq)
    BY DEF IsSuffix, Reverse
  <1>3. re \in Seq(S) /\ Len(re) = m
    <2> HIDE DEF m
    <2>1. re \in [1..m -> S]
      BY <1>1
    <2> HIDE DEF re
    <2> QED
      BY <1>1, <2>1
  <1>4. rq \in Seq(S) /\ Len(rq) = n
    <2> HIDE DEF n
    <2>1. rq \in [1..n -> S]
      BY <1>1
    <2> HIDE DEF rq
    <2> QED
      BY <1>1, <2>1
  <1>5. \A i \in 1..m : re[i] = e[(m - i) + 1]
    OBVIOUS
  <1>6. \A i \in 1..n : rq[i] = q[(n - i) + 1]
    OBVIOUS
  <1> HIDE DEF re, rq, m, n
  <1>7. m <= n /\ SubSeq(re, 1, m) = SubSeq(rq, 1, m)
    BY <1>2, <1>3, <1>4 DEF IsPrefix
  <1>8. m \in 0..Len(re) /\ m \in 0..Len(rq)
    BY <1>1, <1>3, <1>4, <1>7
  <1>9. \A i \in 1..m : SubSeq(re, 1, m)[i] = re[i]
    BY <1>3, <1>8, PrefixOf
  <1>10. \A i \in 1..m : SubSeq(rq, 1, m)[i] = rq[i]
    BY <1>4, <1>8, PrefixOf
  <1>11. ASSUME NEW k \in 1..m PROVE q[n - m + k] = e[k]
    <2>1. m - k + 1 \in 1..m /\ m - k + 1 \in 1..n
      BY <1>1, <1>7
    <2>2. (m - (m - k + 1)) + 1 = k /\ (n - (m - k + 1)) + 1 = n - m + k
      BY <1>1
    <2>3. re[m - k + 1] = e[k] /\ rq[m - k + 1] = q[n - m + k]
      BY <1>5, <1>6, <2>1, <2>2
    <2>4. re[m - k + 1] = rq[m - k + 1]
      BY <1>7, <1>9, <1>10, <2>1
    <2> QED
      BY <2>3, <2>4
  <1> QED
    BY <1>7, <1>11 DEF m, n

\* The separators, and the dot segments that end like them.
DotSeparators == {SlashDotSlash, SlashDotsSlash}

LEMMA SeparatorIs ==
  ASSUME NEW sep \in DotSeparators
  PROVE  /\ sep \in Seq(Nat) /\ Len(sep) \in 3..4
         /\ sep[1] = Slash /\ sep[Len(sep)] = Slash
         /\ \A k \in 2..Len(sep) - 1 : sep[k] = Dot
         /\ Front(sep) \in Seq(Nat) /\ Len(Front(sep)) = Len(sep) - 1
         /\ \A k \in 1..Len(sep) - 1 : Front(sep)[k] = sep[k]
  <1>1. CASE sep = SlashDotSlash
    BY <1>1 DEF SlashDotSlash, Slash, Dot, Front
  <1>2. CASE sep = SlashDotsSlash
    <2>1. /\ sep \in Seq(Nat) /\ Len(sep) = 4
          /\ sep[1] = Slash /\ sep[2] = Dot /\ sep[3] = Dot /\ sep[4] = Slash
      BY <1>2 DEF SlashDotsSlash, Slash, Dot
    <2>2. \A k \in 2..3 : k = 2 \/ k = 3
      OBVIOUS
    <2>3. Front(sep) = SubSeq(sep, 1, 3)
      BY <2>1 DEF Front
    <2>4. /\ SubSeq(sep, 1, 3) \in Seq(Nat) /\ Len(SubSeq(sep, 1, 3)) = 3
          /\ \A k \in 1..3 : SubSeq(sep, 1, 3)[k] = sep[k]
      <3>1. 3 \in 0..Len(sep)
        BY <2>1
      <3> QED
        BY ONLY <2>1, <3>1, PrefixOf
    <2> QED
      BY <2>1, <2>2, <2>3, <2>4
  <1> QED
    BY <1>1, <1>2 DEF DotSeparators

LEMMA FoundAt ==
  ASSUME RequestInv, NEW sep \in DotSeparators, NEW j \in Occurrences(sep)
  PROVE  /\ j \in pos + 1..Len(s) - Len(sep) + 1
         /\ \A k \in 1..Len(sep) : s[j + k - 1] = sep[k]
         /\ \A x \in j..j + Len(sep) - 1 : s[x] \in {Slash, Dot}
         /\ s[j + Len(sep) - 1] = Slash
  <1> DEFINE n == Len(sep)
             b == j + n - 1
  <1>1. j \in pos + 1..Len(s) - n + 1 /\ SubSeq(s, j, b) = sep
    BY DEF Occurrences
  <1>2. /\ n \in 3..4 /\ sep[1] = Slash /\ sep[n] = Slash
        /\ \A k \in 2..n - 1 : sep[k] = Dot
    BY SeparatorIs
  <1>3. s \in Seq(Nat) /\ Len(s) \in Nat /\ pos \in Nat
    BY KeptOf
  <1> HIDE DEF n
  <1>4. j \in Int /\ b \in Int /\ j..b \subseteq 1..Len(s) /\ b - j + 1 = n
    BY <1>1, <1>2, <1>3
  <1> HIDE DEF b
  <1>5. \A x \in j..b : s[x] \in Nat
    BY <1>3, <1>4, ElementOfSeq
  <1>6. \A k \in 1..b - j + 1 : SubSeq(s, j, b)[k] = s[j + k - 1]
    BY <1>4, <1>5, SubSeqProperties
  <1>7. \A k \in 1..n : s[j + k - 1] = sep[k]
    BY <1>1, <1>4, <1>6
  <1>8. \A k \in 1..n : k = 1 \/ k = n \/ k \in 2..n - 1
    BY <1>2
  <1>9. \A k \in 1..n : sep[k] \in {Slash, Dot}
    BY <1>2, <1>8
  <1>10. ASSUME NEW x \in j..b PROVE s[x] \in {Slash, Dot}
    <2>1. x - j + 1 \in 1..n /\ j + (x - j + 1) - 1 = x
      BY <1>4
    <2> QED
      BY <1>7, <1>9, <2>1
  <1>11. s[b] = Slash
    <2>1. n \in 1..n /\ j + n - 1 = b
      BY <1>2 DEF b
    <2> QED
      BY <1>2, <1>7, <2>1
  <1> QED
    BY <1>1, <1>7, <1>10, <1>11 DEF n, b

LEMMA ParseRequestStep == RequestInv /\ parse_request => RequestInv'
  <1> SUFFICES ASSUME RequestInv, parse_request PROVE RequestInv'
    OBVIOUS
  <1>1. /\ s' = path_ /\ from' = Through(1, Len(path_)) /\ doing' = "dots"
        /\ path_' = path_ /\ pos' = pos /\ rc' = rc /\ kept' = kept
    BY SamePath DEF parse_request, PathAndQuery, splitn
  <1>2. path_ \in Seq(Nat) /\ s = <<>> /\ pos = 0 /\ rc \in Seq(Nat) /\ kept \in Seq(Nat)
    BY DEF RequestInv, RequestTypes, Tracking, parse_request
  <1>3. Len(kept) = 0 /\ Len(rc) = 0
    <2>1. Len(s) = 0
      BY <1>2
    <2>2. \A k \in 1..Len(kept) : kept[k] \in 1..Len(s)
      BY KeptOf
    <2>3. Len(kept) \in Nat /\ Len(rc) = Len(kept)
      BY KeptOf
    <2>4. Len(kept) > 0 => 1 \in 1..Len(kept)
      BY <2>3
    <2> QED
      BY <2>1, <2>2, <2>3, <2>4
  <1>4. kept = <<>> /\ rc = <<>>
    BY <1>2, <1>3, EmptySeq
  <1>5. RequestTypes'
    <2>1. Len(path_) \in Nat
      BY <1>2, LenProperties
    <2>2. pos' \in 0..Len(s')
      BY <1>1, <1>2, <2>1
    <2>3. from' \in Seq(Nat)
      BY <1>1, <1>2, SelectsAll
    <2> QED
      BY <1>1, <1>2, <2>2, <2>3 DEF RequestTypes, Halves_
  <1>6. Tracking'
    <2>1. Selects(s', path_', from') /\ LosesSeparators(path_', from')
      BY <1>1, <1>2, SelectsAll
    <2>2. Selects(rc', s', kept')
      BY <1>1, <1>4, SelectsNone
    <2>3. Len(kept') = 0
      BY <1>1, <1>3
    <2> QED
      BY <1>1, <2>1, <2>2, <2>3 DEF Tracking
  <1>7. Splitting' /\ Squeezing'
    BY <1>1, <1>2 DEF Splitting, Squeezing
  <1> QED
    BY <1>5, <1>6, <1>7 DEF RequestInv

LEMMA NextPartStep ==
  ASSUME RequestInv, doing \in Halves_, NEW sep \in DotSeparators, NextPart(sep)
  PROVE  RequestInv'
  <1>1. PICK j \in Occurrences(sep) :
          /\ rc' = Joined(j - 1) /\ kept' = JoinedFrom(j - 1)
          /\ pos' = j + Len(sep) - 1
    BY DEF NextPart
  <1>2. s' = s /\ path_' = path_ /\ from' = from /\ doing' = doing
    BY SamePath DEF NextPart
  <1>3. /\ j \in pos + 1..Len(s) - Len(sep) + 1
        /\ \A x \in j..pos' : s[x] \in {Slash, Dot}
        /\ s[pos'] = Slash
    BY <1>1, FoundAt
  <1>4. Len(sep) \in 3..4 /\ Len(s) \in Nat /\ pos \in Nat
    BY SeparatorIs, KeptOf
  <1>5. j - 1 \in pos..Len(s) /\ j - 1 < pos' /\ pos' \in 0..Len(s) /\ pos' > 0
    <2> DEFINE n == Len(sep)
               m == Len(s)
    <2> HIDE DEF n, m
    <2>1. /\ pos' = j + n - 1 /\ j \in pos + 1..m - n + 1
          /\ n \in 3..4 /\ m \in Nat /\ pos \in Nat
      BY <1>1, <1>3, <1>4 DEF n, m
    <2>2. j - 1 \in pos..m /\ j - 1 < pos' /\ pos' \in 0..m /\ pos' > 0
      BY ONLY <2>1
    <2> QED
      BY ONLY <2>2 DEF m
  <1>6. /\ rc' \in Seq(Nat) /\ kept' \in Seq(Nat) /\ Selects(rc', s, kept')
        /\ \A k \in 1..Len(kept') : kept'[k] <= j - 1
        /\ ToSet(kept') =
             (ToSet(kept) \cup (IF rc # <<>> THEN {pos} ELSE {})) \cup (pos + 1..j - 1)
    BY <1>1, <1>5, JoinedSelects
  <1>7. \A k \in 1..Len(kept') : kept'[k] <= pos' /\ kept'[k] < pos'
    <2>1. \A k \in 1..Len(kept') : kept'[k] \in Nat
      BY <1>6, ElementOfSeq
    <2> QED
      BY <1>3, <1>4, <1>5, <1>6, <2>1
  <1>8. RequestTypes'
    BY <1>2, <1>5, <1>6 DEF RequestInv, RequestTypes
  <1>9. Tracking'
    BY <1>2, <1>6, <1>7 DEF RequestInv, Tracking, Halves_
  <1>10. Splitting'
    <2>1. ASSUME NEW x \in 1..pos' PROVE x \in ToSet(kept') \/ s[x] \in {Slash, Dot}
      <3>1. x \in 1..pos \/ x \in pos + 1..j - 1 \/ x \in j..pos'
        BY <1>3, <1>4, <1>5
      <3>2. x \in 1..pos => x \in ToSet(kept) \/ s[x] \in {Slash, Dot}
        BY DEF RequestInv, Splitting
      <3> QED
        BY <1>3, <1>6, <3>1, <3>2
    <2> QED
      BY <1>2, <1>3, <1>7, <2>1 DEF Splitting
  <1>11. Squeezing'
    BY <1>2 DEF Squeezing, Halves_
  <1> QED
    BY <1>8, <1>9, <1>10, <1>11 DEF RequestInv

\* What a dot segment at the end leaves.
LEMMA DropEndIs ==
  ASSUME NEW sep \in DotSeparators, NEW q \in Seq(Nat), NEW n, n = DropEnd(q, Front(sep))
  PROVE  /\ n \in 0..Len(q)
         /\ \A k \in n + 1..Len(q) : q[k] \in {Slash, Dot}
  <1> DEFINE e == Front(sep)
             l == Len(e)
             m == Len(q)
  <1>1. e \in Seq(Nat) /\ l = Len(sep) - 1 /\ Len(sep) \in 3..4
    BY SeparatorIs
  <1>2. \A k \in 1..Len(sep) - 1 : e[k] = sep[k]
    BY SeparatorIs
  <1>3. sep[1] = Slash /\ \A k \in 2..Len(sep) - 1 : sep[k] = Dot
    BY SeparatorIs
  <1>4. l \in 2..3 /\ m \in Nat
    BY <1>1, LenProperties
  <1>5. \A k \in 1..l : e[k] \in {Slash, Dot}
    <2> SUFFICES ASSUME NEW k \in 1..l PROVE e[k] \in {Slash, Dot}
      OBVIOUS
    <2> HIDE DEF e, l
    <2>1. k \in 1..Len(sep) - 1 /\ (k = 1 \/ k \in 2..Len(sep) - 1)
      BY <1>1, <1>4
    <2> QED
      BY <1>2, <1>3, <2>1
  <1>6. n = IF IsSuffix(e, q) THEN m - l + 1 ELSE m
    BY DEF DropEnd
  <1>7. IsSuffix(e, q) => l <= m /\ \A k \in 1..l : q[m - l + k] = e[k]
    <2> HIDE DEF e
    <2> QED
      BY <1>1, SuffixAt
  <1> HIDE DEF e, l, m
  <1>8. n \in 0..m
    BY <1>4, <1>6, <1>7
  <1>9. ASSUME NEW k \in n + 1..m PROVE q[k] \in {Slash, Dot}
    <2>1. IsSuffix(e, q) /\ n = m - l + 1
      BY <1>4, <1>6
    <2>2. k - (m - l) \in 1..l /\ m - l + (k - (m - l)) = k
      BY <1>4, <1>8, <2>1
    <2> QED
      BY <1>5, <1>7, <2>1, <2>2
  <1> QED
    BY <1>8, <1>9 DEF m

LEMMA LastPartStep ==
  ASSUME RequestInv, doing \in Halves_, NEW sep \in DotSeparators,
         NEW next \in {"dotdots", "slashes"}, LastPart(sep, next)
  PROVE  RequestInv'
  <1> DEFINE all == Joined(Len(s))
             allFrom == JoinedFrom(Len(s))
             n == DropEnd(all, Front(sep))
             where == [k \in DOMAIN all |-> from[allFrom[k]]]
  <1>1. /\ s' = SubSeq(all, 1, n) /\ from' = [k \in 1..n |-> from[allFrom[k]]]
        /\ doing' = next /\ pos' = 0 /\ rc' = <<>> /\ kept' = <<>> /\ path_' = path_
    BY SamePath DEF LastPart
  <1>2. /\ s \in Seq(Nat) /\ Len(s) \in Nat /\ pos \in Nat /\ Len(s) \in pos..Len(s)
        /\ DOMAIN s = 1..Len(s)
    BY KeptOf
  <1>3. /\ all \in Seq(Nat) /\ Selects(all, s, allFrom)
        /\ ToSet(allFrom) =
             (ToSet(kept) \cup (IF rc # <<>> THEN {pos} ELSE {})) \cup (pos + 1..Len(s))
    BY <1>2, JoinedSelects
  <1>4. /\ path_ \in Seq(Nat) /\ from \in Seq(Nat)
        /\ Selects(s, path_, from) /\ LosesSeparators(path_, from)
    BY DEF RequestInv, RequestTypes, Tracking, Halves_
  <1> HIDE DEF all, allFrom
  <1>5. LosesSeparators(s, allFrom)
    <2>1. ASSUME NEW x \in 1..Len(s), x \notin ToSet(allFrom) PROVE s[x] \in {Slash, Dot}
      <3>1. x \in 1..pos
        BY <1>2, <1>3, <2>1
      <3> QED
        BY <1>3, <2>1, <3>1 DEF RequestInv, Splitting
    <2> QED
      BY <1>2, <2>1 DEF LosesSeparators
  <1>6. Selects(all, path_, where) /\ LosesSeparators(path_, where)
    BY <1>2, <1>3, <1>4, <1>5, SelectsCompose, LosesCompose
  <1>7. n \in 0..Len(all) /\ \A k \in n + 1..Len(all) : all[k] \in {Slash, Dot}
    BY <1>3, DropEndIs
  <1> HIDE DEF n
  <1> DEFINE part == SubSeq(all, 1, n)
             some == Through(1, n)
  <1>8. Len(all) \in Nat /\ DOMAIN all = 1..Len(all) /\ n \in Nat
    BY <1>3, <1>7, LenProperties
  <1>9. /\ part \in Seq(Nat) /\ Selects(part, all, some) /\ Len(part) = n
        /\ ToSet(some) = 1..n
    <2>1. 1 \in 1..Len(all) + 1 /\ n \in 1 - 1..Len(all) /\ n - 1 + 1 = n
      BY <1>7, <1>8
    <2>2. /\ part \in Seq(Nat) /\ Selects(part, all, some) /\ Len(part) = n - 1 + 1
          /\ ToSet(some) = 1..n
      BY <1>3, <2>1, SelectsStretch
    <2> QED
      BY <2>1, <2>2
  <1>10. LosesSeparators(all, some)
    <2>1. ASSUME NEW x \in 1..Len(all), x \notin 1..n PROVE all[x] \in {Slash, Dot}
      BY <1>7, <1>8, <2>1
    <2> QED
      BY <1>8, <1>9, <2>1 DEF LosesSeparators
  <1>11. DOMAIN part = 1..n
    BY <1>9, LenProperties
  <1>12. some = [k \in 1..n |-> k]
    <2>1. n - 1 + 1 = n /\ \A k \in 1..n : 1 + k - 1 = k
      BY <1>8
    <2> QED
      BY <2>1 DEF Through
  <1> HIDE DEF part
  <1>13. [k \in DOMAIN part |-> where[some[k]]] = from'
    <2>1. \A k \in 1..n : k \in DOMAIN all /\ some[k] = k
      BY <1>7, <1>8, <1>12
    <2>2. \A k \in 1..n : where[some[k]] = from[allFrom[k]]
      BY <2>1
    <2> QED
      BY <1>1, <1>11, <2>2
  <1> HIDE DEF where, some
  <1>14. Selects(part, path_, from') /\ LosesSeparators(path_, from')
    BY <1>3, <1>4, <1>6, <1>9, <1>10, <1>13, SelectsCompose, LosesCompose
  <1>15. s' = part
    BY <1>1 DEF part
  <1>16. from' \in Seq(Nat)
    <2>1. DOMAIN from' = 1..n
      BY <1>1
    <2>2. \A k \in 1..n : from'[k] \in Nat
      <3>1. \A k \in 1..n : from'[k] \in DOMAIN path_
        BY <1>11, <1>14 DEF Selects
      <3>2. DOMAIN path_ = 1..Len(path_)
        BY <1>4, LenProperties
      <3> QED
        BY <3>1, <3>2
    <2>3. from' = [k \in 1..n |-> from'[k]]
      BY <1>1
    <2>4. from' \in [1..n -> Nat]
      BY <2>1, <2>2, <2>3
    <2> QED
      BY <1>8, <2>4
  <1>17. RequestTypes'
    <2>1. pos' \in 0..Len(s')
      BY <1>1, <1>8, <1>9, <1>15
    <2>2. rc' \in Seq(Nat) /\ kept' \in Seq(Nat)
      BY <1>1, EmptySeq
    <2>3. doing' \in {"uri", "slashes", "slash", "done"} \cup Halves_
      BY <1>1 DEF Halves_
    <2> QED
      BY <1>1, <1>4, <1>9, <1>15, <1>16, <2>1, <2>2, <2>3 DEF RequestTypes
  <1>18. Tracking'
    <2>1. doing' # "uri"
      BY <1>1
    <2>2. Selects(rc', s', kept') /\ Len(kept') = 0
      BY <1>1, SelectsNone
    <2>3. \A k \in 1..Len(kept') : kept'[k] <= pos'
      BY <2>2
    <2> QED
      BY <1>1, <1>14, <1>15, <2>1, <2>2, <2>3 DEF Tracking
  <1>19. Splitting' /\ Squeezing'
    <2>1. pos' = 0 /\ rc' = <<>> /\ Len(rc') = 0 /\ doing' \in {"dotdots", "slashes"}
      BY <1>1
    <2> QED
      BY <2>1 DEF Splitting, Squeezing
  <1> QED
    BY <1>17, <1>18, <1>19 DEF RequestInv

LEMMA PushSelects ==
  ASSUME RequestInv, pos < Len(s), Push
  PROVE  /\ pos + 1 \in 1..Len(s) /\ pos + 1 \in Nat
         /\ rc' \in Seq(Nat) /\ kept' \in Seq(Nat) /\ Selects(rc', s, kept')
         /\ \A k \in 1..Len(kept') : kept'[k] <= pos + 1
         /\ ToSet(kept') = ToSet(kept) \cup {pos + 1}
         /\ Len(rc') = Len(rc) + 1 /\ rc'[Len(rc) + 1] = s[pos + 1]
         /\ \A k \in 1..Len(rc) : rc'[k] = rc[k]
  <1> DEFINE here == pos + 1
             c == s[here]
             p == <<c>>
             v == <<here>>
  <1>1. /\ s \in Seq(Nat) /\ rc \in Seq(Nat) /\ kept \in Seq(Nat) /\ pos \in Nat
        /\ Len(s) \in Nat /\ Selects(rc, s, kept)
        /\ \A k \in 1..Len(kept) : kept[k] <= pos
    BY KeptOf
  <1>2. here \in 1..Len(s) /\ here \in Nat /\ pos <= here
    BY <1>1
  <1>3. rc' = Append(rc, c) /\ kept' = Append(kept, here)
    BY DEF Push
  <1> HIDE DEF here
  <1>4. c \in Nat
    BY <1>1, <1>2, ElementOfSeq
  <1>5. /\ p \in Seq(Nat) /\ v \in Seq(Nat) /\ Selects(p, s, v)
        /\ ToSet(v) = {here} /\ Len(v) = 1 /\ v[1] = here
    BY <1>1, <1>2, SelectsOne
  <1> HIDE DEF c
  <1>6. rc' = rc \o p /\ kept' = kept \o v
    <2>1. Append(rc, c) = rc \o p
      BY <1>1, <1>4, AppendIsConcat
    <2>2. Append(kept, here) = kept \o v
      BY <1>1, <1>2, AppendIsConcat
    <2> QED
      BY <1>3, <2>1, <2>2
  <1>7. /\ Len(rc') = Len(rc) + 1 /\ rc'[Len(rc) + 1] = c
        /\ \A k \in 1..Len(rc) : rc'[k] = rc[k]
    BY <1>1, <1>3, <1>4
  <1> HIDE DEF p, v
  <1>8. \A k \in 1..Len(v) : v[k] \in pos + 1..here
    <2>1. here \in pos + 1..here
      BY <1>1 DEF here
    <2>2. \A k \in 1..1 : k = 1
      OBVIOUS
    <2> QED
      BY <1>5, <2>1, <2>2
  <1>9. /\ rc \o p \in Seq(Nat) /\ kept \o v \in Seq(Nat)
        /\ Selects(rc \o p, s, kept \o v)
        /\ ToSet(kept \o v) = ToSet(kept) \cup ToSet(v)
        /\ \A k \in 1..Len(kept \o v) : (kept \o v)[k] <= here
    <2>1. p \in Seq(Nat) /\ v \in Seq(Nat) /\ Selects(p, s, v)
      BY <1>5
    <2> QED
      BY ONLY <1>1, <1>2, <1>8, <2>1, SelectsBehind
  <1>10. rc' \in Seq(Nat) /\ kept' \in Seq(Nat) /\ Selects(rc', s, kept')
    BY <1>6, <1>9
  <1>11. \A k \in 1..Len(kept') : kept'[k] <= here
    BY <1>6, <1>9
  <1>12. ToSet(kept') = ToSet(kept) \cup {here}
    BY <1>5, <1>6, <1>9
  <1> QED
    BY <1>2, <1>7, <1>10, <1>11, <1>12 DEF here, c

\* What Push keeps of Squeezing: neither loop copies a slash behind a slash.
LEMMA PushSqueezes ==
  ASSUME RequestInv, doing \in {"slashes", "slash"}, pos < Len(s), Push,
         doing = "slash" => s[pos + 1] # Slash
  PROVE  /\ \A x \in 1..pos + 1 :
              x \in ToSet(kept') <=> ~(x > 1 /\ s[x] = Slash /\ s[x - 1] = Slash)
         /\ \A k \in 1..Len(rc') - 1 : <<rc'[k], rc'[k + 1]>> # <<Slash, Slash>>
         /\ rc' # <<>> /\ rc'[Len(rc')] = s[pos + 1]
  <1>1. /\ pos \in Nat /\ ToSet(kept') = ToSet(kept) \cup {pos + 1}
        /\ Len(rc') = Len(rc) + 1 /\ rc'[Len(rc) + 1] = s[pos + 1]
        /\ \A k \in 1..Len(rc) : rc'[k] = rc[k]
    BY PushSelects, KeptOf
  <1>2. Len(rc) \in Nat /\ rc \in Seq(Nat)
    BY KeptOf
  <1>3. /\ \A x \in 1..pos :
             x \in ToSet(kept) <=> ~(x > 1 /\ s[x] = Slash /\ s[x - 1] = Slash)
        /\ \A k \in 1..Len(rc) - 1 : <<rc[k], rc[k + 1]>> # <<Slash, Slash>>
        /\ doing = "slashes" => /\ pos > 0 => s[pos] # Slash
                                /\ rc # <<>> => rc[Len(rc)] # Slash
    BY DEF RequestInv, Squeezing
  <1>4. ASSUME NEW x \in 1..pos + 1
        PROVE  x \in ToSet(kept') <=> ~(x > 1 /\ s[x] = Slash /\ s[x - 1] = Slash)
    <2>1. CASE x \in 1..pos
      <3>1. x # pos + 1
        BY <1>1, <2>1
      <3> QED
        BY <1>1, <1>3, <2>1, <3>1
    <2>2. CASE x = pos + 1
      <3>1. x \in ToSet(kept') /\ x - 1 = pos /\ (x > 1 <=> pos > 0)
        BY <1>1, <2>2
      <3>2. ~(pos > 0 /\ s[pos + 1] = Slash /\ s[pos] = Slash)
        BY <1>3
      <3> QED
        BY <2>2, <3>1, <3>2
    <2> QED
      BY <1>1, <2>1, <2>2
  <1>5. ASSUME NEW k \in 1..Len(rc') - 1
        PROVE  <<rc'[k], rc'[k + 1]>> # <<Slash, Slash>>
    <2>1. CASE k \in 1..Len(rc) - 1
      <3>1. k \in 1..Len(rc) /\ k + 1 \in 1..Len(rc)
        BY <1>2, <2>1
      <3> QED
        BY <1>1, <1>3, <2>1, <3>1
    <2>2. CASE k = Len(rc)
      <3>1. k \in 1..Len(rc) /\ k + 1 = Len(rc) + 1
        BY <1>1, <1>2, <2>2
      <3>2. rc # <<>>
        BY <1>2, <2>2, EmptySeq
      <3>3. rc'[k] = rc[Len(rc)] /\ rc'[k + 1] = s[pos + 1]
        BY <1>1, <2>2, <3>1
      <3>4. ~(rc[Len(rc)] = Slash /\ s[pos + 1] = Slash)
        BY <1>3, <3>2
      <3> QED
        BY <3>3, <3>4
    <2>3. k \in 1..Len(rc) - 1 \/ k = Len(rc)
      BY <1>1, <1>2
    <2> QED
      BY <2>1, <2>2, <2>3
  <1>6. rc' # <<>> /\ rc'[Len(rc')] = s[pos + 1]
    <2>1. Len(rc') # 0
      BY <1>1, <1>2
    <2>2. rc' # <<>>
      BY <2>1, EmptySeq
    <2> QED
      BY <1>1, <2>2
  <1> QED
    BY <1>4, <1>5, <1>6

LEMMA RemoveSlashesStep == RequestInv /\ remove_slashes => RequestInv'
  <1> SUFFICES ASSUME RequestInv, remove_slashes PROVE RequestInv'
    OBVIOUS
  <1>1. /\ pos < Len(s) /\ pos' = pos + 1 /\ path_' = path_ /\ s' = s /\ from' = from
        /\ doing \in {"slashes", "slash"}
    BY SamePath DEF remove_slashes
  <1>2. pos \in Nat /\ Len(s) \in Nat
    BY KeptOf
  <1>3. pos' \in 0..Len(s') /\ pos' > 0 /\ pos' # 0
    BY <1>1, <1>2
  <1>4. /\ path_ \in Seq(Nat) /\ s \in Seq(Nat) /\ from \in Seq(Nat)
        /\ Selects(s, path_, from) /\ LosesSeparators(path_, from)
    BY <1>1 DEF RequestInv, RequestTypes, Tracking
  <1>5. CASE Push /\ (doing = "slash" => s[pos + 1] # Slash)
             /\ doing' = IF s[pos + 1] = Slash THEN "slash" ELSE "slashes"
    <2>1. /\ rc' \in Seq(Nat) /\ kept' \in Seq(Nat) /\ Selects(rc', s, kept')
          /\ \A k \in 1..Len(kept') : kept'[k] <= pos'
      BY <1>1, <1>5, PushSelects
    <2>2. /\ \A x \in 1..pos' :
               x \in ToSet(kept') <=> ~(x > 1 /\ s[x] = Slash /\ s[x - 1] = Slash)
          /\ \A k \in 1..Len(rc') - 1 : <<rc'[k], rc'[k + 1]>> # <<Slash, Slash>>
          /\ rc' # <<>> /\ rc'[Len(rc')] = s[pos']
      BY <1>1, <1>5, PushSqueezes
    <2>3. doing' = IF s[pos'] = Slash THEN "slash" ELSE "slashes"
      BY <1>1, <1>5
    <2>4. RequestTypes'
      BY <1>1, <1>3, <1>4, <2>1, <2>3 DEF RequestTypes
    <2>5. Tracking'
      BY <1>1, <1>4, <2>1, <2>3 DEF Tracking
    <2>6. Splitting'
      BY <2>3 DEF Splitting, Halves_
    <2>7. Squeezing'
      BY <1>1, <1>3, <2>2, <2>3 DEF Squeezing
    <2> QED
      BY <2>4, <2>5, <2>6, <2>7 DEF RequestInv
  <1>6. CASE /\ doing = "slash" /\ s[pos + 1] = Slash /\ doing' = "slash"
             /\ rc' = rc /\ kept' = kept
    <2>1. /\ rc \in Seq(Nat) /\ kept \in Seq(Nat) /\ Selects(rc, s, kept)
          /\ \A k \in 1..Len(kept) : kept[k] <= pos /\ kept[k] \in 1..Len(s)
      BY KeptOf
    <2>2. \A k \in 1..Len(kept) : kept[k] <= pos' /\ kept[k] # pos'
      BY <1>1, <1>2, <2>1
    <2>3. RequestTypes'
      BY <1>1, <1>3, <1>4, <1>6, <2>1 DEF RequestTypes
    <2>4. Tracking'
      BY <1>1, <1>4, <1>6, <2>1, <2>2 DEF Tracking
    <2>5. Splitting'
      BY <1>6 DEF Splitting, Halves_
    <2>6. Squeezing'
      <3>1. /\ \A x \in 1..pos :
                 x \in ToSet(kept) <=> ~(x > 1 /\ s[x] = Slash /\ s[x - 1] = Slash)
            /\ \A k \in 1..Len(rc) - 1 : <<rc[k], rc[k + 1]>> # <<Slash, Slash>>
            /\ pos > 0 /\ s[pos] = Slash
        BY <1>6 DEF RequestInv, Squeezing
      <3>2. pos' \notin ToSet(kept)
        BY <2>1, <2>2, ToSetOf
      <3>3. pos' > 1 /\ s[pos'] = Slash /\ s[pos' - 1] = Slash
        <4>1. pos' > 1 /\ pos' - 1 = pos
          BY <1>1, <1>2, <3>1
        <4> QED
          BY <1>1, <1>6, <3>1, <4>1
      <3>4. \A x \in 1..pos' : x \in 1..pos \/ x = pos'
        BY <1>1, <1>2
      <3>5. \A x \in 1..pos' :
               x \in ToSet(kept) <=> ~(x > 1 /\ s[x] = Slash /\ s[x - 1] = Slash)
        BY <3>1, <3>2, <3>3, <3>4
      <3> QED
        BY <1>1, <1>3, <1>6, <3>1, <3>3, <3>5 DEF Squeezing
    <2> QED
      BY <2>3, <2>4, <2>5, <2>6 DEF RequestInv
  <1> QED
    BY <1>5, <1>6 DEF remove_slashes, Continue, PushAndBreak

LEMMA ParsedStep == RequestInv /\ Parsed => RequestInv'
  <1> SUFFICES ASSUME RequestInv, Parsed PROVE RequestInv'
    OBVIOUS
  <1>1. /\ doing \in {"slashes", "slash"} /\ doing' = "done" /\ pos = Len(s)
        /\ path_' = path_ /\ s' = s /\ pos' = pos /\ rc' = rc /\ from' = from /\ kept' = kept
    BY SamePath DEF Parsed
  <1>2. RequestTypes'
    BY <1>1 DEF RequestInv, RequestTypes
  <1>3. Tracking'
    BY <1>1 DEF RequestInv, Tracking
  <1>4. Splitting'
    BY <1>1 DEF Splitting, Halves_
  <1>5. Squeezing'
    BY <1>1 DEF RequestInv, Squeezing
  <1> QED
    BY <1>2, <1>3, <1>4, <1>5 DEF RequestInv

LEMMA RequestStep == RequestInv /\ [RequestNext]_requestVars => RequestInv'
  <1> SUFFICES ASSUME RequestInv, [RequestNext]_requestVars PROVE RequestInv'
    OBVIOUS
  <1>1. CASE parse_request
    BY <1>1, ParseRequestStep
  <1>2. CASE remove_dots
    <2>1. SlashDotSlash \in DotSeparators /\ SlashDotsSlash \in DotSeparators
      BY DEF DotSeparators
    <2>2. doing \in Halves_
      BY <1>2 DEF remove_dots, Halves_
    <2> QED
      BY <1>2, <2>1, <2>2, NextPartStep, LastPartStep DEF remove_dots
  <1>3. CASE remove_slashes
    BY <1>3, RemoveSlashesStep
  <1>4. CASE Parsed
    BY <1>4, ParsedStep
  <1>5. CASE UNCHANGED requestVars
    <2>1. /\ path_' = path_ /\ doing' = doing /\ s' = s /\ pos' = pos /\ rc' = rc
          /\ from' = from /\ kept' = kept
      BY <1>5, SamePath DEF requestVars
    <2> QED
      BY <2>1 DEF RequestInv, RequestTypes, Tracking, Splitting, Squeezing
  <1> QED
    BY <1>1, <1>2, <1>3, <1>4, <1>5 DEF RequestNext

\* Whatever path_ is at first: each character of what a function is applied to, and of
\* what it has made of that, is a known character of its argument, in the order of the
\* argument, and what has been left out consists of slashes and dots.
THEOREM RequestInvariant == RequestSpec => []RequestInv
  BY RequestInitInv, RequestStep, PTL DEF RequestSpec

\* remove_slashes drops exactly the slashes that follow a slash, however long the path.
THEOREM SlashesAreCollapsed == RequestSpec => []SlashesCollapsed
  <1>1. RequestInv => SlashesCollapsed
    <2> SUFFICES ASSUME RequestInv, doing = "done"
                 PROVE  /\ Selects(rc, s, kept)
                        /\ ToSet(kept) = {k \in DOMAIN s :
                                            ~(k > 1 /\ s[k] = Slash /\ s[k - 1] = Slash)}
      BY DEF SlashesCollapsed
    <2>1. /\ Selects(rc, s, kept) /\ DOMAIN s = 1..Len(s)
          /\ kept \in Seq(Nat) /\ \A k \in 1..Len(kept) : kept[k] \in 1..Len(s)
      BY KeptOf
    <2>2. \A x \in 1..Len(s) :
             x \in ToSet(kept) <=> ~(x > 1 /\ s[x] = Slash /\ s[x - 1] = Slash)
      BY DEF RequestInv, Squeezing
    <2>3. ToSet(kept) \subseteq 1..Len(s)
      BY <2>1, ToSetOf
    <2> QED
      BY <2>1, <2>2, <2>3
  <1> QED
    BY <1>1, RequestInvariant, PTL

-----------------------------------------------------------------------------
(* HttpRequest: dot segments that are not next to one another.              *)

Separator == IF doing = "dots" THEN SlashDotSlash ELSE SlashDotsSlash

\* Where str has the separator, not only in what is left of it.
Found(str, sep) ==
  {j \in 1..Len(str) - Len(sep) + 1 : SubSeq(str, j, j + Len(sep) - 1) = sep}

\* What split and fold take out for a separator found there.
Gone(j, n) == IF j = 1 THEN 1..n ELSE j..j + n - 2

Apart(str, sep) == \A j, k \in Found(str, sep) : j < k => j + Len(sep) < k

\* Separators that are apart are all found, and each is replaced by its last slash, the
\* one at the beginning by nothing.
Folding ==
  doing \in Halves_ /\ Apart(s, Separator) =>
    LET n == Len(Separator)
        F == Found(s, Separator)
    IN  /\ pos > 0 => \E j \in F : pos = j + n - 1
        /\ \A j \in F : pos < j \/ j + n - 1 <= pos
        /\ rc = <<>> <=> pos = 0 \/ (pos = n /\ 1 \in F)
        /\ \A x \in 1..pos - 1 : x \in ToSet(kept) <=> \A j \in F : x \notin Gone(j, n)

\* The dot segments of n dots, and what is left of the uri without some of them.
Segments(n) == {d \in DotSegments : d[2] = d[1] + n - 1}

Without(D) == {x \in DOMAIN path_ : \A d \in D : x \notin GoesWith(d)}

\* Which dot segments have gone.
Removed == CASE doing \in {"uri", "dots"} -> {}
             [] doing = "dotdots"         -> Segments(1)
             [] OTHER                     -> DotSegments

Removing == doing # "uri" /\ Scattered => ToSet(from) = Without(Removed)

DotsInv == RequestInv /\ Folding /\ Removing

LEMMA SeparatorNow ==
  ASSUME doing \in Halves_
  PROVE  Separator \in DotSeparators
  BY DEF Separator, DotSeparators, Halves_

LEMMA FoundIs ==
  ASSUME NEW str \in Seq(Nat), NEW sep \in DotSeparators, NEW j \in Found(str, sep)
  PROVE  /\ j \in 1..Len(str) - Len(sep) + 1 /\ j \in Nat
         /\ \A k \in 1..Len(sep) : str[j + k - 1] = sep[k]
  <1> DEFINE n == Len(sep)
             b == j + n - 1
  <1>1. j \in 1..Len(str) - n + 1 /\ SubSeq(str, j, b) = sep
    BY DEF Found
  <1>2. n \in 3..4 /\ Len(str) \in Nat
    BY SeparatorIs, LenProperties
  <1> HIDE DEF n
  <1>3. j \in Int /\ b \in Int /\ j \in Nat /\ j..b \subseteq 1..Len(str) /\ b - j + 1 = n
    BY <1>1, <1>2
  <1> HIDE DEF b
  <1>4. \A x \in j..b : str[x] \in Nat
    BY <1>3, ElementOfSeq
  <1>5. \A k \in 1..b - j + 1 : SubSeq(str, j, b)[k] = str[j + k - 1]
    BY <1>3, <1>4, SubSeqProperties
  <1>6. \A k \in 1..n : str[j + k - 1] = sep[k]
    BY <1>1, <1>3, <1>5
  <1> QED
    BY <1>1, <1>3, <1>6 DEF n

LEMMA FoundWhere ==
  ASSUME NEW str \in Seq(Nat), NEW sep \in DotSeparators, NEW j \in Nat,
         j \in 1..Len(str) - Len(sep) + 1, \A k \in 1..Len(sep) : str[j + k - 1] = sep[k]
  PROVE  j \in Found(str, sep)
  <1> DEFINE n == Len(sep)
             b == j + n - 1
             q == SubSeq(str, j, b)
  <1>1. n \in 3..4 /\ Len(str) \in Nat /\ sep \in Seq(Nat) /\ j \in 1..Len(str) - n + 1
    BY SeparatorIs, LenProperties
  <1> HIDE DEF n
  <1>2. /\ j \in Int /\ b \in Int /\ j..b \subseteq 1..Len(str) /\ b - j + 1 = n
        /\ (IF j <= b THEN b - j + 1 ELSE 0) = n
    BY <1>1
  <1> HIDE DEF b
  <1>3. \A x \in j..b : str[x] \in Nat
    BY <1>2, ElementOfSeq
  <1>4. /\ q \in Seq(Nat) /\ Len(q) = (IF j <= b THEN b - j + 1 ELSE 0)
        /\ \A k \in 1..b - j + 1 : q[k] = str[j + k - 1]
    BY <1>2, <1>3, SubSeqProperties
  <1>5. Len(q) = n /\ \A k \in 1..n : q[k] = str[j + k - 1]
    BY <1>2, <1>4
  <1> HIDE DEF q
  <1>6. \A k \in 1..n : q[k] = sep[k]
    BY <1>5 DEF n
  <1>7. q = sep
    <2>1. Len(sep) = n
      BY DEF n
    <2> QED
      BY <1>1, <1>4, <1>5, <1>6, <2>1, SeqEqual
  <1> QED
    BY <1>1, <1>7 DEF Found, n, b, q

LEMMA OccurrencesAre ==
  ASSUME RequestInv, NEW sep \in DotSeparators, NEW j
  PROVE  j \in Occurrences(sep) <=> j \in Found(s, sep) /\ pos < j
  <1>1. pos \in Nat /\ Len(s) \in Nat /\ Len(sep) \in Nat
    BY KeptOf, SeparatorIs
  <1>2. j \in pos + 1..Len(s) - Len(sep) + 1
          <=> j \in 1..Len(s) - Len(sep) + 1 /\ pos < j
    BY <1>1
  <1> QED
    BY <1>2 DEF Occurrences, Found

LEMMA EmptySelection ==
  ASSUME NEW whole, NEW p \in Seq(Nat), NEW v \in Seq(Nat), Selects(p, whole, v)
  PROVE  p = <<>> <=> ToSet(v) = {}
  <1>1. DOMAIN p = 1..Len(p) /\ DOMAIN v = 1..Len(v) /\ Len(p) \in Nat /\ Len(v) \in Nat
    BY LenProperties
  <1>2. Len(p) = Len(v)
    BY <1>1, SameLength DEF Selects
  <1>3. Len(v) = 0 => ToSet(v) = {}
    BY <1>1 DEF ToSet
  <1>4. Len(v) # 0 => v[1] \in ToSet(v)
    <2>1. Len(v) # 0 => 1 \in 1..Len(v)
      BY <1>1
    <2> QED
      BY <2>1, ToSetOf
  <1>5. p = <<>> <=> Len(p) = 0
    BY EmptySeq
  <1> QED
    BY <1>2, <1>3, <1>4, <1>5

\* What Folding says of the sets of positions alone: F where the separator is, n long, K
\* what has been kept.
KeptBetween(F, n, K) ==
  /\ n \in 3..4 /\ pos \in Nat /\ Len(s) \in Nat /\ pos <= Len(s)
  /\ \A j \in F : j \in Nat /\ 1 <= j /\ j + n - 1 <= Len(s)
  /\ \A j, k \in F : j < k => j + n < k
  /\ \A x \in K : x \in Nat /\ 1 <= x /\ (pos > 0 => x < pos)
  /\ pos = 0 => K = {}
  /\ rc = <<>> <=> K = {}
  /\ pos > 0 => \E j \in F : pos = j + n - 1
  /\ \A j \in F : pos < j \/ j + n - 1 <= pos
  /\ rc = <<>> <=> pos = 0 \/ (pos = n /\ 1 \in F)
  /\ \A x \in 1..pos - 1 : x \in K <=> \A j \in F : x \notin Gone(j, n)

LEMMA FoldingFacts ==
  ASSUME RequestInv, Folding, doing \in Halves_, Apart(s, Separator)
  PROVE  KeptBetween(Found(s, Separator), Len(Separator), ToSet(kept))
  <1> DEFINE F == Found(s, Separator)
             n == Len(Separator)
             K == ToSet(kept)
  <1>1. n \in 3..4 /\ pos \in Nat /\ Len(s) \in Nat /\ pos <= Len(s)
    <2>1. pos \in Nat /\ Len(s) \in Nat /\ pos \in 0..Len(s)
      BY KeptOf
    <2>2. Len(Separator) \in 3..4
      BY SeparatorIs, SeparatorNow
    <2> QED
      BY <2>1, <2>2
  <1>2. ASSUME NEW j \in F PROVE j \in Nat /\ 1 <= j /\ j + n - 1 <= Len(s)
    <2>1. j \in 1..Len(s) - n + 1 /\ j \in Nat
      BY KeptOf, SeparatorNow, FoundIs
    <2> QED
      BY <1>1, <2>1
  <1>3. \A j, k \in F : j < k => j + n < k
    BY DEF Apart
  <1>4. ASSUME NEW x \in K PROVE x \in Nat /\ 1 <= x /\ x <= pos /\ (pos > 0 => x < pos)
    <2>1. PICK k \in 1..Len(kept) : kept[k] = x
      BY KeptOf, ToSetOf
    <2>2. kept[k] \in 1..Len(s) /\ kept[k] <= pos
      BY KeptOf
    <2>3. pos > 0 => kept[k] < pos
      BY DEF RequestInv, Splitting
    <2> QED
      BY <1>1, <2>1, <2>2, <2>3
  <1>5. pos = 0 => K = {}
    BY <1>4
  <1>6. rc = <<>> <=> K = {}
    BY KeptOf, EmptySelection
  <1>7. /\ pos > 0 => \E j \in F : pos = j + n - 1
        /\ \A j \in F : pos < j \/ j + n - 1 <= pos
        /\ rc = <<>> <=> pos = 0 \/ (pos = n /\ 1 \in F)
        /\ \A x \in 1..pos - 1 : x \in K <=> \A j \in F : x \notin Gone(j, n)
    BY DEF Folding
  <1> HIDE DEF F, n, K
  <1>8. KeptBetween(F, n, K)
    BY <1>1, <1>2, <1>3, <1>4, <1>5, <1>6, <1>7 DEF KeptBetween
  <1> QED
    BY <1>8 DEF F, n, K

LEMMA FoldingNext ==
  ASSUME RequestInv, RequestInv', Folding, doing \in Halves_, NextPart(Separator)
  PROVE  Folding'
  <1> DEFINE F == Found(s, Separator)
             n == Len(Separator)
             K == ToSet(kept)
             M == ToSet(kept')
  <1>1. /\ s' = s /\ doing' = doing /\ Separator' = Separator
    BY DEF NextPart, Separator
  <1> SUFFICES ASSUME Apart(s, Separator)
               PROVE  /\ pos' > 0 => \E j \in F : pos' = j + n - 1
                      /\ \A j \in F : pos' < j \/ j + n - 1 <= pos'
                      /\ rc' = <<>> <=> pos' = 0 \/ (pos' = n /\ 1 \in F)
                      /\ \A x \in 1..pos' - 1 : x \in M <=> \A j \in F : x \notin Gone(j, n)
    BY <1>1 DEF Folding, Found, Apart
  <1>2. /\ n \in 3..4 /\ pos \in Nat /\ Len(s) \in Nat /\ pos <= Len(s)
        /\ \A j \in F : j \in Nat /\ 1 <= j /\ j + n - 1 <= Len(s)
        /\ \A j, k \in F : j < k => j + n < k
        /\ \A x \in K : x \in Nat /\ 1 <= x /\ (pos > 0 => x < pos)
        /\ pos = 0 => K = {}
        /\ rc = <<>> <=> K = {}
        /\ pos > 0 => \E j \in F : pos = j + n - 1
        /\ \A j \in F : pos < j \/ j + n - 1 <= pos
        /\ rc = <<>> <=> pos = 0 \/ (pos = n /\ 1 \in F)
        /\ \A x \in 1..pos - 1 : x \in K <=> \A j \in F : x \notin Gone(j, n)
    <2>1. KeptBetween(F, n, K)
      BY FoldingFacts
    <2> HIDE DEF F, n, K
    <2> QED
      BY ONLY <2>1 DEF KeptBetween
  <1>3. PICK j \in Occurrences(Separator) :
          /\ \A k \in Occurrences(Separator) : j <= k
          /\ rc' = Joined(j - 1) /\ kept' = JoinedFrom(j - 1)
          /\ pos' = j + n - 1
    BY DEF NextPart
  <1>4. \A k : k \in Occurrences(Separator) <=> k \in F /\ pos < k
    BY SeparatorNow, OccurrencesAre
  <1>5. j \in F /\ pos < j /\ \A k \in F : pos < k => j <= k
    BY <1>3, <1>4
  <1>6. j - 1 \in pos..Len(s)
    BY <1>2, <1>5
  <1>7. M = (K \cup (IF rc # <<>> THEN {pos} ELSE {})) \cup (pos + 1..j - 1)
    BY <1>3, <1>6, JoinedSelects
  <1>8. rc' = <<>> <=> M = {}
    <2>1. rc' \in Seq(Nat) /\ kept' \in Seq(Nat) /\ Selects(rc', s, kept')
      BY <1>3, <1>6, JoinedSelects
    <2> QED
      BY <2>1, EmptySelection
  <1>9. pos' = j + n - 1
    BY <1>3
  <1> HIDE DEF F, n, K, M
  <1>10. \A k \in F : pos' < k \/ k + n - 1 <= pos'
    <2> SUFFICES ASSUME NEW k \in F PROVE pos' < k \/ k + n - 1 <= pos'
      OBVIOUS
    <2>1. k <= pos \/ k = j \/ j < k
      BY ONLY <1>2, <1>5, k \in F
    <2>2. j < k => j + n < k
      BY <1>2, <1>5
    <2>3. k <= pos => k + n - 1 <= pos
      BY <1>2
    <2>4. n \in 3..4 /\ pos \in Nat /\ k \in Nat /\ j \in Nat /\ pos < j
      BY <1>2, <1>5
    <2> QED
      BY ONLY <1>9, <2>1, <2>2, <2>3, <2>4
  <1>11. rc' = <<>> <=> pos' = 0 \/ (pos' = n /\ 1 \in F)
    <2>1. CASE j = 1
      <3>1. pos = 0 /\ K = {} /\ rc = <<>> /\ pos' = n
        BY <1>2, <1>5, <1>9, <2>1
      <3>2. M = {}
        BY <1>7, <2>1, <3>1
      <3> QED
        BY <1>5, <1>8, <2>1, <3>1, <3>2
    <2>2. CASE j # 1
      <3>1. pos' # 0 /\ pos' # n
        BY <1>2, <1>5, <1>9, <2>2
      <3>2. M # {}
        <4>1. CASE rc # <<>>
          BY <1>7, <4>1
        <4>2. CASE rc = <<>>
          <5>1. pos + 1 <= j - 1
            <6>1. pos = 0 \/ (pos = n /\ 1 \in F)
              BY <1>2, <4>2
            <6>2. pos = n /\ 1 \in F => 1 + n < j
              BY <1>2, <1>5, <2>2
            <6> QED
              BY <1>2, <1>5, <2>2, <6>1, <6>2
          <5>2. pos + 1 \in pos + 1..j - 1
            BY <1>2, <1>5, <5>1
          <5> QED
            BY <1>7, <5>2
        <4> QED
          BY <4>1, <4>2
      <3> QED
        BY <1>8, <3>1, <3>2
    <2> QED
      BY <2>1, <2>2
  <1>12. ASSUME NEW x \in 1..pos' - 1
         PROVE  x \in M <=> \A k \in F : x \notin Gone(k, n)
    <2>1. CASE x \in 1..pos - 1
      <3>1. x \in M <=> x \in K
        BY <1>2, <1>5, <1>7, <2>1
      <3> QED
        BY <1>2, <2>1, <3>1
    <2>2. CASE x = pos
      <3>1. CASE rc = <<>>
        <4>1. pos = n /\ 1 \in F
          BY <1>2, <2>2, <3>1
        <4>2. x \in Gone(1, n)
          BY <1>2, <2>2, <4>1 DEF Gone
        <4>3. x \notin M
          BY <1>2, <1>5, <1>7, <2>2, <3>1
        <4> QED
          BY <4>1, <4>2, <4>3
      <3>2. CASE rc # <<>>
        <4>1. x \in M
          BY <1>7, <2>2, <3>2
        <4>2. ASSUME NEW k \in F PROVE x \notin Gone(k, n)
          <5>1. CASE k = 1
            <6>1. pos < 1 \/ 1 + n - 1 <= pos
              BY <1>2, <5>1
            <6>2. pos # n
              BY <1>2, <3>2, <5>1
            <6>3. n < pos
              BY <1>2, <2>2, <6>1, <6>2
            <6> QED
              BY <1>2, <2>2, <5>1, <6>3 DEF Gone
          <5>2. CASE k # 1
            <6>1. pos < k \/ k + n - 1 <= pos
              BY <1>2
            <6> QED
              BY <1>2, <2>2, <5>2, <6>1 DEF Gone
          <5> QED
            BY <5>1, <5>2
        <4> QED
          BY <4>1, <4>2
      <3> QED
        BY <3>1, <3>2
    <2>3. CASE x \in pos + 1..j - 1
      <3>1. x \in M
        BY <1>7, <2>3
      <3>2. ASSUME NEW k \in F PROVE x \notin Gone(k, n)
        <4>1. j <= k \/ k + n - 1 <= pos
          BY <1>2, <1>5
        <4>2. k \in Nat /\ 1 <= k /\ pos < x /\ x < j /\ x \in Nat /\ j \in Nat
          BY <1>2, <1>5, <2>3
        <4>3. k = 1 => 1 + n - 1 <= pos \/ j <= 1
          BY <4>1
        <4> QED
          BY <1>2, <4>1, <4>2, <4>3 DEF Gone
      <3> QED
        BY <3>1, <3>2
    <2>4. CASE x \in j..j + n - 2
      <3>1. x \in Gone(j, n)
        BY <1>2, <1>5, <2>4 DEF Gone
      <3>2. \A y \in M : y < j
        BY <1>2, <1>5, <1>7
      <3> QED
        BY <1>2, <1>5, <2>4, <3>1, <3>2
    <2> QED
      BY <1>2, <1>5, <1>9, <2>1, <2>2, <2>3, <2>4
  <1> QED
    BY <1>5, <1>9, <1>10, <1>11, <1>12

\* What is left when the fold is complete.
LEMMA FoldingEnd ==
  ASSUME RequestInv, Folding, doing \in Halves_, Apart(s, Separator),
         Occurrences(Separator) = {}
  PROVE  \A x \in 1..Len(s) :
           x \in ToSet(JoinedFrom(Len(s)))
             <=> \A j \in Found(s, Separator) : x \notin Gone(j, Len(Separator))
  <1> DEFINE F == Found(s, Separator)
             n == Len(Separator)
             K == ToSet(kept)
             M == ToSet(JoinedFrom(Len(s)))
  <1>1. /\ n \in 3..4 /\ pos \in Nat /\ Len(s) \in Nat /\ pos <= Len(s)
        /\ \A j \in F : j \in Nat /\ 1 <= j /\ j + n - 1 <= Len(s)
        /\ \A j, k \in F : j < k => j + n < k
        /\ \A x \in K : x \in Nat /\ 1 <= x /\ (pos > 0 => x < pos)
        /\ pos = 0 => K = {}
        /\ rc = <<>> <=> K = {}
        /\ pos > 0 => \E j \in F : pos = j + n - 1
        /\ \A j \in F : pos < j \/ j + n - 1 <= pos
        /\ rc = <<>> <=> pos = 0 \/ (pos = n /\ 1 \in F)
        /\ \A x \in 1..pos - 1 : x \in K <=> \A j \in F : x \notin Gone(j, n)
    <2>1. KeptBetween(F, n, K)
      BY FoldingFacts
    <2> HIDE DEF F, n, K
    <2> QED
      BY ONLY <2>1 DEF KeptBetween
  <1>2. \A k : k \in F => k <= pos
    <2>1. \A k : ~(k \in F /\ pos < k)
      BY SeparatorNow, OccurrencesAre
    <2> QED
      BY <1>1, <2>1
  <1>3. Len(s) \in pos..Len(s)
    BY <1>1
  <1>4. M = (K \cup (IF rc # <<>> THEN {pos} ELSE {})) \cup (pos + 1..Len(s))
    BY <1>3, JoinedSelects
  <1>5. \A k \in F : k \in Nat /\ 1 <= k /\ k + n - 1 <= pos
    BY <1>1, <1>2
  <1> HIDE DEF F, n, K, M
  <1>6. ASSUME NEW x \in 1..Len(s)
        PROVE  x \in M <=> \A k \in F : x \notin Gone(k, n)
    <2>1. CASE x \in 1..pos - 1
      <3>1. x \in M <=> x \in K
        BY <1>1, <1>4, <2>1
      <3> QED
        BY <1>1, <2>1, <3>1
    <2>2. CASE x = pos /\ rc = <<>>
      <3>1. pos = n /\ 1 \in F
        BY <1>1, <2>2
      <3>2. x \in Gone(1, n)
        BY <1>1, <2>2, <3>1 DEF Gone
      <3>3. x \notin M
        BY <1>1, <1>4, <2>2
      <3> QED
        BY <3>1, <3>2, <3>3
    <2>3. CASE x = pos /\ rc # <<>>
      <3>1. x \in M
        BY <1>4, <2>3
      <3>2. ASSUME NEW k \in F PROVE x \notin Gone(k, n)
        <4>1. k \in Nat /\ 1 <= k /\ k + n - 1 <= pos
          BY <1>5
        <4>2. k = 1 => pos # n
          BY <1>1, <2>3
        <4> QED
          BY <1>1, <2>3, <4>1, <4>2 DEF Gone
      <3> QED
        BY <3>1, <3>2
    <2>4. CASE x \in pos + 1..Len(s)
      <3>1. x \in M
        BY <1>4, <2>4
      <3>2. ASSUME NEW k \in F PROVE x \notin Gone(k, n)
        <4>1. k \in Nat /\ 1 <= k /\ k + n - 1 <= pos /\ pos < x
          BY <1>1, <1>5, <2>4
        <4> QED
          BY <1>1, <4>1 DEF Gone
      <3> QED
        BY <3>1, <3>2
    <2> QED
      BY <1>1, <2>1, <2>2, <2>3, <2>4
  <1> QED
    BY <1>6 DEF M, F, n

LEMMA SegmentIs ==
  ASSUME path_ \in Seq(Nat), NEW d \in DotSegments
  PROVE  /\ d[1] \in Nat /\ d[2] \in Nat /\ Len(path_) \in Nat
         /\ 2 <= d[1] /\ d[1] <= d[2] /\ d[2] <= d[1] + 1 /\ d[2] <= Len(path_)
         /\ d = <<d[1], d[2]>>
         /\ path_[d[1] - 1] = Slash /\ path_[d[1]] = Dot /\ path_[d[2]] = Dot
         /\ d[2] < Len(path_) => path_[d[2] + 1] = Slash
  <1> DEFINE n == Len(path_)
  <1>1. n \in Nat /\ DOMAIN path_ = 1..n
    BY LenProperties
  <1>2. /\ d \in (1..n) \X (1..n) /\ d[1] > 1 /\ path_[d[1] - 1] = Slash
        /\ d[2] \in {d[1], d[1] + 1} /\ path_[d[1]] = Dot /\ path_[d[2]] = Dot
        /\ d[2] < n => path_[d[2] + 1] = Slash
    BY <1>1 DEF DotSegments
  <1> HIDE DEF n
  <1>3. d[1] \in 1..n /\ d[2] \in 1..n /\ d = <<d[1], d[2]>>
    BY <1>2
  <1>4. d[1] \in Nat /\ d[2] \in Nat /\ 2 <= d[1] /\ d[1] <= d[2] /\ d[2] <= d[1] + 1 /\ d[2] <= n
    BY <1>1, <1>2, <1>3
  <1> QED
    BY <1>1, <1>2, <1>3, <1>4 DEF n

LEMMA SegmentWhere ==
  ASSUME path_ \in Seq(Nat), NEW a \in 2..Len(path_), NEW b \in 2..Len(path_), b \in {a, a + 1},
         path_[a - 1] = Slash, path_[a] = Dot, path_[b] = Dot,
         b < Len(path_) => path_[b + 1] = Slash
  PROVE  /\ <<a, b>> \in DotSegments /\ <<a, b>>[1] = a /\ <<a, b>>[2] = b
  <1>1. Len(path_) \in Nat /\ DOMAIN path_ = 1..Len(path_)
    BY LenProperties
  <1>2. a \in DOMAIN path_ /\ b \in DOMAIN path_ /\ a > 1
    BY <1>1
  <1> QED
    BY <1>2 DEF DotSegments

\* What goes with a dot segment lies around it.
LEMMA GoesWithIs ==
  ASSUME path_ \in Seq(Nat), NEW d \in DotSegments, NEW x
  PROVE  x \in GoesWith(d) <=>
           /\ x \in Nat /\ d[1] - 1 <= x /\ x <= d[2] + 1 /\ x <= Len(path_)
           /\ d[2] = Len(path_) => d[1] <= x
           /\ x = d[2] + 1 => d[1] = 2
  <1>1. /\ d[1] \in Nat /\ d[2] \in Nat /\ Len(path_) \in Nat
        /\ 2 <= d[1] /\ d[1] <= d[2] /\ d[2] <= Len(path_)
    BY SegmentIs
  <1>2. CASE d[2] = Len(path_)
    <2>1. GoesWith(d) = d[1]..d[2]
      BY <1>2 DEF GoesWith
    <2> QED
      BY <1>1, <1>2, <2>1
  <1>3. CASE d[2] # Len(path_) /\ d[1] = 2
    <2>1. GoesWith(d) = 1..d[2] + 1
      BY <1>3 DEF GoesWith
    <2> QED
      BY <1>1, <1>3, <2>1
  <1>4. CASE d[2] # Len(path_) /\ d[1] # 2
    <2>1. x \in GoesWith(d) <=> x \in d[1] - 1..d[2]
      BY <1>4 DEF GoesWith
    <2>2. d[2] < Len(path_) /\ 2 < d[1]
      BY <1>1, <1>4
    <2>3. x \in d[1] - 1..d[2] <=> x \in Nat /\ d[1] - 1 <= x /\ x <= d[2]
      BY <1>1
    <2>4. x \in Nat => (x <= d[2] <=> x <= d[2] + 1 /\ x # d[2] + 1)
      BY <1>1
    <2>5. x \in Nat /\ x <= d[2] => x <= Len(path_)
      BY <1>1
    <2> QED
      BY <1>4, <2>1, <2>2, <2>3, <2>4, <2>5
  <1> QED
    BY <1>2, <1>3, <1>4

\* Between two dot segments there is a segment of another kind.
LEMMA FarApart ==
  ASSUME path_ \in Seq(Nat), Scattered, NEW d \in DotSegments, NEW e \in DotSegments,
         d[1] < e[1]
  PROVE  d[2] + 4 <= e[1]
  <1> DEFINE a == d[1]
             b == d[2]
             c == e[1]
  <1>1. /\ a \in Nat /\ b \in Nat /\ Len(path_) \in Nat
        /\ 2 <= a /\ a <= b /\ b <= a + 1 /\ b <= Len(path_)
        /\ path_[a] = Dot /\ path_[b] = Dot
        /\ b < Len(path_) => path_[b + 1] = Slash
    BY SegmentIs
  <1>2. c \in Nat /\ c <= Len(path_) /\ path_[c - 1] = Slash /\ path_[c] = Dot
    <2>1. c \in Nat /\ e[2] \in Nat /\ c <= e[2] /\ e[2] <= Len(path_)
      BY SegmentIs
    <2> QED
      BY <1>1, <2>1, SegmentIs
  <1>3. c # b + 2
    BY DEF Scattered
  <1>4. \A k \in 1..Len(path_) - 1 : ~(path_[k] = Slash /\ path_[k + 1] = Slash)
    BY DEF Scattered
  <1>5. a < c
    OBVIOUS
  <1> HIDE DEF a, b, c
  <1>6. Slash # Dot
    BY DEF Slash, Dot
  <1>7. c - 1 # a /\ c - 1 # b
    BY <1>1, <1>2, <1>6
  <1>8. c - 1 > b
    BY <1>1, <1>2, <1>5, <1>7
  <1>9. ASSUME c - 1 = b + 2 PROVE FALSE
    <2>1. b + 1 \in 1..Len(path_) - 1 /\ b < Len(path_) /\ b + 1 + 1 = c - 1
      BY <1>1, <1>2, <1>9
    <2>2. path_[b + 1] = Slash /\ path_[b + 1 + 1] = Slash
      BY <1>1, <1>2, <2>1
    <2> QED
      BY <1>4, <2>1, <2>2
  <1>10. b + 4 <= c
    BY <1>1, <1>2, <1>3, <1>8, <1>9
  <1> QED
    BY <1>10 DEF b, c

LEMMA SameStart ==
  ASSUME path_ \in Seq(Nat), NEW d \in DotSegments, NEW e \in DotSegments, d[1] = e[1]
  PROVE  d = e
  <1>1. Slash # Dot
    BY DEF Slash, Dot
  <1>2. ASSUME NEW f \in DotSegments, NEW g \in DotSegments, f[1] = g[1]
        PROVE  ~(f[2] < g[2])
    <2>1. /\ f[1] \in Nat /\ f[2] \in Nat /\ Len(path_) \in Nat
          /\ f[1] <= f[2] /\ f[2] < Len(path_) => path_[f[2] + 1] = Slash
      BY SegmentIs
    <2>2. g[2] \in Nat /\ g[2] <= g[1] + 1 /\ g[2] <= Len(path_) /\ path_[g[2]] = Dot
      BY SegmentIs
    <2>3. f[1] <= f[2]
      BY SegmentIs
    <2> SUFFICES ASSUME f[2] < g[2] PROVE FALSE
      OBVIOUS
    <2>4. g[2] = f[2] + 1 /\ f[2] < Len(path_)
      BY ONLY <1>2, f[2] < g[2], <2>1, <2>2, <2>3
    <2> QED
      BY <1>1, <2>1, <2>2, <2>3, <2>4
  <1>3. d[2] \in Nat /\ e[2] \in Nat /\ d = <<d[1], d[2]>> /\ e = <<e[1], e[2]>>
    BY SegmentIs
  <1>4. d[2] = e[2]
    BY <1>2, <1>3
  <1> QED
    BY <1>3, <1>4

LEMMA Around ==
  ASSUME path_ \in Seq(Nat), Scattered, NEW d \in DotSegments, NEW e \in DotSegments,
         NEW x \in Nat, d[1] - 1 <= x, x <= d[2] + 1, x \in GoesWith(e)
  PROVE  e = d
  <1>1. /\ d[1] \in Nat /\ d[2] \in Nat /\ e[1] \in Nat /\ e[2] \in Nat
    BY SegmentIs
  <1>2. e[1] - 1 <= x /\ x <= e[2] + 1
    BY GoesWithIs
  <1>3. ~(d[1] < e[1])
    <2>1. d[1] < e[1] => d[2] + 4 <= e[1]
      BY FarApart
    <2> QED
      BY <1>1, <1>2, <2>1
  <1>4. ~(e[1] < d[1])
    <2>1. e[1] < d[1] => e[2] + 4 <= d[1]
      BY FarApart
    <2> QED
      BY <1>1, <1>2, <2>1
  <1>5. d[1] = e[1]
    BY <1>1, <1>3, <1>4
  <1> QED
    BY <1>5, SameStart

\* What is left of a uri without some of its dot segments ends, or goes on behind one.
LEMMA NextLeft ==
  ASSUME path_ \in Seq(Nat), Scattered, NEW D \in SUBSET DotSegments,
         NEW a \in Without(D), a + 1 <= Len(path_), a + 1 \notin Without(D)
  PROVE  \E d \in D :
           \/ d[1] = a + 1 /\ d[2] = Len(path_)
           \/ /\ d[1] = a + 2 /\ d[2] < Len(path_) /\ d[2] + 1 \in Without(D)
  <1>1. Len(path_) \in Nat /\ DOMAIN path_ = 1..Len(path_)
    BY LenProperties
  <1>2. a \in 1..Len(path_) /\ \A d \in D : a \notin GoesWith(d)
    BY <1>1 DEF Without
  <1>3. a \in Nat /\ 1 <= a /\ a + 1 \in Nat /\ a + 1 \in 1..Len(path_)
    BY <1>1, <1>2
  <1>4. PICK d \in D : a + 1 \in GoesWith(d)
    BY <1>1, <1>3 DEF Without
  <1>5. /\ d \in DotSegments /\ a \notin GoesWith(d)
        /\ d[1] \in Nat /\ d[2] \in Nat /\ 2 <= d[1] /\ d[1] <= d[2] /\ d[2] <= Len(path_)
    <2>1. d \in DotSegments
      OBVIOUS
    <2> QED
      BY <1>2, <2>1, SegmentIs
  <1>6. /\ d[1] - 1 <= a + 1 /\ a + 1 <= d[2] + 1
        /\ d[2] = Len(path_) => d[1] <= a + 1
        /\ a + 1 = d[2] + 1 => d[1] = 2
    BY <1>4, <1>5, GoesWithIs
  <1>7. ~(/\ d[1] - 1 <= a /\ a <= d[2] + 1
          /\ d[2] = Len(path_) => d[1] <= a
          /\ a = d[2] + 1 => d[1] = 2)
    <2>1. a <= Len(path_)
      BY <1>1, <1>2
    <2>2. a \in Nat /\ d \in DotSegments /\ a \notin GoesWith(d) /\ path_ \in Seq(Nat)
      BY <1>3, <1>5
    <2> QED
      BY ONLY <1>3, <2>1, <2>2, GoesWithIs
  <1>8. CASE d[2] = Len(path_)
    <2>1. d[1] = a + 1
      <3>1. d[1] <= a + 1 /\ d[2] \in Nat /\ a <= d[2] /\ a # d[2] + 1
        BY ONLY <1>1, <1>3, <1>5, <1>6, <1>8
      <3>2. ~(d[1] <= a)
        BY ONLY <1>3, <1>5, <1>7, <3>1
      <3> QED
        BY ONLY <1>3, <1>5, <3>1, <3>2
    <2> QED
      BY <1>8, <2>1
  <1>9. CASE d[2] # Len(path_)
    <2>0. d[1] \in Nat /\ d[2] \in Nat /\ Len(path_) \in Nat /\ d[2] < Len(path_)
      BY <1>1, <1>5, <1>9
    <2>1. d[1] = a + 2 /\ d[2] < Len(path_) /\ d[1] # 2
      <3>1. a <= d[2]
        BY ONLY <1>3, <1>6, <2>0
      <3>2. ~(d[1] - 1 <= a)
        BY ONLY <1>3, <1>7, <2>0, <3>1
      <3>3. d[1] = a + 2
        BY ONLY <1>3, <1>6, <2>0, <3>2
      <3> QED
        BY ONLY <1>3, <2>0, <3>3
    <2>2. d[2] + 1 \in DOMAIN path_ /\ d[2] + 1 \in Nat /\ d[1] - 1 <= d[2] + 1 /\ d[2] + 1 <= d[2] + 1
      BY <1>1, <1>5, <2>1
    <2>3. ASSUME NEW e \in D, d[2] + 1 \in GoesWith(e) PROVE FALSE
      <3>1. e \in DotSegments
        OBVIOUS
      <3>2. e = d
        BY <1>5, <2>2, <2>3, <3>1, Around
      <3> DEFINE y == d[2] + 1
      <3> HIDE DEF y
      <3>3. y \in GoesWith(d)
        BY <2>3, <3>2 DEF y
      <3>4. y = d[2] + 1 => d[1] = 2
        BY <1>5, <3>3, GoesWithIs
      <3>5. d[1] = 2
        BY <3>4 DEF y
      <3> QED
        BY <2>1, <3>5
    <2>4. d[2] + 1 \in Without(D)
      BY <2>2, <2>3 DEF Without
    <2> QED
      BY <2>1, <2>4
  <1> QED
    BY <1>8, <1>9

\* The next position selected is at most any later one.
LEMMA NextSelected ==
  ASSUME NEW whole, NEW p \in Seq(Nat), NEW v \in Seq(Nat), Selects(p, whole, v),
         NEW k \in 1..Len(v), NEW y \in ToSet(v), v[k] < y
  PROVE  k + 1 \in 1..Len(v) /\ v[k] < v[k + 1] /\ v[k + 1] <= y
  <1>1. DOMAIN v = DOMAIN p /\ DOMAIN v = 1..Len(v) /\ Len(v) \in Nat
    BY LenProperties DEF Selects
  <1>2. PICK i \in 1..Len(v) : v[i] = y
    BY ToSetOf
  <1>3. \A j \in 1..Len(v) : v[j] \in Nat
    BY ElementOfSeq
  <1>4. \A j, m \in 1..Len(v) : j < m => v[j] < v[m]
    BY <1>1 DEF Selects
  <1>5. k < i
    <2>1. i < k => v[i] < v[k]
      BY <1>4
    <2>2. v[i] \in Nat /\ v[k] \in Nat
      BY <1>3
    <2> QED
      BY <1>1, <1>2, <2>1, <2>2
  <1>6. k + 1 \in 1..Len(v) /\ k < k + 1 /\ (k + 1 = i \/ k + 1 < i)
    BY <1>1, <1>5
  <1>7. v[k] < v[k + 1]
    BY <1>4, <1>6
  <1>8. v[k + 1] <= y
    BY <1>2, <1>3, <1>4, <1>6
  <1> QED
    BY <1>6, <1>7, <1>8

\* From one character of what is left to the next.
LEMMA Gap ==
  ASSUME path_ \in Seq(Nat), Scattered, NEW D \in SUBSET DotSegments,
         NEW p \in Seq(Nat), NEW v \in Seq(Nat), Selects(p, path_, v), ToSet(v) = Without(D),
         NEW k \in 1..Len(v), k + 1 \in 1..Len(v)
  PROVE  \/ v[k + 1] = v[k] + 1
         \/ \E d \in D : d[1] = v[k] + 2 /\ d[2] < Len(path_) /\ v[k + 1] = d[2] + 1
  <1>1. Len(path_) \in Nat /\ DOMAIN path_ = 1..Len(path_)
    BY LenProperties
  <1>2. v[k] \in Without(D) /\ v[k + 1] \in Without(D)
    BY ToSetOf
  <1>3. v[k] \in 1..Len(path_) /\ v[k + 1] \in 1..Len(path_)
    BY <1>1, <1>2 DEF Without
  <1>4. v[k] < v[k + 1]
    <2>1. DOMAIN p = 1..Len(v)
      BY LenProperties DEF Selects
    <2>2. Len(v) \in Nat /\ k < k + 1
      BY LenProperties
    <2> QED
      BY <2>1, <2>2 DEF Selects
  <1> DEFINE a == v[k]
             b == v[k + 1]
  <1>5. a \in Without(D) /\ b \in Without(D) /\ a \in Nat /\ b \in Nat /\ a < b /\ b <= Len(path_)
    BY <1>1, <1>2, <1>3, <1>4
  <1>6. \A y \in Without(D) : a < y => b <= y
    BY NextSelected
  <1> HIDE DEF a, b
  <1>7. CASE a + 1 \in Without(D)
    <2>1. b = a + 1
      BY <1>5, <1>6, <1>7
    <2> QED
      BY <2>1 DEF a, b
  <1>8. CASE a + 1 \notin Without(D)
    <2>1. a + 1 <= Len(path_)
      BY <1>1, <1>5
    <2>2. PICK d \in D : \/ d[1] = a + 1 /\ d[2] = Len(path_)
                         \/ d[1] = a + 2 /\ d[2] < Len(path_) /\ d[2] + 1 \in Without(D)
      BY <1>5, <1>8, <2>1, NextLeft
    <2>3. d \in DotSegments /\ d[1] \in Nat /\ d[2] \in Nat /\ d[1] <= d[2]
      <3>1. d \in DotSegments
        OBVIOUS
      <3> QED
        BY <3>1, SegmentIs
    <2>4. b \notin GoesWith(d)
      BY <1>5 DEF Without
    <2>5. ~(/\ d[1] - 1 <= b /\ b <= d[2] + 1 /\ b <= Len(path_)
            /\ d[2] = Len(path_) => d[1] <= b
            /\ b = d[2] + 1 => d[1] = 2)
      BY <1>5, <2>3, <2>4, GoesWithIs
    <2>6. CASE d[1] = a + 1 /\ d[2] = Len(path_)
      BY ONLY <1>1, <1>5, <2>3, <2>5, <2>6
    <2>7. CASE d[1] = a + 2 /\ d[2] < Len(path_) /\ d[2] + 1 \in Without(D)
      <3>1. b <= d[2] + 1
        BY ONLY <1>5, <1>6, <2>3, <2>7
      <3>2. b = d[2] + 1
        BY ONLY <1>1, <1>5, <2>3, <2>5, <2>7, <3>1
      <3> QED
        BY <2>7, <3>2 DEF a, b
    <2> QED
      BY <2>2, <2>6, <2>7
  <1> QED
    BY <1>7, <1>8

\* p is what is left of the uri without the dot segments D.
Left(D, p, v) ==
  /\ path_ \in Seq(Nat) /\ p \in Seq(Nat) /\ v \in Seq(Nat)
  /\ Selects(p, path_, v) /\ Scattered
  /\ D \in SUBSET DotSegments /\ ToSet(v) = Without(D)

LEMMA LeftFacts ==
  ASSUME NEW D, NEW p, NEW v, Left(D, p, v)
  PROVE  /\ Len(path_) \in Nat /\ Len(p) \in Nat /\ Len(v) = Len(p)
         /\ \A k \in 1..Len(p) : /\ v[k] \in Nat /\ 1 <= v[k] /\ v[k] <= Len(path_)
                                 /\ p[k] = path_[v[k]] /\ v[k] \in Without(D)
         /\ \A j, k \in 1..Len(p) : j < k => v[j] < v[k]
         /\ \A y \in Without(D) : \E k \in 1..Len(p) : v[k] = y
  <1>1. /\ path_ \in Seq(Nat) /\ p \in Seq(Nat) /\ v \in Seq(Nat)
        /\ Selects(p, path_, v) /\ ToSet(v) = Without(D)
    BY DEF Left
  <1>2. /\ Len(path_) \in Nat /\ Len(p) \in Nat /\ Len(v) \in Nat
        /\ DOMAIN path_ = 1..Len(path_) /\ DOMAIN p = 1..Len(p) /\ DOMAIN v = 1..Len(v)
    BY <1>1, LenProperties
  <1>3. Len(v) = Len(p)
    BY <1>1, <1>2, SameLength DEF Selects
  <1>4. ASSUME NEW k \in 1..Len(p)
        PROVE  /\ v[k] \in Nat /\ 1 <= v[k] /\ v[k] <= Len(path_)
               /\ p[k] = path_[v[k]] /\ v[k] \in Without(D)
    <2>1. v[k] \in 1..Len(path_) /\ p[k] = path_[v[k]]
      BY <1>1, <1>2 DEF Selects
    <2>2. v[k] \in Without(D)
      BY <1>1, <1>3, ToSetOf
    <2> QED
      BY <1>2, <2>1, <2>2
  <1>5. \A j, k \in 1..Len(p) : j < k => v[j] < v[k]
    BY <1>1, <1>2 DEF Selects
  <1>6. ASSUME NEW y \in Without(D) PROVE \E k \in 1..Len(p) : v[k] = y
    BY <1>1, <1>3, ToSetOf
  <1> QED
    BY <1>2, <1>3, <1>4, <1>5, <1>6

LEMMA LeftGap ==
  ASSUME NEW D, NEW p, NEW v, Left(D, p, v), NEW k \in 1..Len(p), k + 1 \in 1..Len(p)
  PROVE  \/ v[k + 1] = v[k] + 1
         \/ \E d \in D : d[1] = v[k] + 2 /\ d[2] < Len(path_) /\ v[k + 1] = d[2] + 1
  <1>1. /\ path_ \in Seq(Nat) /\ p \in Seq(Nat) /\ v \in Seq(Nat)
        /\ Selects(p, path_, v) /\ ToSet(v) = Without(D) /\ Scattered
        /\ D \in SUBSET DotSegments
    BY DEF Left
  <1>2. k \in 1..Len(v) /\ k + 1 \in 1..Len(v)
    BY LeftFacts
  <1> QED
    BY <1>1, <1>2, Gap

\* A dot that is left is still behind what it was behind in the uri.
LEMMA LeftDot ==
  ASSUME NEW D, NEW p, NEW v, Left(D, p, v),
         NEW k \in 1..Len(p), k + 1 \in 1..Len(p), p[k + 1] = Dot
  PROVE  v[k + 1] = v[k] + 1
  <1> SUFFICES ASSUME NEW d \in D, d[2] < Len(path_), v[k + 1] = d[2] + 1
               PROVE  FALSE
    BY LeftGap
  <1>1. d \in DotSegments /\ path_ \in Seq(Nat)
    BY DEF Left
  <1>2. path_[d[2] + 1] = Slash
    BY <1>1, SegmentIs
  <1>3. p[k + 1] = path_[v[k + 1]]
    BY LeftFacts
  <1> QED
    BY <1>2, <1>3 DEF Slash, Dot

LEMMA LeftNext ==
  ASSUME NEW D, NEW p, NEW v, Left(D, p, v), NEW k \in 1..Len(p), v[k] + 1 \in Without(D)
  PROVE  k + 1 \in 1..Len(p) /\ v[k + 1] = v[k] + 1
  <1>1. /\ p \in Seq(Nat) /\ v \in Seq(Nat) /\ Selects(p, path_, v)
        /\ ToSet(v) = Without(D)
    BY DEF Left
  <1>2. Len(v) = Len(p) /\ v[k] \in Nat
    BY LeftFacts
  <1> DEFINE y == v[k] + 1
  <1>3. k \in 1..Len(v) /\ y \in ToSet(v) /\ v[k] < y
    BY <1>1, <1>2
  <1> HIDE DEF y
  <1>4. k + 1 \in 1..Len(v) /\ v[k] < v[k + 1] /\ v[k + 1] <= y
    BY <1>1, <1>3, NextSelected
  <1>5. v[k + 1] \in Nat
    BY <1>2, <1>4, LeftFacts
  <1>6. v[k + 1] = y
    BY <1>2, <1>4, <1>5 DEF y
  <1> QED
    BY <1>2, <1>4, <1>6 DEF y

\* A separator found in what is left is a dot segment of the uri.
LEMMA FoundSegment ==
  ASSUME NEW D, Left(D, s, from), NEW sep \in DotSeparators, NEW j \in Found(s, sep),
         NEW w, w = Len(sep) - 2
  PROVE  /\ w \in 1..2 /\ j \in Nat /\ 1 <= j /\ j + w + 1 <= Len(s)
         /\ \A i \in 0..w + 1 : from[j + i] = from[j] + i
         /\ <<from[j] + 1, from[j] + w>> \in DotSegments
         /\ <<from[j] + 1, from[j] + w>>[1] = from[j] + 1
         /\ <<from[j] + 1, from[j] + w>>[2] = from[j] + w
         /\ from[j] + w < Len(path_)
         /\ s[j + w + 1] = Slash
  <1>1. /\ Len(sep) \in 3..4 /\ sep[1] = Slash /\ sep[Len(sep)] = Slash
        /\ \A k \in 2..Len(sep) - 1 : sep[k] = Dot
    BY SeparatorIs
  <1>2. /\ j \in 1..Len(s) - Len(sep) + 1 /\ j \in Nat
        /\ \A k \in 1..Len(sep) : s[j + k - 1] = sep[k]
    BY FoundIs DEF Left
  <1>3. /\ Len(path_) \in Nat /\ Len(s) \in Nat
        /\ \A k \in 1..Len(s) : /\ from[k] \in Nat /\ 1 <= from[k] /\ from[k] <= Len(path_)
                                /\ s[k] = path_[from[k]]
    BY LeftFacts
  <1>4. w \in 1..2 /\ Len(sep) = w + 2 /\ j \in Nat /\ 1 <= j /\ j + w + 1 <= Len(s)
    <2>1. Len(sep) \in 3..4 /\ j \in 1..Len(s) - Len(sep) + 1 /\ Len(s) \in Nat
      BY <1>1, <1>2, <1>3
    <2> QED
      BY ONLY w = Len(sep) - 2, <2>1
  <1>5. s[j] = Slash /\ s[j + w + 1] = Slash
    <2>1. 1 \in 1..Len(sep) /\ Len(sep) \in 1..Len(sep)
      BY <1>1
    <2>2. s[j + 1 - 1] = Slash /\ s[j + Len(sep) - 1] = Slash
      BY <1>1, <1>2, <2>1
    <2>3. j + 1 - 1 = j /\ j + Len(sep) - 1 = j + w + 1
      BY <1>4
    <2> QED
      BY <2>2, <2>3
  <1>6. ASSUME NEW i \in 1..w PROVE s[j + i] = Dot
    <2>1. i + 1 \in 1..Len(sep) /\ i + 1 \in 2..Len(sep) - 1 /\ j + (i + 1) - 1 = j + i
      BY <1>4
    <2> QED
      BY <1>1, <1>2, <2>1
  <1>7. ASSUME NEW i \in 0..w - 1 PROVE from[j + (i + 1)] = from[j + i] + 1
    <2> DEFINE k == j + i
    <2>1. k \in 1..Len(s) /\ k + 1 \in 1..Len(s) /\ k + 1 = j + (i + 1) /\ i + 1 \in 1..w
      BY <1>3, <1>4
    <2>2. s[k + 1] = Dot
      BY <1>6, <2>1
    <2> HIDE DEF k
    <2>3. from[k + 1] = from[k] + 1
      BY <2>1, <2>2, LeftDot
    <2> QED
      BY <2>1, <2>3 DEF k
  <1>8. \A i \in 0..w : from[j + i] = from[j] + i
    <2>1. j + 0 = j /\ from[j] \in Nat
      <3>1. j + 0 = j /\ j \in 1..Len(s)
        BY ONLY <1>4, <1>3
      <3> QED
        BY ONLY <1>3, <3>1
    <2>2. from[j + 1] = from[j] + 1
      <3>1. 0 \in 0..w - 1 /\ 0 + 1 = 1
        BY <1>4
      <3> QED
        BY <1>7, <2>1, <3>1
    <2>3. w = 2 => from[j + 2] = from[j] + 2
      <3> SUFFICES ASSUME w = 2 PROVE from[j + 2] = from[j] + 2
        OBVIOUS
      <3>1. 1 \in 0..w - 1 /\ 1 + 1 = 2
        BY <1>4
      <3>2. from[j + 2] = from[j + 1] + 1
        BY <1>7, <3>1
      <3> QED
        BY <2>1, <2>2, <3>2
    <2>4. \A i \in 0..w : i = 0 \/ i = 1 \/ (i = 2 /\ w = 2)
      BY <1>4
    <2> QED
      BY <2>1, <2>2, <2>3, <2>4
  <1> DEFINE a == from[j]
             k == j + w
  <1>9. /\ k \in 1..Len(s) /\ k + 1 \in 1..Len(s) /\ k + 1 = j + w + 1
        /\ a \in Nat /\ 1 <= a /\ path_[a] = Slash /\ j \in 1..Len(s)
    <2>1. Len(s) \in Nat
      BY <1>3
    <2>2. j \in 1..Len(s) /\ k \in 1..Len(s) /\ k + 1 \in 1..Len(s) /\ k + 1 = j + w + 1
      BY ONLY <1>4, <2>1
    <2> QED
      BY <1>3, <1>5, <2>2
  <1>10. from[k] = a + w
    <2>1. w \in 0..w
      BY <1>4
    <2> QED
      BY <1>8, <2>1
  <1>11. ASSUME NEW i \in 1..w PROVE path_[a + i] = Dot /\ a + i <= Len(path_)
    <2>1. j + i \in 1..Len(s) /\ i \in 0..w
      BY <1>3, <1>4
    <2>2. from[j + i] = a + i
      BY <1>8, <2>1
    <2> QED
      BY <1>3, <1>6, <2>1, <2>2
  <1>12. \/ from[k + 1] = a + w + 1
         \/ \E d \in D : d[1] = a + w + 2 /\ d[2] < Len(path_) /\ from[k + 1] = d[2] + 1
    <2>1. \/ from[k + 1] = from[k] + 1
          \/ \E d \in D : d[1] = from[k] + 2 /\ d[2] < Len(path_) /\ from[k + 1] = d[2] + 1
      <3> HIDE DEF k
      <3> QED
        BY <1>9, LeftGap
    <2> QED
      BY <1>4, <1>9, <1>10, <2>1
  <1>13. /\ D \in SUBSET DotSegments /\ path_ \in Seq(Nat) /\ Scattered
    BY DEF Left
  <1>14. path_[a + w + 1] = Slash /\ a + w + 1 <= Len(path_)
    <2>1. CASE from[k + 1] = a + w + 1
      BY <1>3, <1>5, <1>9, <2>1
    <2>2. ASSUME NEW d \in D, d[1] = a + w + 2
          PROVE  path_[a + w + 1] = Slash /\ a + w + 1 <= Len(path_)
      <3>1. d \in DotSegments
        BY <1>13
      <3>2. path_[d[1] - 1] = Slash
        BY <1>13, <3>1, SegmentIs
      <3>4. d[1] <= d[2] /\ d[2] <= Len(path_) /\ d[1] \in Nat /\ d[2] \in Nat
        BY <1>13, <3>1, SegmentIs
      <3>5. Len(path_) \in Nat /\ a \in Nat /\ w \in Nat
        BY <1>3, <1>4, <1>9
      <3> HIDE DEF a
      <3>3. d[1] - 1 = a + w + 1 /\ a + w + 1 <= Len(path_)
        BY ONLY <2>2, <3>4, <3>5
      <3> QED
        BY <3>2, <3>3
    <2> QED
      BY <1>12, <2>1, <2>2
  <1> DEFINE b == a + 1
             c == a + w
  <1>15. /\ b \in 2..Len(path_) /\ c \in 2..Len(path_) /\ c \in {b, b + 1}
         /\ b - 1 = a /\ c + 1 = a + w + 1 /\ c < Len(path_)
    <2>1. /\ Len(path_) \in Nat /\ a \in Nat /\ 1 <= a /\ w \in 1..2 /\ a + w + 1 <= Len(path_)
      BY <1>3, <1>4, <1>9, <1>14
    <2> HIDE DEF a
    <2> QED
      BY ONLY <2>1
  <1>16. path_[b] = Dot /\ path_[c] = Dot
    <2>1. 1 \in 1..w /\ w \in 1..w
      BY <1>4
    <2> QED
      BY <1>11, <2>1
  <1>17. <<b, c>> \in DotSegments /\ <<b, c>>[1] = b /\ <<b, c>>[2] = c
    <2> HIDE DEF b, c
    <2> QED
      BY <1>9, <1>13, <1>14, <1>15, <1>16, SegmentWhere
  <1>18. from[k + 1] = a + w + 1
    <2> SUFFICES ASSUME NEW d \in D, d[1] = a + w + 2 PROVE FALSE
      BY <1>12
    <2>1. d \in DotSegments /\ d[1] # c + 2
      BY <1>13, <1>17 DEF Scattered
    <2>2. c + 2 = a + w + 2
      BY <1>4, <1>9
    <2> QED
      BY <2>1, <2>2
  <1>19. ASSUME NEW i \in 0..w + 1 PROVE from[j + i] = a + i
    <2>1. i \in 0..w \/ i = w + 1
      BY <1>4
    <2>2. j + (w + 1) = k + 1 /\ a + (w + 1) = a + w + 1
      BY <1>4, <1>9
    <2> QED
      BY <1>8, <1>18, <2>1, <2>2
  <1> QED
    BY <1>4, <1>5, <1>15, <1>17, <1>19

\* From j on, w + 1 characters are those of the uri from a on.
Intact(p, v, j, a, w) == \A i \in 0..w : j + i \in 1..Len(p) /\ v[j + i] = a + i

\* A dot segment of the uri that has not gone is left with the slash before it.
LEMMA LeftAround ==
  ASSUME NEW D, NEW p, NEW v, Left(D, p, v), NEW w \in 1..2,
         NEW d \in DotSegments, d \notin D, d[2] = d[1] + w - 1,
         NEW a, a = d[1] - 1
  PROVE  /\ a \in Nat /\ 1 <= a /\ d[1] = a + 1 /\ d[2] = a + w /\ d[2] \in Nat
         /\ path_[a] = Slash /\ path_[a + 1] = Dot /\ path_[a + w] = Dot
         /\ \E j \in 1..Len(p) : /\ Intact(p, v, j, a, w)
                                 /\ a + w < Len(path_) => Intact(p, v, j, a, w + 1)
  <1>1. /\ path_ \in Seq(Nat) /\ p \in Seq(Nat) /\ Scattered /\ D \in SUBSET DotSegments
    BY DEF Left
  <1>2. /\ d[1] \in Nat /\ d[2] \in Nat /\ Len(path_) \in Nat /\ 2 <= d[1] /\ d[2] <= Len(path_)
        /\ path_[d[1] - 1] = Slash /\ path_[d[1]] = Dot /\ path_[d[2]] = Dot
    BY <1>1, SegmentIs
  <1>3. a \in Nat /\ 1 <= a /\ d[1] = a + 1 /\ d[2] = a + w
    <2>1. d[1] \in Nat /\ 2 <= d[1] /\ a = d[1] - 1 /\ d[2] = d[1] + w - 1 /\ w \in 1..2
      BY <1>2
    <2> QED
      BY ONLY <2>1
  <1>4. path_[a] = Slash /\ path_[a + 1] = Dot /\ path_[a + w] = Dot
    BY <1>2, <1>3
  <1>5. ASSUME NEW x \in a..a + w + 1, x <= Len(path_) PROVE x \in Without(D)
    <2>1. x \in Nat /\ x \in 1..Len(path_)
      BY ONLY <1>2, <1>3, <1>5, x \in a..a + w + 1, w \in 1..2
    <2>2. d[1] - 1 <= x /\ x <= d[2] + 1
      BY ONLY <1>3, <2>1, x \in a..a + w + 1, w \in 1..2
    <2>3. DOMAIN path_ = 1..Len(path_)
      BY <1>1, LenProperties
    <2>4. ASSUME NEW e \in D, x \in GoesWith(e) PROVE FALSE
      <3>1. e \in DotSegments
        BY <1>1
      <3>2. e = d
        BY <1>1, <2>1, <2>2, <2>4, <3>1, Around
      <3> QED
        BY <3>2
    <2> QED
      BY <2>1, <2>3, <2>4 DEF Without
  <1>6. /\ Len(p) \in Nat
        /\ \A k \in 1..Len(p) : v[k] \in Nat
        /\ \A y \in Without(D) : \E k \in 1..Len(p) : v[k] = y
    BY LeftFacts
  <1>7. PICK j \in 1..Len(p) : v[j] = a
    <2>1. a \in a..a + w + 1 /\ a <= Len(path_)
      BY ONLY <1>2, <1>3, w \in 1..2
    <2> QED
      BY <1>5, <1>6, <2>1
  <1>8. ASSUME NEW i \in 0..w, j + i \in 1..Len(p), v[j + i] = a + i, a + (i + 1) <= Len(path_)
        PROVE  j + (i + 1) \in 1..Len(p) /\ v[j + (i + 1)] = a + (i + 1)
    <2> DEFINE k == j + i
               x == a + (i + 1)
    <2>1. x \in a..a + w + 1 /\ a + i + 1 = x
      BY ONLY <1>3, w \in 1..2, i \in 0..w
    <2>2. k \in 1..Len(p) /\ k + 1 = j + (i + 1)
      BY <1>6, <1>8
    <2>3. v[k] + 1 = x
      BY <1>8, <2>1
    <2>4. x <= Len(path_)
      BY <1>8
    <2> HIDE DEF k, x
    <2>5. v[k] + 1 \in Without(D)
      BY <1>5, <2>1, <2>3, <2>4
    <2>6. k + 1 \in 1..Len(p) /\ v[k + 1] = v[k] + 1
      BY <2>2, <2>5, LeftNext
    <2> QED
      BY <2>2, <2>3, <2>6 DEF x
  <1>9. a + w <= Len(path_)
    BY <1>2, <1>3
  <1>10. j + 0 \in 1..Len(p) /\ v[j + 0] = a + 0
    <2>1. j + 0 = j /\ a + 0 = a
      BY <1>3, <1>6
    <2> QED
      BY <1>7, <2>1
  <1>11. j + 1 \in 1..Len(p) /\ v[j + 1] = a + 1
    <2>1. 0 \in 0..w /\ 0 + 1 = 1 /\ a + (0 + 1) <= Len(path_)
      BY ONLY <1>2, <1>3, <1>9, w \in 1..2
    <2> QED
      BY <1>8, <1>10, <2>1
  <1>12. w = 2 => j + 2 \in 1..Len(p) /\ v[j + 2] = a + 2
    <2> SUFFICES ASSUME w = 2 PROVE j + 2 \in 1..Len(p) /\ v[j + 2] = a + 2
      OBVIOUS
    <2>1. 1 \in 0..w /\ 1 + 1 = 2 /\ a + (1 + 1) <= Len(path_)
      BY ONLY <1>2, <1>3, <1>9, w = 2
    <2> QED
      BY <1>8, <1>11, <2>1
  <1>13. ASSUME NEW i \in 0..w PROVE j + i \in 1..Len(p) /\ v[j + i] = a + i
    <2>1. i = 0 \/ i = 1 \/ (i = 2 /\ w = 2)
      OBVIOUS
    <2> QED
      BY <1>10, <1>11, <1>12, <2>1
  <1>14. a + w < Len(path_) => j + (w + 1) \in 1..Len(p) /\ v[j + (w + 1)] = a + (w + 1)
    <2>1. w \in 0..w /\ (a + w < Len(path_) => a + (w + 1) <= Len(path_))
      BY ONLY <1>2, <1>3, w \in 1..2
    <2> QED
      BY <1>8, <1>13, <2>1
  <1>15. Intact(p, v, j, a, w)
    BY <1>13 DEF Intact
  <1>16. a + w < Len(path_) => Intact(p, v, j, a, w + 1)
    <2>1. \A i \in 0..w + 1 : i \in 0..w \/ i = w + 1
      OBVIOUS
    <2> QED
      BY <1>13, <1>14, <2>1 DEF Intact
  <1> QED
    BY <1>2, <1>3, <1>4, <1>15, <1>16

\* If it is not at the end, it is found.
LEMMA SegmentFound ==
  ASSUME NEW D, Left(D, s, from), NEW sep \in DotSeparators, NEW w, w = Len(sep) - 2,
         NEW d \in DotSegments, d \notin D, d[2] = d[1] + w - 1, d[2] < Len(path_)
  PROVE  \E j \in Found(s, sep) : j \in 1..Len(s) /\ from[j] = d[1] - 1
  <1> DEFINE a == d[1] - 1
  <1>1. /\ Len(sep) \in 3..4 /\ sep[1] = Slash /\ sep[Len(sep)] = Slash
        /\ \A k \in 2..Len(sep) - 1 : sep[k] = Dot
    BY SeparatorIs
  <1>2. w \in 1..2 /\ Len(sep) = w + 2
    BY <1>1
  <1>3. /\ path_ \in Seq(Nat) /\ s \in Seq(Nat)
    BY DEF Left
  <1>4. /\ a \in Nat /\ 1 <= a /\ d[2] = a + w /\ d[2] \in Nat
        /\ path_[a] = Slash /\ path_[a + 1] = Dot /\ path_[a + w] = Dot
        /\ \E j \in 1..Len(s) : /\ Intact(s, from, j, a, w)
                                /\ a + w < Len(path_) => Intact(s, from, j, a, w + 1)
    <2> HIDE DEF a
    <2>1. /\ a = d[1] - 1 /\ w \in 1..2 /\ Left(D, s, from)
          /\ d \in DotSegments /\ d \notin D /\ d[2] = d[1] + w - 1
      BY <1>2 DEF a
    <2> QED
      BY ONLY <2>1, LeftAround
  <1>5. path_[a + (w + 1)] = Slash
    <2>1. path_[d[2] + 1] = Slash
      BY <1>3, SegmentIs
    <2>2. d[2] + 1 = a + (w + 1)
      <3> HIDE DEF a
      <3> QED
        BY ONLY <1>2, <1>4
    <2> QED
      BY <2>1, <2>2
  <1> HIDE DEF a
  <1>6. PICK j \in 1..Len(s) :
          /\ \A i \in 0..w : j + i \in 1..Len(s) /\ from[j + i] = a + i
          /\ j + (w + 1) \in 1..Len(s) /\ from[j + (w + 1)] = a + (w + 1)
    <2>1. PICK j \in 1..Len(s) : Intact(s, from, j, a, w) /\ Intact(s, from, j, a, w + 1)
      BY <1>4
    <2>2. w + 1 \in 0..w + 1
      BY <1>2
    <2> QED
      BY <2>1, <2>2 DEF Intact
  <1>7. /\ Len(s) \in Nat /\ \A k \in 1..Len(s) : s[k] = path_[from[k]]
    BY LeftFacts
  <1>8. ASSUME NEW k \in 1..Len(sep) PROVE s[j + k - 1] = sep[k]
    <2>1. j + (k - 1) = j + k - 1
      BY <1>7
    <2>2. CASE k = 1
      <3>1. 0 \in 0..w /\ k - 1 = 0 /\ a + 0 = a
        BY <1>2, <1>4, <2>2
      <3>2. j + (k - 1) \in 1..Len(s) /\ from[j + (k - 1)] = a
        BY <1>6, <3>1
      <3>3. s[j + (k - 1)] = Slash
        BY <1>4, <1>7, <3>2
      <3> QED
        BY <1>1, <2>1, <2>2, <3>3
    <2>3. CASE k = Len(sep)
      <3>1. k - 1 = w + 1
        BY <1>2, <2>3
      <3>2. s[j + (k - 1)] = Slash
        BY <1>5, <1>6, <1>7, <3>1
      <3> QED
        BY <1>1, <2>1, <2>3, <3>2
    <2>4. CASE k \in 2..Len(sep) - 1
      <3>1. k - 1 \in 0..w /\ (k - 1 = 1 \/ k - 1 = w)
        BY ONLY <1>2, <2>4
      <3>2. s[j + (k - 1)] = path_[a + (k - 1)]
        BY <1>6, <1>7, <3>1
      <3>3. path_[a + (k - 1)] = Dot
        BY <1>4, <3>1
      <3> QED
        BY <1>1, <2>1, <2>4, <3>2, <3>3
    <2> QED
      BY <1>1, <2>2, <2>3, <2>4
  <1>9. j \in Nat /\ j \in 1..Len(s) - Len(sep) + 1
    BY <1>2, <1>6, <1>7
  <1>10. j \in Found(s, sep)
    BY <1>3, <1>8, <1>9, FoundWhere
  <1>11. from[j] = a
    <2>1. 0 \in 0..w /\ j + 0 = j /\ a + 0 = a
      BY <1>2, <1>4, <1>7
    <2> QED
      BY <1>6, <2>1
  <1> QED
    BY <1>10, <1>11 DEF a

\* What is found is apart.
LEMMA FoundApart ==
  ASSUME NEW D, Left(D, s, from), NEW sep \in DotSeparators
  PROVE  Apart(s, sep)
  <1> DEFINE w == Len(sep) - 2
  <1> SUFFICES ASSUME NEW j \in Found(s, sep), NEW k \in Found(s, sep), j < k
               PROVE  j + Len(sep) < k
    BY DEF Apart
  <1>1. w \in 1..2 /\ Len(sep) = w + 2
    <2>1. Len(sep) \in 3..4
      BY SeparatorIs
    <2> QED
      BY <2>1
  <1>2. w = Len(sep) - 2
    OBVIOUS
  <1>3. /\ path_ \in Seq(Nat) /\ Scattered /\ D \in SUBSET DotSegments
    BY DEF Left
  <1> HIDE DEF w
  <1> DEFINE a == from[j]
             b == from[k]
             d == <<a + 1, a + w>>
             e == <<b + 1, b + w>>
  <1>4. /\ j \in Nat /\ 1 <= j /\ j + w + 1 <= Len(s)
        /\ \A i \in 0..w + 1 : from[j + i] = a + i
        /\ d \in DotSegments /\ d[1] = a + 1 /\ d[2] = a + w /\ a + w < Len(path_)
    BY <1>2, FoundSegment
  <1>5. /\ k \in Nat /\ 1 <= k /\ k + w + 1 <= Len(s)
        /\ e \in DotSegments /\ e[1] = b + 1 /\ e[2] = b + w
        /\ s[k + w + 1] = Slash
    BY <1>2, FoundSegment
  <1>6. /\ Len(s) \in Nat /\ Len(path_) \in Nat
        /\ \A x \in 1..Len(s) : from[x] \in Nat
        /\ \A x, y \in 1..Len(s) : x < y => from[x] < from[y]
    BY LeftFacts
  <1>7. j \in 1..Len(s) /\ k \in 1..Len(s) /\ j + (w + 1) \in 1..Len(s)
    BY ONLY <1>1, <1>4, <1>5, <1>6
  <1>8. a \in Nat /\ b \in Nat /\ a < b
    BY <1>6, <1>7
  <1> HIDE DEF a, b
  <1>9. a + w + 4 <= b + 1
    <2>1. d[1] < e[1]
      BY <1>4, <1>5, <1>8
    <2>2. d[2] + 4 <= e[1]
      BY <1>3, <1>4, <1>5, <2>1, FarApart
    <2> QED
      BY <1>4, <1>5, <2>2
  <1>10. from[j + (w + 1)] = a + (w + 1)
    <2>1. w + 1 \in 0..w + 1
      BY <1>1
    <2> QED
      BY <1>4, <2>1
  <1> DEFINE z == j + (w + 1)
  <1>11. z \in 1..Len(s) /\ from[z] = a + (w + 1) /\ z \in Nat /\ z = j + (w + 1)
    BY <1>1, <1>4, <1>7, <1>10
  <1> HIDE DEF z
  <1>12. z < k
    <2>1. a + (w + 1) < b
      BY ONLY <1>1, <1>8, <1>9
    <2>2. k < z => b < a + (w + 1)
      BY <1>6, <1>7, <1>11 DEF b
    <2>3. k = z => b = a + (w + 1)
      BY <1>11 DEF b
    <2> QED
      BY ONLY <1>1, <1>5, <1>8, <1>11, <2>1, <2>2, <2>3
  <1>13. k # z + 1
    <2> SUFFICES ASSUME k = z + 1 PROVE FALSE
      OBVIOUS
    <2>1. z + 1 \in 1..Len(s) /\ from[z + 1] = b
      BY <1>7 DEF b
    <2>2. \/ from[z + 1] = from[z] + 1
          \/ \E f \in D : f[1] = from[z] + 2 /\ f[2] < Len(path_) /\ from[z + 1] = f[2] + 1
      BY <1>11, <2>1, LeftGap
    <2>3. b # a + (w + 1) + 1
      BY ONLY <1>1, <1>8, <1>9
    <2>4. PICK f \in D : b = f[2] + 1
      BY <1>11, <2>1, <2>2, <2>3
    <2>5. f \in DotSegments /\ f[2] \in Nat
      BY <1>3, SegmentIs
    <2>6. e[1] # f[2] + 2
      BY <1>3, <1>5, <2>5 DEF Scattered
    <2>7. f[2] + 1 + 1 = f[2] + 2
      BY <2>5
    <2> QED
      BY <1>5, <2>4, <2>6, <2>7
  <1> QED
    BY ONLY <1>1, <1>4, <1>5, <1>11, <1>12, <1>13

\* A separator at the beginning of what is left is at the beginning of the uri.
LEMMA FirstFound ==
  ASSUME NEW D, Left(D, s, from), NEW sep \in DotSeparators, 1 \in Found(s, sep)
  PROVE  from[1] = 1
  <1> DEFINE w == Len(sep) - 2
             a == from[1]
             e == <<a + 1, a + w>>
  <1>1. w \in 1..2
    BY SeparatorIs
  <1>2. /\ path_ \in Seq(Nat) /\ Scattered /\ D \in SUBSET DotSegments
        /\ DOMAIN path_ = 1..Len(path_) /\ Len(path_) \in Nat
    BY LenProperties DEF Left
  <1>3. /\ 1 + w + 1 <= Len(s) /\ e \in DotSegments /\ e[1] = a + 1 /\ e[2] = a + w
        /\ a + w < Len(path_)
    <2>1. w = Len(sep) - 2
      OBVIOUS
    <2> HIDE DEF w
    <2> QED
      BY <2>1, FoundSegment
  <1> HIDE DEF w
  <1>4. /\ Len(s) \in Nat
        /\ \A x \in 1..Len(s) : from[x] \in Nat /\ 1 <= from[x] /\ from[x] \in Without(D)
        /\ \A x, y \in 1..Len(s) : x < y => from[x] < from[y]
        /\ \A y \in Without(D) : \E k \in 1..Len(s) : from[k] = y
    <2>1. Len(s) \in Nat /\ \A y \in Without(D) : \E k \in 1..Len(s) : from[k] = y
      BY LeftFacts
    <2>2. \A x \in 1..Len(s) : from[x] \in Nat /\ 1 <= from[x] /\ from[x] \in Without(D)
      BY LeftFacts
    <2>3. \A x, y \in 1..Len(s) : x < y => from[x] < from[y]
      BY LeftFacts
    <2> QED
      BY <2>1, <2>2, <2>3
  <1>5. 1 \in 1..Len(s)
    <2>1. 1 + w + 1 <= Len(s) /\ Len(s) \in Nat
      BY <1>3, <1>4
    <2> QED
      BY ONLY <1>1, <2>1
  <1>6. a \in Nat /\ 1 <= a /\ a \in Without(D)
    BY <1>4, <1>5
  <1>7. \A y \in Without(D) : a <= y
    <2> SUFFICES ASSUME NEW y \in Without(D) PROVE a <= y
      OBVIOUS
    <2>1. PICK k \in 1..Len(s) : from[k] = y
      BY <1>4
    <2>2. k = 1 \/ 1 < k
      BY <1>4
    <2>3. 1 < k => a < y
      BY <1>4, <1>5, <2>1
    <2>4. k = 1 => a = y
      BY <2>1
    <2>5. y \in Nat
      BY <1>4, <2>1
    <2> HIDE DEF a
    <2> QED
      BY <1>6, <2>2, <2>3, <2>4, <2>5
  <1> HIDE DEF a
  <1>8. ASSUME a # 1 PROVE FALSE
    <2>1. 1 \in DOMAIN path_ /\ 1 \notin Without(D)
      <3>1. 1 \in DOMAIN path_
        BY <1>1, <1>2, <1>3, <1>6
      <3>2. ~(a <= 1)
        BY <1>6, <1>8
      <3> QED
        BY <1>7, <3>1, <3>2
    <2>2. PICK d \in D : 1 \in GoesWith(d)
      BY <2>1 DEF Without
    <2>3. d \in DotSegments
      BY <1>2
    <2>4. /\ d[1] \in Nat /\ d[2] \in Nat /\ 2 <= d[1] /\ d[1] <= d[2] /\ d[2] <= Len(path_)
      BY <1>2, <2>3, SegmentIs
    <2>5. /\ d[1] - 1 <= 1
          /\ d[2] = Len(path_) => d[1] <= 1
      BY <1>2, <2>2, <2>3, GoesWithIs
    <2>6. d[1] = 2 /\ d[2] < Len(path_)
      BY ONLY <1>2, <2>4, <2>5
    <2>7. a \notin GoesWith(d)
      BY <1>6 DEF Without
    <2>8. ~(/\ d[1] - 1 <= a /\ a <= d[2] + 1 /\ a <= Len(path_)
            /\ d[2] = Len(path_) => d[1] <= a
            /\ a = d[2] + 1 => d[1] = 2)
      BY <1>2, <1>6, <2>3, <2>7, GoesWithIs
    <2>9. a > d[2] + 1
      <3>1. a <= Len(path_)
        BY <1>1, <1>2, <1>3, <1>6
      <3>2. ~(a <= d[2] + 1)
        <4>1. d[1] - 1 <= a /\ (d[2] = Len(path_) => d[1] <= a) /\ (a = d[2] + 1 => d[1] = 2)
          BY ONLY <1>6, <2>4, <2>6
        <4> QED
          BY ONLY <2>8, <3>1, <4>1
      <3> QED
        BY ONLY <1>6, <2>4, <3>2
    <2>10. d[2] + 4 <= a + 1
      <3>1. d[1] < e[1]
        BY <1>3, <1>6, <2>4, <2>6, <2>9
      <3> QED
        BY <1>2, <1>3, <2>3, <3>1, FarApart
    <2> DEFINE y == d[2] + 2
    <2>11. y \in Nat /\ y \in DOMAIN path_ /\ y < a /\ y = d[2] + 2
      <3>1. a + w < Len(path_)
        BY <1>3
      <3> DEFINE c == d[2]
                 n == Len(path_)
      <3>2. w \in 1..2 /\ n \in Nat /\ a \in Nat /\ c \in Nat /\ c + 4 <= a + 1 /\ a + w < n
        BY <1>1, <1>2, <1>6, <2>4, <2>10, <3>1
      <3> HIDE DEF c, n
      <3>3. c + 2 \in Nat /\ c + 2 \in 1..n /\ c + 2 < a
        BY ONLY <3>2
      <3> QED
        BY <1>2, <3>3 DEF c, n
    <2> HIDE DEF y
    <2>12. ASSUME NEW f \in D, y \in GoesWith(f) PROVE FALSE
      <3>1. f \in DotSegments
        BY <1>2
      <3>2. /\ f[1] \in Nat /\ f[2] \in Nat /\ 2 <= f[1] /\ f[1] <= f[2]
        BY <1>2, <3>1, SegmentIs
      <3>3. f[1] - 1 <= y /\ y <= f[2] + 1
        BY <1>2, <2>11, <2>12, <3>1, GoesWithIs
      <3>4. d[1] < f[1] => d[2] + 4 <= f[1]
        BY <1>2, <2>3, <3>1, FarApart
      <3>5. f[1] = d[1] => f = d
        BY <1>2, <2>3, <3>1, SameStart
      <3>6. f = d
        BY ONLY <2>4, <2>6, <2>11, <3>2, <3>3, <3>4, <3>5
      <3> QED
        BY <2>4, <2>11, <3>3, <3>6
    <2>13. y \in Without(D)
      BY <2>11, <2>12 DEF Without
    <2>14. a <= y
      BY <1>7, <2>13
    <2> QED
      BY <1>6, <2>11, <2>14
  <1> QED
    BY <1>8 DEF a

\* What is taken out for a separator is what goes with the dot segment.
LEMMA GoneIs ==
  ASSUME NEW D, Left(D, s, from), NEW sep \in DotSeparators, NEW j \in Found(s, sep),
         NEW w, w = Len(sep) - 2, NEW i \in 1..Len(s),
         NEW d, d = <<from[j] + 1, from[j] + w>>
  PROVE  /\ d \in DotSegments /\ d[2] = d[1] + w - 1 /\ d[2] < Len(path_)
         /\ i \in Gone(j, Len(sep)) <=> from[i] \in GoesWith(d)
  <1> DEFINE a == from[j]
             x == from[i]
             n == Len(path_)
  <1>1. w \in 1..2 /\ Len(sep) = w + 2
    <2>1. Len(sep) \in 3..4
      BY SeparatorIs
    <2> QED
      BY <2>1
  <1>2. path_ \in Seq(Nat)
    BY DEF Left
  <1>3. /\ j \in Nat /\ 1 <= j /\ j + w + 1 <= Len(s)
        /\ \A t \in 0..w + 1 : from[j + t] = a + t
    BY FoundSegment
  <1>4. d \in DotSegments /\ d[1] = a + 1 /\ d[2] = a + w /\ a + w < n
    BY FoundSegment
  <1>5. /\ Len(s) \in Nat /\ n \in Nat
        /\ \A k \in 1..Len(s) : from[k] \in Nat /\ 1 <= from[k] /\ from[k] <= n
        /\ \A k, l \in 1..Len(s) : k < l => from[k] < from[l]
    <2>1. Len(s) \in Nat /\ n \in Nat
      BY LeftFacts
    <2>2. \A k \in 1..Len(s) : from[k] \in Nat /\ 1 <= from[k] /\ from[k] <= n
      BY LeftFacts
    <2>3. \A k, l \in 1..Len(s) : k < l => from[k] < from[l]
      BY LeftFacts
    <2> QED
      BY <2>1, <2>2, <2>3
  <1>6. /\ 1 \in 1..Len(s) /\ j \in 1..Len(s) /\ j + (w + 1) \in 1..Len(s)
        /\ i \in Nat /\ 1 <= i
    <2>1. Len(s) \in Nat
      BY <1>5
    <2> QED
      BY ONLY <1>1, <1>3, <2>1, i \in 1..Len(s)
  <1>7. /\ a \in Nat /\ 1 <= a /\ x \in Nat /\ x <= n
        /\ i < j => x < a
        /\ j = 1 \/ 1 < j
    BY <1>3, <1>5, <1>6
  <1>8. from[j + (w + 1)] = a + (w + 1)
    <2>1. w + 1 \in 0..w + 1
      BY <1>1
    <2> QED
      BY <1>3, <2>1
  <1>9. j + (w + 1) < i => a + (w + 1) < x
    BY <1>5, <1>6, <1>8
  <1>10. ASSUME j <= i, i <= j + (w + 1) PROVE x = a + (i - j)
    <2>1. i - j \in 0..w + 1 /\ j + (i - j) = i
      BY ONLY <1>1, <1>3, <1>6, <1>10
    <2> QED
      BY <1>3, <2>1
  <1>11. 1 < j => 1 < a
    <2>1. from[1] \in Nat /\ 1 <= from[1] /\ (1 < j => from[1] < a)
      BY <1>5, <1>6
    <2> HIDE DEF a
    <2> QED
      BY <1>7, <2>1
  <1>12. j = 1 => a = 1
    BY FirstFound
  <1>13. x \in GoesWith(d) <=> a <= x /\ x <= a + w + 1 /\ (x = a + w + 1 => a = 1)
    <2>1. x \in GoesWith(d) <=>
            /\ x \in Nat /\ d[1] - 1 <= x /\ x <= d[2] + 1 /\ x <= n
            /\ d[2] = n => d[1] <= x
            /\ x = d[2] + 1 => d[1] = 2
      <3> HIDE DEF x
      <3> QED
        BY <1>2, <1>4, GoesWithIs
    <2> HIDE DEF a, x, n
    <2>2. d[1] - 1 = a /\ d[2] + 1 = a + w + 1 /\ d[2] # n /\ (d[1] = 2 <=> a = 1)
      BY <1>1, <1>4, <1>5, <1>7
    <2> QED
      BY ONLY <1>7, <2>1, <2>2
  <1>14. i \in Gone(j, Len(sep)) <=> j <= i /\ i <= j + w + 1 /\ (i = j + w + 1 => j = 1)
    <2>1. CASE j = 1
      <3>1. Gone(j, Len(sep)) = 1..w + 2
        BY <1>1, <2>1 DEF Gone
      <3> QED
        BY ONLY <1>1, <1>6, <2>1, <3>1
    <2>2. CASE j # 1
      <3>1. Gone(j, Len(sep)) = j..j + w
        <4>1. j + Len(sep) - 2 = j + w
          BY ONLY <1>1, <1>3
        <4> QED
          BY <2>2, <4>1 DEF Gone
      <3> QED
        BY ONLY <1>1, <1>3, <1>6, <2>2, <3>1
    <2> QED
      BY <2>1, <2>2
  <1> HIDE DEF a, x, n
  <1>15. i \in Gone(j, Len(sep)) <=> x \in GoesWith(d)
    <2>1. CASE i < j
      BY ONLY <1>1, <1>3, <1>6, <1>7, <1>13, <1>14, <2>1
    <2>2. CASE j + (w + 1) < i
      BY ONLY <1>1, <1>3, <1>6, <1>7, <1>9, <1>13, <1>14, <2>2
    <2>3. CASE j <= i /\ i <= j + (w + 1)
      <3>1. x = a + (i - j)
        BY <1>10, <2>3
      <3>2. /\ a <= x /\ x <= a + w + 1 /\ j <= i /\ i <= j + w + 1
            /\ x = a + w + 1 <=> i = j + w + 1
        BY ONLY <1>1, <1>3, <1>6, <1>7, <2>3, <3>1
      <3>3. a = 1 <=> j = 1
        BY <1>3, <1>7, <1>11, <1>12
      <3> QED
        BY ONLY <1>13, <1>14, <3>2, <3>3
    <2>4. i < j \/ j + (w + 1) < i \/ (j <= i /\ i <= j + (w + 1))
      BY ONLY <1>1, <1>3, <1>6
    <2> QED
      BY <2>1, <2>2, <2>3, <2>4
  <1>16. d[2] = d[1] + w - 1 /\ d[2] < Len(path_)
    BY <1>1, <1>4, <1>7 DEF n
  <1> QED
    BY <1>4, <1>15, <1>16 DEF x

\* The dot segments of n dots that are not at the end.
Inner(n) == {d \in Segments(n) : d[2] < Len(path_)}

\* What is left when the separators have been taken out.
LEMMA InnerGo ==
  ASSUME NEW D, Left(D, s, from), NEW sep \in DotSeparators, NEW w, w = Len(sep) - 2,
         D \cap Segments(w) = {}, NEW i \in 1..Len(s)
  PROVE  (\A j \in Found(s, sep) : i \notin Gone(j, Len(sep)))
           <=> from[i] \in Without(D \cup Inner(w))
  <1> DEFINE x == from[i]
  <1>1. x \in Without(D) /\ path_ \in Seq(Nat) /\ w \in 1..2
    <2>1. x \in Without(D)
      BY LeftFacts
    <2>2. w \in 1..2
      BY SeparatorIs
    <2> QED
      BY <2>1, <2>2 DEF Left
  <1>2. x \in Without(D \cup Inner(w)) <=> \A d \in Inner(w) : x \notin GoesWith(d)
    <2> HIDE DEF x
    <2> QED
      BY <1>1 DEF Without
  <1>3. ASSUME \A j \in Found(s, sep) : i \notin Gone(j, Len(sep)), NEW d \in Inner(w)
        PROVE  x \notin GoesWith(d)
    <2>1. /\ d \in DotSegments /\ d \notin D /\ d[2] = d[1] + w - 1 /\ d[2] < Len(path_)
      BY DEF Inner, Segments
    <2>2. PICK j \in Found(s, sep) : from[j] = d[1] - 1
      BY <2>1, SegmentFound
    <2>3. d[1] \in Nat /\ d[2] \in Nat /\ d = <<d[1], d[2]>>
      BY <1>1, <2>1, SegmentIs
    <2>4. from[j] + 1 = d[1] /\ from[j] + w = d[2]
      <3> DEFINE a == from[j]
                 b == d[1]
                 c == d[2]
      <3>1. a = b - 1 /\ b \in Nat /\ c = b + w - 1
        BY <2>1, <2>2, <2>3
      <3> HIDE DEF a, b, c
      <3>2. a + 1 = b /\ a + w = c
        BY ONLY <1>1, <3>1
      <3> QED
        BY <3>2 DEF a, b, c
    <2>5. d = <<from[j] + 1, from[j] + w>>
      BY <2>3, <2>4
    <2>6. i \in Gone(j, Len(sep)) <=> x \in GoesWith(d)
      BY <2>5, GoneIs
    <2> QED
      BY <1>3, <2>6
  <1>4. ASSUME \A d \in Inner(w) : x \notin GoesWith(d), NEW j \in Found(s, sep)
        PROVE  i \notin Gone(j, Len(sep))
    <2> DEFINE d == <<from[j] + 1, from[j] + w>>
    <2>1. d = <<from[j] + 1, from[j] + w>>
      OBVIOUS
    <2> HIDE DEF d
    <2>2. /\ d \in DotSegments /\ d[2] = d[1] + w - 1 /\ d[2] < Len(path_)
          /\ i \in Gone(j, Len(sep)) <=> x \in GoesWith(d)
      BY <2>1, GoneIs
    <2>3. d \in Inner(w)
      BY <2>2 DEF Inner, Segments
    <2> QED
      BY <1>4, <2>2, <2>3
  <1> QED
    BY <1>2, <1>3, <1>4

\* The converse of SuffixAt.
LEMMA SuffixWhere ==
  ASSUME NEW S, NEW e \in Seq(S), NEW q \in Seq(S), Len(e) <= Len(q),
         \A k \in 1..Len(e) : q[Len(q) - Len(e) + k] = e[k]
  PROVE  IsSuffix(e, q)
  <1> DEFINE m == Len(e)
             n == Len(q)
             re == [i \in 1..m |-> e[(m - i) + 1]]
             rq == [i \in 1..n |-> q[(n - i) + 1]]
  <1>1. m \in Nat /\ n \in Nat /\ m <= n /\ e \in [1..m -> S] /\ q \in [1..n -> S]
    BY LenProperties
  <1>2. re \in Seq(S) /\ Len(re) = m
    <2> HIDE DEF m
    <2>1. re \in [1..m -> S]
      BY <1>1
    <2> HIDE DEF re
    <2> QED
      BY <1>1, <2>1
  <1>3. rq \in Seq(S) /\ Len(rq) = n
    <2> HIDE DEF n
    <2>1. rq \in [1..n -> S]
      BY <1>1
    <2> HIDE DEF rq
    <2> QED
      BY <1>1, <2>1
  <1>4. \A i \in 1..m : re[i] = e[(m - i) + 1]
    OBVIOUS
  <1>5. \A i \in 1..n : rq[i] = q[(n - i) + 1]
    OBVIOUS
  <1>6. \A k \in 1..m : q[n - m + k] = e[k]
    OBVIOUS
  <1>7. IsSuffix(e, q) <=> IsPrefix(re, rq)
    BY DEF IsSuffix, Reverse
  <1> HIDE DEF re, rq, m, n
  <1>8. ASSUME NEW i \in 1..m PROVE re[i] = rq[i]
    <2>1. m - i + 1 \in 1..m /\ n - m + (m - i + 1) = n - i + 1 /\ i \in 1..n
      BY <1>1
    <2> QED
      BY <1>4, <1>5, <1>6, <2>1
  <1>9. m \in 0..Len(re) /\ m \in 0..Len(rq)
    BY <1>1, <1>2, <1>3
  <1>10. /\ SubSeq(re, 1, m) \in Seq(S) /\ Len(SubSeq(re, 1, m)) = m
         /\ \A i \in 1..m : SubSeq(re, 1, m)[i] = re[i]
    BY <1>2, <1>9, PrefixOf
  <1>11. /\ SubSeq(rq, 1, m) \in Seq(S) /\ Len(SubSeq(rq, 1, m)) = m
         /\ \A i \in 1..m : SubSeq(rq, 1, m)[i] = rq[i]
    BY <1>3, <1>9, PrefixOf
  <1>12. SubSeq(re, 1, m) = SubSeq(rq, 1, m)
    <2>1. \A i \in 1..m : SubSeq(re, 1, m)[i] = SubSeq(rq, 1, m)[i]
      BY <1>8, <1>10, <1>11
    <2> QED
      BY ONLY <1>10, <1>11, <2>1, SeqEqual
  <1> QED
    BY <1>1, <1>2, <1>3, <1>7, <1>12 DEF IsPrefix

\* What is dropped at the end is a dot segment at the end of the uri.
LEMMA SuffixSegment ==
  ASSUME NEW D, NEW p, NEW v, Left(D, p, v), NEW sep \in DotSeparators,
         NEW w, w = Len(sep) - 2, IsSuffix(Front(sep), p),
         NEW b, b = Len(p) - w
  PROVE  /\ b \in 1..Len(p) /\ Intact(p, v, b, v[b], w) /\ v[b] + w = Len(path_)
         /\ <<v[b] + 1, v[b] + w>> \in DotSegments
         /\ <<v[b] + 1, v[b] + w>>[1] = v[b] + 1
         /\ <<v[b] + 1, v[b] + w>>[2] = v[b] + w
  <1> DEFINE e == Front(sep)
             m == Len(p)
             n == Len(path_)
             a == v[b]
  <1>1. /\ w \in 1..2 /\ Len(sep) = w + 2 /\ sep[1] = Slash
        /\ \A k \in 2..Len(sep) - 1 : sep[k] = Dot
        /\ e \in Seq(Nat) /\ Len(e) = w + 1
        /\ \A k \in 1..Len(sep) - 1 : e[k] = sep[k]
    <2>1. /\ Len(sep) \in 3..4 /\ sep[1] = Slash
          /\ \A k \in 2..Len(sep) - 1 : sep[k] = Dot
          /\ e \in Seq(Nat) /\ Len(e) = Len(sep) - 1
          /\ \A k \in 1..Len(sep) - 1 : e[k] = sep[k]
      BY SeparatorIs
    <2>2. w \in 1..2 /\ Len(sep) = w + 2 /\ Len(sep) - 1 = w + 1
      BY <2>1
    <2> QED
      BY <2>1, <2>2
  <1>2. /\ path_ \in Seq(Nat) /\ p \in Seq(Nat) /\ Scattered /\ D \in SUBSET DotSegments
        /\ m \in Nat /\ n \in Nat /\ DOMAIN path_ = 1..n
    BY LenProperties DEF Left
  <1>3. Len(e) <= m /\ \A k \in 1..Len(e) : p[m - Len(e) + k] = e[k]
    <2>1. IsSuffix(e, p)
      OBVIOUS
    <2>2. e \in Seq(Nat) /\ p \in Seq(Nat)
      BY <1>1, <1>2
    <2> HIDE DEF e
    <2> QED
      BY ONLY <2>1, <2>2, SuffixAt
  <1>4. /\ \A k \in 1..m : v[k] \in Nat /\ 1 <= v[k] /\ v[k] <= n /\ p[k] = path_[v[k]]
        /\ \A j, k \in 1..m : j < k => v[j] < v[k]
        /\ \A y \in Without(D) : \E k \in 1..m : v[k] = y
    <2>1. \A k \in 1..m : v[k] \in Nat /\ 1 <= v[k] /\ v[k] <= n /\ p[k] = path_[v[k]]
      BY LeftFacts
    <2>2. \A j, k \in 1..m : j < k => v[j] < v[k]
      BY LeftFacts
    <2>3. \A y \in Without(D) : \E k \in 1..m : v[k] = y
      BY LeftFacts
    <2> QED
      BY <2>1, <2>2, <2>3
  <1>5. b = m - w
    OBVIOUS
  <1> HIDE DEF e, m, n
  <1>6. b \in Nat /\ 1 <= b /\ b + w = m /\ \A i \in 0..w : b + i \in 1..m
    <2>1. w \in 1..2 /\ Len(e) = w + 1 /\ m \in Nat /\ Len(e) <= m
      BY <1>1, <1>2, <1>3
    <2>2. w \in 1..2 /\ m \in Nat /\ w + 1 <= m
      BY ONLY <2>1
    <2> QED
      BY ONLY <2>2, <1>5
  <1>7. ASSUME NEW i \in 0..w PROVE p[b + i] = sep[i + 1]
    <2>1. /\ i + 1 \in 1..Len(e) /\ i + 1 \in 1..Len(sep) - 1
          /\ m - Len(e) + (i + 1) = b + i
      BY ONLY <1>1, <1>2, <1>3, <1>5, i \in 0..w
    <2> QED
      BY <1>1, <1>3, <2>1
  <1>8. p[b] = Slash
    <2>1. 0 \in 0..w /\ b + 0 = b /\ 0 + 1 = 1
      BY <1>1, <1>6
    <2> QED
      BY <1>1, <1>7, <2>1
  <1>9. ASSUME NEW i \in 1..w PROVE p[b + i] = Dot
    <2>1. i \in 0..w /\ i + 1 \in 2..Len(sep) - 1
      BY <1>1
    <2> QED
      BY <1>1, <1>7, <2>1
  <1>10. ASSUME NEW i \in 0..w - 1 PROVE v[b + (i + 1)] = v[b + i] + 1
    <2> DEFINE k == b + i
    <2>1. i \in 0..w /\ i + 1 \in 0..w /\ i + 1 \in 1..w /\ k + 1 = b + (i + 1)
      BY ONLY <1>1, <1>6, i \in 0..w - 1
    <2>2. k \in 1..m /\ k + 1 \in 1..m /\ p[k + 1] = Dot
      BY <1>6, <1>9, <2>1
    <2> HIDE DEF k
    <2>3. v[k + 1] = v[k] + 1
      BY <2>2, LeftDot DEF m
    <2> QED
      BY <2>1, <2>3 DEF k
  <1>11. b \in 1..m /\ a \in Nat /\ 1 <= a
    <2>1. b \in 1..m
      BY ONLY <1>1, <1>2, <1>6
    <2> QED
      BY <1>4, <2>1
  <1>12. \A i \in 0..w : v[b + i] = a + i
    <2>1. b + 0 = b /\ a + 0 = a
      BY <1>6, <1>11
    <2>2. v[b + 1] = a + 1
      <3>1. 0 \in 0..w - 1 /\ 0 + 1 = 1
        BY <1>1
      <3> QED
        BY <1>10, <2>1, <3>1
    <2>3. w = 2 => v[b + 2] = a + 2
      <3> SUFFICES ASSUME w = 2 PROVE v[b + 2] = a + 2
        OBVIOUS
      <3>1. 1 \in 0..w - 1 /\ 1 + 1 = 2
        BY <1>1
      <3>2. v[b + 2] = v[b + 1] + 1
        BY <1>10, <3>1
      <3> HIDE DEF a
      <3>3. a + 1 + 1 = a + 2
        BY <1>11
      <3> QED
        BY <2>2, <3>2, <3>3
    <2> HIDE DEF a
    <2> SUFFICES ASSUME NEW i \in 0..w PROVE v[b + i] = a + i
      OBVIOUS
    <2>4. w = 1 \/ w = 2
      BY <1>1
    <2>5. i = 0 \/ i = 1 \/ (i = 2 /\ w = 2)
      BY ONLY <2>4, i \in 0..w
    <2>6. CASE i = 0
      BY <2>1, <2>6 DEF a
    <2>7. CASE i = 1
      BY ONLY <2>2, <2>7
    <2>8. CASE i = 2 /\ w = 2
      BY ONLY <2>3, <2>8
    <2> QED
      BY <2>5, <2>6, <2>7, <2>8
  <1>13. Intact(p, v, b, a, w)
    BY <1>6, <1>12 DEF Intact, m
  <1>14. path_[a] = Slash
    BY <1>4, <1>8, <1>11
  <1>15. ASSUME NEW i \in 1..w PROVE path_[a + i] = Dot
    <2>1. i \in 0..w
      OBVIOUS
    <2>2. b + i \in 1..m /\ v[b + i] = a + i
      BY <1>6, <1>12, <2>1
    <2> QED
      BY <1>4, <1>9, <2>2
  <1> DEFINE z == a + w
  <1>16. m \in 1..m /\ v[m] = z /\ z \in Nat /\ z <= n /\ z = a + w
    <2>1. w \in 0..w
      BY <1>1
    <2>2. m \in 1..m /\ v[m] = z
      BY <1>6, <1>12, <2>1
    <2> QED
      BY <1>4, <2>2
  <1> HIDE DEF a, z
  <1>17. ASSUME NEW y \in Without(D) PROVE ~(z < y)
    <2>1. PICK k \in 1..m : v[k] = y
      BY <1>4
    <2>2. k = m \/ k < m
      BY <1>2
    <2>3. k < m => v[k] < z
      BY <1>4, <1>16
    <2>4. y \in Nat
      BY <1>4, <2>1
    <2> QED
      BY <1>16, <2>1, <2>2, <2>3, <2>4
  <1>18. z = n
    <2> SUFFICES ASSUME z # n PROVE FALSE
      OBVIOUS
    <2>1. z + 1 <= n /\ z + 1 \notin Without(D) /\ z \in Without(D)
      <3>1. z \in Without(D)
        BY <1>16, LeftFacts DEF m
      <3>2. z + 1 <= n /\ z < z + 1
        BY <1>2, <1>16
      <3> QED
        BY <1>17, <3>1, <3>2
    <2>2. PICK d \in D : \/ d[1] = z + 1 /\ d[2] = n
                         \/ d[1] = z + 2 /\ d[2] < n /\ d[2] + 1 \in Without(D)
      BY <1>2, <2>1, NextLeft DEF n
    <2>3. d \in DotSegments
      BY <1>2
    <2>4. /\ d[1] \in Nat /\ d[2] \in Nat /\ d[1] <= d[2] /\ path_[d[1] - 1] = Slash
      BY <1>2, <2>3, SegmentIs
    <2>5. path_[z] = Dot
      BY <1>1, <1>15, <1>16
    <2>6. d[1] # z + 1
      <3>1. d[1] = z + 1 => d[1] - 1 = z
        BY <1>16, <2>4
      <3> QED
        BY <2>4, <2>5, <3>1 DEF Slash, Dot
    <2>7. d[1] = z + 2 /\ d[2] + 1 \in Without(D)
      BY <2>2, <2>6
    <2>8. z < d[2] + 1
      BY <1>16, <2>4, <2>7
    <2> QED
      BY <1>17, <2>7, <2>8
  <1> DEFINE c == a + 1
  <1>19. /\ c \in 2..n /\ z \in 2..n /\ z \in {c, c + 1} /\ c - 1 = a /\ ~(z < n)
    BY ONLY <1>1, <1>2, <1>11, <1>16, <1>18
  <1>20. path_[c] = Dot /\ path_[z] = Dot
    <2>1. 1 \in 1..w /\ w \in 1..w
      BY <1>1
    <2> QED
      BY <1>15, <1>16, <2>1
  <1>21. <<c, z>> \in DotSegments /\ <<c, z>>[1] = c /\ <<c, z>>[2] = z
    <2> HIDE DEF c
    <2> QED
      BY <1>2, <1>14, <1>19, <1>20, SegmentWhere DEF n
  <1> QED
    BY <1>11, <1>13, <1>16, <1>18, <1>21 DEF a, m, n

\* A dot segment at the end that has not gone is dropped.
LEMMA SegmentSuffix ==
  ASSUME NEW D, NEW p, NEW v, Left(D, p, v), NEW sep \in DotSeparators,
         NEW w, w = Len(sep) - 2,
         NEW d \in DotSegments, d \notin D, d[2] = d[1] + w - 1, d[2] = Len(path_)
  PROVE  IsSuffix(Front(sep), p)
  <1> DEFINE e == Front(sep)
             m == Len(p)
             n == Len(path_)
             a == d[1] - 1
  <1>1. /\ w \in 1..2 /\ Len(sep) = w + 2 /\ sep[1] = Slash
        /\ \A k \in 2..Len(sep) - 1 : sep[k] = Dot
        /\ e \in Seq(Nat) /\ Len(e) = w + 1
        /\ \A k \in 1..Len(sep) - 1 : e[k] = sep[k]
    <2>1. /\ Len(sep) \in 3..4 /\ sep[1] = Slash
          /\ \A k \in 2..Len(sep) - 1 : sep[k] = Dot
          /\ e \in Seq(Nat) /\ Len(e) = Len(sep) - 1
          /\ \A k \in 1..Len(sep) - 1 : e[k] = sep[k]
      BY SeparatorIs
    <2>2. w \in 1..2 /\ Len(sep) = w + 2 /\ Len(sep) - 1 = w + 1
      BY <2>1
    <2> QED
      BY <2>1, <2>2
  <1>2. p \in Seq(Nat) /\ m \in Nat /\ n \in Nat
    BY LenProperties DEF Left
  <1>3. a = d[1] - 1
    OBVIOUS
  <1> HIDE DEF a, e, m, n
  <1>4. /\ a \in Nat /\ d[2] = a + w
        /\ path_[a] = Slash /\ path_[a + 1] = Dot /\ path_[a + w] = Dot
        /\ \E j \in 1..Len(p) : Intact(p, v, j, a, w)
    <2>1. /\ a = d[1] - 1 /\ w \in 1..2 /\ Left(D, p, v)
          /\ d \in DotSegments /\ d \notin D /\ d[2] = d[1] + w - 1
      BY <1>1, <1>3
    <2> QED
      BY ONLY <2>1, LeftAround
  <1>5. PICK j \in 1..m : Intact(p, v, j, a, w)
    BY <1>4 DEF m
  <1>6. \A i \in 0..w : j + i \in 1..m /\ v[j + i] = a + i
    BY <1>5 DEF Intact, m
  <1>7. /\ \A k \in 1..m : v[k] \in Nat /\ v[k] <= n /\ p[k] = path_[v[k]]
        /\ \A i, k \in 1..m : i < k => v[i] < v[k]
    <2>1. \A k \in 1..m : v[k] \in Nat /\ v[k] <= n /\ p[k] = path_[v[k]]
      BY LeftFacts DEF m, n
    <2>2. \A i, k \in 1..m : i < k => v[i] < v[k]
      BY LeftFacts DEF m
    <2> QED
      BY <2>1, <2>2
  <1>8. j + w = m
    <2>1. w \in 0..w
      BY <1>1
    <2>2. j + w \in 1..m /\ v[j + w] = a + w
      BY <1>6, <2>1
    <2>3. v[j + w] = n
      BY <1>4, <2>2 DEF n
    <2>4. m \in 1..m /\ (j + w < m => n < v[m]) /\ v[m] \in Nat /\ v[m] <= n
      <3>1. m \in 1..m
        BY <1>2, <2>2
      <3> QED
        BY <1>7, <2>2, <2>3, <3>1
    <2>5. ~(j + w < m)
      BY <1>2, <2>4
    <2> QED
      BY ONLY <1>2, <2>2, <2>5
  <1>9. ASSUME NEW k \in 1..w + 1 PROVE p[m - (w + 1) + k] = e[k]
    <2>0. w \in 1..2 /\ Len(sep) = w + 2 /\ m \in Nat /\ a \in Nat /\ j + w = m /\ j \in Nat
      <3>1. w \in 1..2 /\ Len(sep) = w + 2
        BY <1>1
      <3>2. m \in Nat /\ a \in Nat /\ j + w = m /\ j \in Nat
        BY <1>2, <1>4, <1>8
      <3> QED
        BY <3>1, <3>2
    <2>1. k - 1 \in 0..w /\ j + (k - 1) = m - (w + 1) + k /\ k \in 1..Len(sep) - 1
      <3>1. k \in Nat /\ 1 <= k /\ k <= w + 1
        BY ONLY <2>0, k \in 1..w + 1
      <3>2. j + (k - 1) = m - (w + 1) + k
        BY ONLY <2>0, <3>1
      <3>3. k - 1 \in 0..w /\ k \in 1..Len(sep) - 1
        BY ONLY <2>0, <3>1
      <3> QED
        BY <3>2, <3>3
    <2>2. p[m - (w + 1) + k] = path_[a + (k - 1)]
      BY <1>6, <1>7, <2>1
    <2>3. \/ k = 1 /\ a + (k - 1) = a
          \/ k \in 2..Len(sep) - 1 /\ (a + (k - 1) = a + 1 \/ a + (k - 1) = a + w)
      BY ONLY <2>0, k \in 1..w + 1
    <2>4. path_[a + (k - 1)] = sep[k]
      BY <1>1, <1>4, <2>3
    <2> QED
      BY <1>1, <2>1, <2>2, <2>4
  <1>10. w + 1 <= m
    BY <1>1, <1>2, <1>8
  <1> QED
    <2>1. e \in Seq(Nat) /\ Len(e) = w + 1
      BY <1>1
    <2>2. Len(e) <= Len(p) /\ \A k \in 1..Len(e) : p[Len(p) - Len(e) + k] = e[k]
      BY <1>9, <1>10, <2>1 DEF m
    <2> QED
      BY <1>2, <2>1, <2>2, SuffixWhere DEF e

\* What DropEnd leaves: the last dot segment goes if there is one.
LEMMA DropEndLeft ==
  ASSUME NEW D, NEW p, NEW v, Left(D, p, v), NEW sep \in DotSeparators,
         NEW w, w = Len(sep) - 2, Inner(w) \subseteq D, D \cap Segments(w) \subseteq Inner(w),
         NEW n, n = DropEnd(p, Front(sep)), NEW y
  PROVE  y \in Without(D \cup Segments(w)) <=> \E k \in 1..n : v[k] = y
  <1> DEFINE m == Len(p)
             l == Len(path_)
  <1>1. w \in 1..2 /\ Len(sep) = w + 2 /\ Len(Front(sep)) = w + 1
    <2>1. Len(sep) \in 3..4 /\ Len(Front(sep)) = Len(sep) - 1
      BY SeparatorIs
    <2> QED
      BY <2>1
  <1>2. path_ \in Seq(Nat) /\ D \in SUBSET DotSegments /\ m \in Nat /\ l \in Nat
    BY LenProperties DEF Left
  <1>3. \A k \in 1..m : v[k] \in Nat /\ v[k] <= l /\ v[k] \in Without(D)
    BY LeftFacts
  <1>4. /\ \A j, k \in 1..m : j < k => v[j] < v[k]
        /\ \A x \in Without(D) : \E k \in 1..m : v[k] = x
    <2>1. \A j, k \in 1..m : j < k => v[j] < v[k]
      BY LeftFacts
    <2>2. \A x \in Without(D) : \E k \in 1..m : v[k] = x
      BY LeftFacts
    <2> QED
      BY <2>1, <2>2
  <1>5. \A d \in Segments(w) : /\ d \in DotSegments /\ d[2] = d[1] + w - 1
                               /\ d[1] \in Nat /\ d[2] \in Nat /\ d = <<d[1], d[2]>>
                               /\ d[2] < l \/ d[2] = l
    <2> SUFFICES ASSUME NEW d \in Segments(w)
                 PROVE  /\ d \in DotSegments /\ d[2] = d[1] + w - 1
                        /\ d[1] \in Nat /\ d[2] \in Nat /\ d = <<d[1], d[2]>>
                        /\ d[2] < l \/ d[2] = l
      OBVIOUS
    <2>1. d \in DotSegments /\ d[2] = d[1] + w - 1
      BY DEF Segments
    <2>2. d[1] \in Nat /\ d[2] \in Nat /\ d = <<d[1], d[2]>> /\ d[2] <= l
      BY <1>2, <2>1, SegmentIs
    <2>3. d[2] < l \/ d[2] = l
      BY <1>2, <2>2
    <2> QED
      BY <2>1, <2>2, <2>3
  <1>6. CASE IsSuffix(Front(sep), p)
    <2> DEFINE b == m - w
               a == v[b]
               e == <<a + 1, a + w>>
    <2>1. /\ b \in 1..m /\ Intact(p, v, b, a, w) /\ a + w = l
          /\ e \in DotSegments /\ e[1] = a + 1 /\ e[2] = a + w
      <3>1. b = Len(p) - w
        OBVIOUS
      <3> HIDE DEF b
      <3> QED
        BY <1>6, <3>1, SuffixSegment
    <2>2. n = b
      <3>1. n = m - (w + 1) + 1
        BY <1>1, <1>6 DEF DropEnd
      <3> QED
        BY <1>1, <1>2, <3>1
    <2>3. b = m - w /\ b \in Nat /\ a \in Nat
      <3>1. a \in Nat
        BY <1>3, <2>1
      <3> QED
        BY <1>1, <1>2, <2>1, <3>1
    <2> HIDE DEF b
    <2>4. \A i \in 0..w : b + i \in 1..m /\ v[b + i] = a + i
      BY <2>1 DEF Intact
    <2>5. e \in Segments(w) /\ e \in DotSegments
      <3> HIDE DEF a
      <3>1. e[2] = e[1] + w - 1
        BY <1>1, <2>1, <2>3
      <3> QED
        BY <2>1, <3>1 DEF Segments
    <2>6. ASSUME NEW d \in Segments(w), d \notin D PROVE d = e
      <3>1. d \notin Inner(w)
        BY <2>6
      <3>2. d[2] = l
        BY <1>5, <3>1 DEF Inner
      <3>3. d[1] + w - 1 = a + w /\ d[1] \in Nat
        BY <1>5, <2>1, <3>2
      <3>4. d[1] = e[1] /\ d \in DotSegments
        <4> DEFINE x == d[1]
        <4>1. x + w - 1 = a + w /\ x \in Nat /\ a \in Nat /\ w \in 1..2
          BY <1>1, <2>3, <3>3
        <4> HIDE DEF x, a
        <4>2. x = a + 1
          BY ONLY <4>1
        <4> QED
          BY <1>5, <2>1, <4>2 DEF x, a
      <3> HIDE DEF e
      <3> QED
        BY <1>2, <2>5, <3>4, SameStart
    <2>7. \A x : x \in GoesWith(e) <=> x \in a + 1..a + w
      <3>1. GoesWith(e) = e[1]..e[2]
        BY <2>1 DEF GoesWith
      <3> QED
        BY <2>1, <3>1
    <2> HIDE DEF e
    <2>8. y \in Without(D \cup Segments(w)) <=> y \in Without(D) /\ y \notin GoesWith(e)
      BY <2>5, <2>6 DEF Without
    <2>9. ASSUME NEW k \in 1..m PROVE v[k] \in GoesWith(e) <=> b < k
      <3>1. v[k] \in Nat /\ k \in Nat /\ (k = b \/ k < b \/ b < k)
        BY <1>3, <2>3
      <3>2. k < b => v[k] < a
        BY <1>4, <2>1
      <3>3. ASSUME b < k PROVE v[k] \in a + 1..a + w
        <4>1. k - b \in 0..w /\ k - b \in 1..w /\ b + (k - b) = k
          BY ONLY <1>1, <1>2, <2>3, <3>1, <3>3, k \in 1..m
        <4>2. v[k] = a + (k - b)
          BY <2>4, <4>1
        <4> HIDE DEF a
        <4> QED
          BY ONLY <1>1, <2>3, <4>1, <4>2
      <3>4. k = b => v[k] = a
        OBVIOUS
      <3> HIDE DEF a
      <3>5. k = b \/ k < b => v[k] \notin a + 1..a + w
        BY ONLY <1>1, <2>3, <3>1, <3>2, <3>4
      <3>6. k = b \/ k < b => ~(b < k)
        BY ONLY <2>3, <3>1
      <3> QED
        BY <2>7, <3>1, <3>3, <3>5, <3>6
    <2> HIDE DEF a
    <2>10. \A k \in 1..m : k \in 1..n <=> ~(b < k)
      BY ONLY <1>2, <2>1, <2>2, <2>3
    <2>11. 1..n \subseteq 1..m
      BY ONLY <1>2, <2>1, <2>2, <2>3
    <2> QED
      BY <1>3, <1>4, <2>8, <2>9, <2>10, <2>11
  <1>7. CASE ~IsSuffix(Front(sep), p)
    <2>1. n = m
      BY <1>7 DEF DropEnd
    <2>2. ASSUME NEW d \in Segments(w) PROVE d \in D
      <3>1. CASE d[2] < l
        BY <3>1 DEF Inner
      <3>2. CASE d[2] = l
        <4> SUFFICES ASSUME d \notin D PROVE FALSE
          OBVIOUS
        <4>1. d \in DotSegments /\ d[2] = d[1] + w - 1
          BY <1>5
        <4> QED
          BY <1>7, <3>2, <4>1, SegmentSuffix
      <3> QED
        BY <1>5, <3>1, <3>2
    <2>3. D \cup Segments(w) = D
      BY <2>2
    <2> QED
      BY <1>3, <1>4, <2>1, <2>3
  <1> QED
    BY <1>6, <1>7

\* One half of remove_dots takes out the dot segments of its separator.
LEMMA LastPartRemoves ==
  ASSUME RequestInv, Folding, doing \in Halves_, NEW D, Left(D, s, from),
         NEW w, w = Len(Separator) - 2, D \cap Segments(w) = {},
         NEW next, LastPart(Separator, next), from' \in Seq(Nat)
  PROVE  ToSet(from') = Without(D \cup Segments(w))
  <1> DEFINE sep == Separator
             all == Joined(Len(s))
             allFrom == JoinedFrom(Len(s))
             n == DropEnd(all, Front(sep))
             u == [k \in DOMAIN all |-> from[allFrom[k]]]
             E == D \cup Inner(w)
  <1>1. /\ from' = [k \in 1..n |-> from[allFrom[k]]] /\ Occurrences(sep) = {}
    BY DEF LastPart
  <1>2. sep \in DotSeparators
    BY SeparatorNow
  <1>3. /\ s \in Seq(Nat) /\ Len(s) \in Nat /\ Len(s) \in pos..Len(s) /\ DOMAIN s = 1..Len(s)
    BY KeptOf
  <1>4. /\ all \in Seq(Nat) /\ allFrom \in Seq(Nat) /\ Selects(all, s, allFrom)
    BY <1>3, JoinedSelects
  <1>5. /\ path_ \in Seq(Nat) /\ from \in Seq(Nat) /\ Selects(s, path_, from) /\ Scattered
        /\ D \in SUBSET DotSegments /\ DOMAIN path_ = 1..Len(path_)
    BY LenProperties DEF Left
  <1>6. Apart(s, sep)
    <2> HIDE DEF sep
    <2> QED
      BY <1>2, FoundApart
  <1>7. \A x \in 1..Len(s) : x \in ToSet(allFrom) <=> from[x] \in Without(E)
    <2>1. \A x \in 1..Len(s) :
             x \in ToSet(allFrom) <=> \A j \in Found(s, sep) : x \notin Gone(j, Len(sep))
      BY <1>1, <1>6, FoldingEnd
    <2>2. w = Len(sep) - 2
      OBVIOUS
    <2> HIDE DEF sep
    <2>3. \A x \in 1..Len(s) : (\A j \in Found(s, sep) : x \notin Gone(j, Len(sep)))
                                 <=> from[x] \in Without(E)
      BY <1>2, <2>2, InnerGo
    <2> HIDE DEF E, allFrom
    <2> QED
      BY <2>1, <2>3
  <1> HIDE DEF all, allFrom, E, n
  <1>8. Selects(all, path_, u)
    BY <1>3, <1>4, <1>5, SelectsCompose
  <1>9. DOMAIN all = 1..Len(all) /\ DOMAIN allFrom = DOMAIN all /\ Len(allFrom) \in Nat
        /\ DOMAIN allFrom = 1..Len(allFrom) /\ Len(all) \in Nat
    BY <1>4, LenProperties DEF Selects
  <1>10. u \in Seq(Nat) /\ Len(u) = Len(all)
    <2>1. \A k \in 1..Len(all) : u[k] \in Nat
      <3> HIDE DEF u
      <3>1. \A k \in 1..Len(all) : u[k] \in 1..Len(path_)
        BY <1>5, <1>8, <1>9 DEF Selects
      <3>2. Len(path_) \in Nat
        BY <1>5, LenProperties
      <3> QED
        BY <3>1, <3>2
    <2>2. u = [k \in 1..Len(all) |-> u[k]]
      BY <1>9
    <2> HIDE DEF u
    <2>3. u \in [1..Len(all) -> Nat]
      BY <2>1, <2>2
    <2> QED
      BY <1>9, <2>3
  <1>11. \A k \in 1..Len(all) :
           /\ allFrom[k] \in 1..Len(s) /\ allFrom[k] \in ToSet(allFrom)
           /\ u[k] = from[allFrom[k]]
    <2>1. \A k \in 1..Len(all) : allFrom[k] \in 1..Len(s)
      BY <1>3, <1>4, <1>9 DEF Selects
    <2>2. \A k \in 1..Len(all) : allFrom[k] \in ToSet(allFrom)
      BY <1>9 DEF ToSet
    <2> QED
      BY <1>9, <2>1, <2>2
  <1>12. \A k \in 1..Len(all) : u[k] \in Without(E)
    BY <1>7, <1>11
  <1>13. ASSUME NEW y \in Without(E) PROVE \E k \in 1..Len(all) : u[k] = y
    <2>1. y \in Without(D)
      BY DEF Without, E
    <2>2. PICK x \in 1..Len(s) : from[x] = y
      BY ONLY <2>1, Left(D, s, from), LeftFacts
    <2>3. x \in ToSet(allFrom)
      BY <1>7, <2>2
    <2>4. PICK k \in 1..Len(all) : allFrom[k] = x
      BY <1>9, <2>3 DEF ToSet
    <2> QED
      BY <1>11, <2>2, <2>4
  <1>14. ToSet(u) = Without(E)
    <2>1. \A y : y \in ToSet(u) <=> \E k \in 1..Len(all) : u[k] = y
      BY <1>9 DEF ToSet
    <2> HIDE DEF u
    <2> QED
      BY <1>12, <1>13, <2>1
  <1>15. Left(E, all, u)
    <2>1. E \in SUBSET DotSegments
      BY <1>5 DEF E, Inner, Segments
    <2> QED
      BY <1>4, <1>5, <1>8, <1>10, <1>14, <2>1 DEF Left
  <1>16. /\ Inner(w) \subseteq E /\ E \cap Segments(w) \subseteq Inner(w)
         /\ E \cup Segments(w) = D \cup Segments(w)
    <2>1. Inner(w) \subseteq Segments(w)
      BY DEF Inner
    <2> QED
      BY <2>1 DEF E
  <1>17. n \in 0..Len(all)
    <2>1. n = DropEnd(all, Front(sep))
      BY DEF n
    <2> HIDE DEF sep
    <2> QED
      BY <1>2, <1>4, <2>1, DropEndIs
  <1>18. \A y : y \in Without(D \cup Segments(w)) <=> \E k \in 1..n : u[k] = y
    <2>1. n = DropEnd(all, Front(sep)) /\ w = Len(sep) - 2
      BY DEF n
    <2>2. Inner(w) \subseteq E /\ E \cap Segments(w) \subseteq Inner(w)
      BY <1>16
    <2> HIDE DEF sep, u
    <2>3. \A y : y \in Without(E \cup Segments(w)) <=> \E k \in 1..n : u[k] = y
      BY ONLY <1>2, <1>15, <2>1, <2>2, DropEndLeft
    <2> QED
      BY <1>16, <2>3
  <1>19. \A k \in 1..n : u[k] = from'[k]
    <2>1. 1..n \subseteq 1..Len(all)
      BY <1>9, <1>17
    <2> QED
      BY <1>1, <1>9, <2>1
  <1>20. \A y : y \in ToSet(from') <=> \E k \in 1..n : from'[k] = y
    <2>1. DOMAIN from' = 1..n
      BY <1>1
    <2> QED
      BY <2>1 DEF ToSet
  <1> QED
    <2> HIDE DEF u
    <2> QED
      BY <1>18, <1>19, <1>20

LEMMA SameSegments ==
  ASSUME path_' = path_
  PROVE  /\ DotSegments' = DotSegments /\ Segments(1)' = Segments(1)
         /\ Scattered' <=> Scattered
         /\ \A d : GoesWith(d)' = GoesWith(d)
  <1>1. DotSegments' = DotSegments
    BY DEF DotSegments
  <1>2. Segments(1)' = Segments(1)
    BY <1>1 DEF Segments
  <1>3. Scattered' <=> Scattered
    BY <1>1 DEF Scattered
  <1>4. \A d : GoesWith(d)' = GoesWith(d)
    BY DEF GoesWith
  <1> QED
    BY <1>1, <1>2, <1>3, <1>4

LEMMA WithoutNext ==
  ASSUME path_' = path_, NEW R, Removed' = R
  PROVE  Without(Removed)' = Without(R)
  <1>1. \A d : GoesWith(d)' = GoesWith(d)
    BY SameSegments
  <1>2. Without(Removed)' = {x \in DOMAIN path_ : \A d \in R : x \notin GoesWith(d)}
    BY <1>1 DEF Without
  <1> QED
    BY <1>2 DEF Without

LEMMA RemovingNext ==
  ASSUME path_' = path_, NEW R, Removed' = R, doing' # "uri" /\ Scattered => ToSet(from') = Without(R)
  PROVE  Removing'
  <1>1. Without(Removed)' = Without(R)
    BY WithoutNext
  <1>2. Scattered' <=> Scattered
    BY SameSegments
  <1> QED
    BY <1>1, <1>2 DEF Removing

LEMMA RemovedStays ==
  ASSUME Removing, doing # "uri", path_' = path_, from' = from, Removed' = Removed
  PROVE  Removing'
  <1>1. ToSet(from') = ToSet(from)
    OBVIOUS
  <1> QED
    BY <1>1, RemovingNext DEF Removing

\* A half of remove_dots begins with nothing folded.
LEMMA FoldingStart ==
  ASSUME RequestInv', pos' = 0, rc' = <<>>
  PROVE  Folding'
  <1>1. \A j \in Found(s, Separator)' : 0 < j
    <2>1. (s \in Seq(Nat))' /\ (doing \in Halves_ => Separator \in DotSeparators)'
      BY SeparatorNow DEF RequestInv, RequestTypes, Separator, DotSeparators
    <2>2. \A j \in Found(s, Separator)' : j \in (1..Len(s) - Len(Separator) + 1)'
      BY DEF Found
    <2> QED
      BY <2>2
  <1> QED
    BY <1>1 DEF Folding

LEMMA SegmentsAre ==
  ASSUME path_ \in Seq(Nat)
  PROVE  /\ Segments(1) \cup Segments(2) = DotSegments
         /\ Segments(1) \cap Segments(2) = {}
         /\ Segments(1) \subseteq DotSegments
  <1>1. \A d \in DotSegments : /\ d[1] \in Nat /\ d[2] \in Nat
                               /\ d[2] = d[1] \/ d[2] = d[1] + 1
    <2> SUFFICES ASSUME NEW d \in DotSegments
                 PROVE  d[1] \in Nat /\ d[2] \in Nat /\ (d[2] = d[1] \/ d[2] = d[1] + 1)
      OBVIOUS
    <2>1. d[1] \in Nat /\ d[2] \in Nat /\ d[1] <= d[2] /\ d[2] <= d[1] + 1
      BY SegmentIs
    <2> QED
      BY <2>1
  <1>2. \A d \in DotSegments : /\ d[2] = d[1] <=> d[2] = d[1] + 1 - 1
                               /\ d[2] = d[1] + 1 <=> d[2] = d[1] + 2 - 1
                               /\ ~(d[2] = d[1] /\ d[2] = d[1] + 1)
    BY <1>1
  <1> QED
    BY <1>1, <1>2 DEF Segments

LEMMA LeftNow ==
  ASSUME DotsInv, doing # "uri", Scattered, Removed \subseteq DotSegments
  PROVE  Left(Removed, s, from)
  BY DEF DotsInv, RequestInv, RequestTypes, Tracking, Removing, Left

LEMMA DotsParse == DotsInv /\ RequestInv' /\ parse_request => DotsInv'
  <1> SUFFICES ASSUME DotsInv, RequestInv', parse_request PROVE DotsInv'
    OBVIOUS
  <1>1. /\ s' = path_ /\ from' = Through(1, Len(path_)) /\ doing' = "dots"
        /\ path_' = path_ /\ pos' = pos /\ rc' = rc
    BY SamePath DEF parse_request, PathAndQuery, splitn
  <1>2. path_ \in Seq(Nat) /\ pos = 0 /\ rc = <<>>
    <2>1. RequestInv /\ doing = "uri"
      BY DEF DotsInv, parse_request
    <2>2. path_ \in Seq(Nat) /\ s = <<>> /\ pos = 0
      BY <2>1 DEF RequestInv, RequestTypes, Tracking
    <2>3. \A k \in 1..Len(kept) : kept[k] \in 1..Len(s)
      BY <2>1, KeptOf
    <2>4. Len(s) = 0 /\ Len(kept) \in Nat
      BY <2>1, <2>2, KeptOf
    <2>5. Len(kept) > 0 => 1 \in 1..Len(kept)
      BY <2>4
    <2>6. Len(rc) = 0
      BY <2>1, <2>3, <2>4, <2>5, KeptOf
    <2>7. rc \in Seq(Nat)
      BY <2>1, KeptOf
    <2> QED
      BY <2>2, <2>6, <2>7, EmptySeq
  <1>3. Folding'
    BY <1>1, <1>2, FoldingStart
  <1>4. Removed' = {}
    BY <1>1 DEF Removed
  <1>5. ToSet(from') = Without({})
    <2> DEFINE n == Len(path_)
    <2>1. n \in Nat /\ DOMAIN path_ = 1..n
      BY <1>2, LenProperties
    <2>2. 1 \in 1..n + 1 /\ n \in 1 - 1..n
      BY <2>1
    <2>3. ToSet(Through(1, n)) = 1..n
      BY <1>2, <2>2, SelectsStretch
    <2>4. Without({}) = DOMAIN path_
      BY DEF Without
    <2> QED
      BY <1>1, <2>1, <2>3, <2>4
  <1>6. Removing'
    BY <1>1, <1>4, <1>5, RemovingNext
  <1> QED
    BY <1>3, <1>6 DEF DotsInv

LEMMA DotsRemove == DotsInv /\ RequestInv' /\ remove_dots => DotsInv'
  <1> SUFFICES ASSUME DotsInv, RequestInv', remove_dots PROVE DotsInv'
    OBVIOUS
  <1>1. /\ RequestInv /\ Folding /\ Removing /\ doing \in Halves_ /\ doing # "uri"
        /\ path_ \in Seq(Nat) /\ from' \in Seq(Nat)
    BY DEF DotsInv, remove_dots, Halves_, RequestInv, RequestTypes
  <1>2. CASE NextPart(Separator)
    <2>1. Folding'
      BY <1>1, <1>2, FoldingNext
    <2>2. path_' = path_ /\ from' = from /\ doing' = doing
      BY <1>2, SamePath DEF NextPart
    <2>3. Removed' = Removed
      BY <2>2, SameSegments DEF Removed
    <2>4. Removing'
      BY <1>1, <2>2, <2>3, RemovedStays
    <2> QED
      BY <2>1, <2>4 DEF DotsInv
  <1>3. ASSUME NEW next \in {"dotdots", "slashes"}, LastPart(Separator, next),
               NEW w, w = Len(Separator) - 2, NEW D, D = Removed,
               D \subseteq DotSegments, D \cap Segments(w) = {},
               Removed' = D \cup Segments(w)
        PROVE  DotsInv'
    <2>1. pos' = 0 /\ rc' = <<>> /\ path_' = path_ /\ doing' = next
      BY <1>3, SamePath DEF LastPart
    <2>2. Folding'
      BY <2>1, FoldingStart
    <2>3. ASSUME Scattered PROVE ToSet(from') = Without(D \cup Segments(w))
      <3>1. Left(D, s, from)
        BY <1>1, <1>3, <2>3, LeftNow
      <3> QED
        BY <1>1, <1>3, <3>1, LastPartRemoves
    <2>4. Removing'
      <3> DEFINE R == D \cup Segments(w)
      <3>1. Removed' = R /\ (doing' # "uri" /\ Scattered => ToSet(from') = Without(R))
        BY <1>3, <2>3
      <3> HIDE DEF R
      <3> QED
        BY <2>1, <3>1, RemovingNext
    <2> QED
      BY <2>2, <2>4 DEF DotsInv
  <1>4. Segments(1)' = Segments(1) /\ DotSegments' = DotSegments
    <2>1. path_' = path_
      BY SamePath DEF remove_dots, NextPart, LastPart
    <2> QED
      BY <2>1, SameSegments
  <1>5. CASE doing = "dots" /\ LastPart(SlashDotSlash, "dotdots")
    <2>1. Separator = SlashDotSlash /\ Len(Separator) = 3 /\ 1 = Len(Separator) - 2
      BY <1>5 DEF Separator, SlashDotSlash
    <2>2. Removed = {}
      BY <1>5 DEF Removed
    <2>3. doing' = "dotdots"
      BY <1>5 DEF LastPart
    <2>4. Removed' = {} \cup Segments(1)
      BY <1>4, <2>3 DEF Removed
    <2> QED
      BY <1>3, <1>5, <2>1, <2>2, <2>4
  <1>6. CASE doing = "dotdots" /\ LastPart(SlashDotsSlash, "slashes")
    <2>1. Separator = SlashDotsSlash /\ Len(Separator) = 4 /\ 2 = Len(Separator) - 2
      BY <1>6 DEF Separator, SlashDotsSlash
    <2>2. Removed = Segments(1)
      BY <1>6 DEF Removed
    <2>3. doing' = "slashes"
      BY <1>6 DEF LastPart
    <2>4. Removed' = Segments(1) \cup Segments(2)
      BY <1>1, <1>4, <2>3, SegmentsAre DEF Removed
    <2>5. Segments(1) \subseteq DotSegments /\ Segments(1) \cap Segments(2) = {}
      BY <1>1, SegmentsAre
    <2> QED
      BY <1>3, <1>6, <2>1, <2>2, <2>4, <2>5
  <1>7. CASE doing = "dots" /\ NextPart(SlashDotSlash)
    BY <1>2, <1>7 DEF Separator
  <1>8. CASE doing = "dotdots" /\ NextPart(SlashDotsSlash)
    BY <1>2, <1>8 DEF Separator
  <1> QED
    BY <1>5, <1>6, <1>7, <1>8 DEF remove_dots

\* For a uri of any length: the separators that are apart are found one after the other,
\* and the dot segments of each half of remove_dots have gone when it ends.
THEOREM DotsInvariant == RequestSpec => []DotsInv
  <1>1. RequestInit => DotsInv
    <2> SUFFICES ASSUME RequestInit PROVE DotsInv
      OBVIOUS
    <2>1. doing = "uri"
      BY DEF RequestInit
    <2> QED
      BY <2>1, RequestInitInv DEF DotsInv, Folding, Halves_, Removing
  <1>2. DotsInv /\ [RequestNext]_requestVars => DotsInv'
    <2> SUFFICES ASSUME DotsInv, [RequestNext]_requestVars PROVE DotsInv'
      OBVIOUS
    <2>1. RequestInv /\ RequestInv'
      BY RequestStep DEF DotsInv
    <2>2. ASSUME remove_slashes \/ Parsed PROVE DotsInv'
      <3>1. /\ doing \in {"slashes", "slash"} /\ doing' \in {"slashes", "slash", "done"}
            /\ path_' = path_ /\ from' = from
        BY <2>2, SamePath DEF remove_slashes, Parsed, Continue
      <3>2. Folding'
        BY <3>1 DEF Folding, Halves_
      <3>3. Removed' = Removed
        BY <3>1, SameSegments DEF Removed
      <3>4. Removing'
        BY <3>1, <3>3, RemovedStays DEF DotsInv
      <3> QED
        BY <2>1, <3>2, <3>4 DEF DotsInv
    <2>3. CASE UNCHANGED requestVars
      <3>1. /\ path_' = path_ /\ doing' = doing /\ s' = s /\ pos' = pos /\ rc' = rc
            /\ from' = from /\ kept' = kept
        BY <2>3, SamePath DEF requestVars
      <3>2. Folding'
        BY <3>1 DEF DotsInv, Folding, Apart, Found, Separator
      <3>3. Removed' = Removed
        BY <3>1, SameSegments DEF Removed
      <3>4. Removing'
        <4>1. CASE doing = "uri"
          BY <3>1, <4>1 DEF Removing
        <4>2. CASE doing # "uri"
          BY <3>1, <3>3, <4>2, RemovedStays DEF DotsInv
        <4> QED
          BY <4>1, <4>2
      <3> QED
        BY <2>1, <3>2, <3>4 DEF DotsInv
    <2> QED
      BY <2>1, <2>2, <2>3, DotsParse, DotsRemove DEF RequestNext
  <1> QED
    BY <1>1, <1>2, PTL DEF RequestSpec

\* Dot segments that are not next to one another, in a path without empty segments within,
\* all go, and nothing else does, for a uri of any length: the two halves of remove_dots,
\* with the separators found from left to right and the dot segment at the end.
THEOREM DotSegmentsAreGone == RequestSpec => []DotSegmentsGo
  <1>1. DotsInv => DotSegmentsGo
    <2> SUFFICES ASSUME DotsInv, doing \in {"slashes", "slash", "done"}, Scattered
                 PROVE  /\ Selects(s, path_, from)
                        /\ ToSet(from) = (DOMAIN path_) \ UNION {GoesWith(d) : d \in DotSegments}
      BY DEF DotSegmentsGo
    <2>1. Selects(s, path_, from)
      BY DEF DotsInv, RequestInv, Tracking
    <2>2. Removed = DotSegments
      BY DEF Removed
    <2>3. ToSet(from) = Without(DotSegments)
      BY <2>2 DEF DotsInv, Removing
    <2>4. Without(DotSegments) = (DOMAIN path_) \ UNION {GoesWith(d) : d \in DotSegments}
      BY DEF Without
    <2> QED
      BY <2>1, <2>3, <2>4
  <1> QED
    BY <1>1, DotsInvariant, PTL

\* Of a path that is a slash all that is left is a slash.
LEMMA OnlySlash ==
  ASSUME NEW part \in Seq(Nat), NEW where, Selects(part, <<Slash>>, where),
         ToSet(where) = {1}
  PROVE  part = <<Slash>>
  <1> DEFINE n == Len(part)
  <1>1. n \in Nat /\ DOMAIN part = 1..n /\ DOMAIN where = 1..n
    BY LenProperties DEF Selects
  <1>2. \A k \in 1..n : where[k] = 1 /\ part[k] = Slash
    BY <1>1 DEF Selects
  <1>3. 1 \in 1..n
    BY <1>1 DEF ToSet
  <1>4. 2 \notin 1..n
    BY <1>1, <1>2, <1>3 DEF Selects
  <1>5. n = 1
    BY <1>1, <1>3, <1>4
  <1> QED
    BY <1>2, <1>5

\* The path that a request is answered by has no empty segments within.  For a uri of any
\* length over any characters it has lost nothing but slashes and dots, unless the uri is
\* absolute: then it is a slash, whatever path the uri has.  parse_request, whose
\* splitn(1, ..) splits nothing, and remove_dots and remove_slashes of utils.rs.
THEOREM PathIsNormal == RequestSpec => []PathNormal
  <1>1. RequestInv /\ DotSegmentsGo /\ SlashesCollapsed => PathNormal
    <2> SUFFICES ASSUME RequestInv, DotSegmentsGo, SlashesCollapsed, doing = "done"
                 PROVE  /\ \A k \in 1..Len(rc) - 1 : <<rc[k], rc[k + 1]>> # <<Slash, Slash>>
                        /\ absolute => rc = <<Slash>>
                        /\ ~absolute =>
                             /\ Selects(rc, uri_, [k \in DOMAIN kept |-> from[kept[k]]])
                             /\ LosesSeparators(uri_, [k \in DOMAIN kept |-> from[kept[k]]])
      BY DEF PathNormal
    <2>1. DOMAIN kept = DOMAIN rc /\ Selects(rc, s, kept) /\ DOMAIN s = 1..Len(s)
      BY KeptOf
    <2>2. LosesSeparators(s, kept)
      BY <2>1 DEF RequestInv, Squeezing, LosesSeparators
    <2>3. /\ path_ \in Seq(Nat) /\ s \in Seq(Nat) /\ rc \in Seq(Nat)
          /\ Selects(s, path_, from) /\ LosesSeparators(path_, from)
      BY DEF RequestInv, RequestTypes, Tracking
    <2>4. /\ Selects(rc, path_, [k \in DOMAIN rc |-> from[kept[k]]])
          /\ LosesSeparators(path_, [k \in DOMAIN rc |-> from[kept[k]]])
      BY <2>1, <2>2, <2>3, SelectsCompose, LosesCompose
    <2>5. ASSUME absolute PROVE rc = <<Slash>>
      <3>1. path_ = <<Slash>> /\ DOMAIN path_ = {1} /\ Len(path_) = 1
        BY <2>5, PathIs
      <3>2. DotSegments = {}
        BY <3>1 DEF DotSegments
      <3>3. Scattered
        BY <3>1, <3>2 DEF Scattered
      <3>4. ToSet(from) = {1}
        BY <3>1, <3>2, <3>3 DEF DotSegmentsGo
      <3>5. s = <<Slash>> /\ DOMAIN s = {1}
        BY <2>3, <3>1, <3>4, OnlySlash
      <3>6. ToSet(kept) = {1}
        BY <3>5 DEF SlashesCollapsed
      <3> QED
        BY <2>1, <2>3, <3>5, <3>6, OnlySlash
    <2>6. ~absolute => path_ = uri_
      BY PathIs
    <2> QED
      BY <2>1, <2>4, <2>5, <2>6 DEF RequestInv, Squeezing
  <1> QED
    BY <1>1, RequestInvariant, DotSegmentsAreGone, SlashesAreCollapsed, PTL

=============================================================================
