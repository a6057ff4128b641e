------------------------------ MODULE LogProofs -----------------------------
(***************************************************************************)
(* The log for any capacity and any sequence of lines: what its clients    *)
(* read is the tail of what was logged, each repeat counted once.          *)
(***************************************************************************)
EXTENDS Log, FiniteSetTheorems, SequenceTheorems, TLAPS

Entry == [count : Nat, line : Lines]

Types == buf_ \in Seq(Entry) /\ logged \in Seq(Lines)

\* The last entry is the last line, which has been logged since the last start.
Newest ==
  /\ logged # <<>> => buf_ # <<>> /\ buf_[Len(buf_)].line = logged[Len(logged)]
  /\ \A i \in DOMAIN logged :
       (\A j \in Starts : j <= i) => logged[i] = logged[Len(logged)]

IInv == Types /\ Newest /\ LogIsTail

-----------------------------------------------------------------------------
(* Runs of equal lines.                                                    *)

Since_(S, i) == {j \in S : j >= i}

Again(i) == {j \in DOMAIN logged : j > i /\ \A k \in i..j : logged[k] = logged[i]}

LEMMA RunTypes ==
  ASSUME Types
  PROVE  /\ Len(logged) \in Nat /\ DOMAIN logged = 1..Len(logged)
         /\ IsFiniteSet(Starts) /\ Cardinality(Starts) \in Nat
         /\ Starts \subseteq 1..Len(logged)
         /\ \A i \in Starts : /\ IsFiniteSet(Since_(Starts, i)) /\ Since(i) \in Nat
                              /\ Since(i) = Cardinality(Since_(Starts, i))
                              /\ Since(i) >= 1 /\ Since(i) <= Cardinality(Starts)
         /\ \A i \in DOMAIN logged : /\ IsFiniteSet(Again(i)) /\ Repeats(i) \in Nat
                                     /\ Repeats(i) = Cardinality(Again(i))
  <1>1. Len(logged) \in Nat /\ DOMAIN logged = 1..Len(logged)
    BY LenProperties DEF Types
  <1>2. IsFiniteSet(1..Len(logged))
    BY <1>1, FS_Interval
  <1>3. Starts \subseteq 1..Len(logged)
    BY <1>1 DEF Starts
  <1>4. IsFiniteSet(Starts) /\ Cardinality(Starts) \in Nat
    BY <1>2, <1>3, FS_Subset, FS_CardinalityType
  <1>5. ASSUME NEW i \in Starts
        PROVE  /\ IsFiniteSet(Since_(Starts, i)) /\ Since(i) \in Nat
               /\ Since(i) = Cardinality(Since_(Starts, i))
               /\ Since(i) >= 1 /\ Since(i) <= Cardinality(Starts)
    <2>1. Since_(Starts, i) \subseteq Starts /\ i \in Since_(Starts, i)
      BY <1>3 DEF Since_
    <2>2. /\ IsFiniteSet(Since_(Starts, i))
          /\ Cardinality(Since_(Starts, i)) \in Nat
          /\ Cardinality(Since_(Starts, i)) <= Cardinality(Starts)
      BY <1>4, <2>1, FS_Subset, FS_CardinalityType
    <2>3. Cardinality(Since_(Starts, i)) # 0
      BY <2>1, <2>2, FS_EmptySet
    <2>4. Since(i) = Cardinality(Since_(Starts, i))
      BY DEF Since, Since_
    <2> QED
      BY <2>2, <2>3, <2>4
  <1>6. ASSUME NEW i \in DOMAIN logged
        PROVE  /\ IsFiniteSet(Again(i)) /\ Repeats(i) \in Nat
               /\ Repeats(i) = Cardinality(Again(i))
    <2>1. Again(i) \subseteq 1..Len(logged)
      BY <1>1 DEF Again
    <2>2. Repeats(i) = Cardinality(Again(i))
      BY DEF Repeats, Again
    <2> QED
      BY <1>2, <2>1, <2>2, FS_Subset, FS_CardinalityType
  <1> QED
    BY <1>1, <1>3, <1>4, <1>5, <1>6

\* The last start has none after it.
LEMMA LastStart ==
  ASSUME Types, NEW i \in Starts
  PROVE  /\ Since(i) = 1 => \A j \in Starts : j <= i
         /\ Since(i) # 1 => \E j \in Starts : j > i
  <1>1. /\ IsFiniteSet(Since_(Starts, i)) /\ Since(i) = Cardinality(Since_(Starts, i))
        /\ Starts \subseteq Nat /\ i \in Since_(Starts, i)
    <2>1. Starts \subseteq 1..Len(logged) /\ Len(logged) \in Nat
      BY RunTypes
    <2>2. Starts \subseteq Nat
      BY <2>1
    <2> QED
      BY <2>2, RunTypes DEF Since_
  <1>2. ASSUME NEW j \in Starts, j > i PROVE Since(i) # 1
    <2>1. j \in Since_(Starts, i) /\ j # i
      BY <1>1, <1>2 DEF Since_
    <2>2. {i, j} \subseteq Since_(Starts, i) /\ IsFiniteSet({i})
      BY <1>1, <2>1, FS_Singleton
    <2>3. Cardinality({i} \cup {j}) = 2 /\ IsFiniteSet({i} \cup {j})
      <3>1. Cardinality({i}) = 1 /\ j \notin {i}
        BY <2>1, FS_Singleton
      <3>2. /\ IsFiniteSet({i} \cup {j})
            /\ Cardinality({i} \cup {j}) = IF j \in {i} THEN Cardinality({i})
                                           ELSE Cardinality({i}) + 1
        BY <2>2, FS_AddElement
      <3> QED
        BY <3>1, <3>2
    <2>4. {i} \cup {j} = {i, j}
      OBVIOUS
    <2>5. 2 <= Cardinality(Since_(Starts, i))
      BY <1>1, <2>2, <2>3, <2>4, FS_Subset
    <2> QED
      BY <1>1, <2>5
  <1>3. ASSUME \A j \in Starts : ~(j > i) PROVE Since(i) = 1
    <2>1. \A j \in Starts : j >= i => j = i
      BY <1>1, <1>3
    <2>2. Since_(Starts, i) = {i}
      BY <1>1, <2>1 DEF Since_
    <2> QED
      BY <1>1, <2>2, FS_Singleton
  <1> QED
    BY <1>1, <1>2, <1>3

-----------------------------------------------------------------------------
LEMMA InitIInv == Init => IInv
  <1> SUFFICES ASSUME Init PROVE IInv
    OBVIOUS
  <1>1. Types
    BY DEF Init, Types
  <1>2. DOMAIN logged = {} /\ Len(buf_) = 0
    BY DEF Init
  <1>3. Starts = {}
    BY <1>2 DEF Starts
  <1>4. Newest
    BY <1>2 DEF Init, Newest
  <1>5. Cardinality(Starts) = 0
    BY <1>3, FS_EmptySet
  <1>6. LogIsTail
    BY <1>2, <1>3, <1>5, LogAssumption DEF LogIsTail
  <1> QED
    BY <1>1, <1>4, <1>6 DEF IInv

\* The lines after one more.
LEMMA Lengthened ==
  ASSUME Types, NEW s \in Lines, logged' = Append(logged, s)
  PROVE  /\ logged' \in Seq(Lines) /\ Len(logged') = Len(logged) + 1
         /\ DOMAIN logged' = 1..Len(logged) + 1
         /\ \A i \in 1..Len(logged) : logged'[i] = logged[i]
         /\ logged'[Len(logged) + 1] = s
         /\ logged' # <<>>
  BY AppendProperties, LenProperties DEF Types

\* The runs after a line that is not the last.
LEMMA NewRun ==
  ASSUME Types, NEW s \in Lines, logged' = Append(logged, s),
         logged = <<>> \/ logged[Len(logged)] # s, NEW n, n = Len(logged)
  PROVE  /\ Starts' = Starts \cup {n + 1}
         /\ Cardinality(Starts') = Cardinality(Starts) + 1
         /\ \A i \in Starts : Since(i)' = Since(i) + 1 /\ Repeats(i)' = Repeats(i)
         /\ Since(n + 1)' = 1 /\ Repeats(n + 1)' = 0
  <1>1. /\ n \in Nat /\ DOMAIN logged = 1..n /\ DOMAIN logged' = 1..n + 1
        /\ \A i \in 1..n : logged'[i] = logged[i]
        /\ logged'[n + 1] = s /\ n # 0 => logged'[n + 1] # logged'[n]
        /\ IsFiniteSet(Starts) /\ Starts \subseteq 1..n
    <2>1. n # 0 => logged # <<>> /\ n \in 1..n
      BY RunTypes
    <2> QED
      BY <2>1, RunTypes, Lengthened
  <1>2. Starts' = Starts \cup {n + 1}
    <2>1. ASSUME NEW i \in 1..n PROVE i \in Starts' <=> i \in Starts
      <3>1. i \in 1..n + 1 /\ (i = 1 \/ i - 1 \in 1..n)
        BY <1>1
      <3> QED
        BY <1>1, <3>1 DEF Starts
    <2>2. n + 1 \in Starts'
      <3>1. n + 1 = 1 \/ (n # 0 /\ n + 1 - 1 = n)
        BY <1>1
      <3> QED
        BY <1>1, <3>1 DEF Starts
    <2>3. Starts' \subseteq 1..n + 1
      BY <1>1 DEF Starts
    <2>4. \A i \in 1..n + 1 : i \in 1..n \/ i = n + 1
      BY <1>1
    <2> QED
      BY <1>1, <2>1, <2>2, <2>3, <2>4
  <1>3. n + 1 \notin Starts
    BY <1>1
  <1>4. Cardinality(Starts') = Cardinality(Starts) + 1
    BY <1>1, <1>2, <1>3, FS_AddElement
  <1>5. ASSUME NEW i \in Starts PROVE Since(i)' = Since(i) + 1 /\ Repeats(i)' = Repeats(i)
    <2>1. Since_(Starts', i) = Since_(Starts, i) \cup {n + 1} /\ n + 1 \notin Since_(Starts, i)
      BY <1>1, <1>2 DEF Since_
    <2>2. Since(i)' = Cardinality(Since_(Starts', i))
      BY DEF Since, Since_
    <2>3. Since(i)' = Since(i) + 1
      BY <2>1, <2>2, RunTypes, FS_AddElement
    <2>4. i \in 1..n /\ n \in i..n + 1 /\ n + 1 \in i..n + 1 /\ n # 0
      BY <1>1
    <2>5. \A j \in 1..n : i..j \subseteq 1..n
      BY <1>1, <2>4
    <2>6. Again(i)' = Again(i)
      BY <1>1, <2>4, <2>5 DEF Again
    <2>7. Repeats(i)' = Cardinality(Again(i)')
      BY DEF Repeats, Again
    <2> QED
      BY <1>1, <2>3, <2>4, <2>6, <2>7, RunTypes
  <1>6. Since(n + 1)' = 1
    <2> \A j \in Starts' : j >= n + 1 <=> j = n + 1
      BY <1>1, <1>2
    <2>1. Since_(Starts', n + 1) = {n + 1}
      BY <1>2 DEF Since_
    <2>2. Since(n + 1)' = Cardinality(Since_(Starts', n + 1))
      BY DEF Since, Since_
    <2> QED
      BY <2>1, <2>2, FS_Singleton
  <1>7. Repeats(n + 1)' = 0
    <2>1. Again(n + 1)' = {}
      BY <1>1 DEF Again
    <2>2. Repeats(n + 1)' = Cardinality(Again(n + 1)')
      BY DEF Repeats, Again
    <2> QED
      BY <2>1, <2>2, FS_EmptySet
  <1> QED
    BY <1>2, <1>4, <1>5, <1>6, <1>7

\* The runs after a repeat of the last line: the last of them has become longer.
LEMMA SameRun ==
  ASSUME Types, Newest, NEW s \in Lines, logged' = Append(logged, s),
         logged # <<>>, logged[Len(logged)] = s
  PROVE  /\ Starts' = Starts
         /\ \A i \in Starts : /\ Since(i)' = Since(i)
                              /\ Repeats(i)' = IF Since(i) = 1 THEN Repeats(i) + 1
                                               ELSE Repeats(i)
  <1> DEFINE n == Len(logged)
  <1>1. /\ n \in Nat \ {0} /\ DOMAIN logged = 1..n /\ DOMAIN logged' = 1..n + 1
        /\ \A i \in 1..n : logged'[i] = logged[i]
        /\ logged'[n + 1] = s /\ logged[n] = s
        /\ IsFiniteSet(Starts) /\ Starts \subseteq 1..n
    BY RunTypes, Lengthened, EmptySeq DEF Types
  <1>2. \A i \in 1..n : (\A j \in Starts : j <= i) => logged[i] = s
    BY <1>1 DEF Newest
  <1> HIDE DEF n
  <1>3. Starts' = Starts
    <2>1. ASSUME NEW i \in 1..n PROVE i \in Starts' <=> i \in Starts
      <3>1. i \in 1..n + 1 /\ (i = 1 \/ i - 1 \in 1..n)
        BY <1>1
      <3> QED
        BY <1>1, <3>1 DEF Starts
    <2>2. n + 1 \notin Starts'
      <3>1. n + 1 # 1 /\ n + 1 - 1 = n /\ n \in 1..n
        BY <1>1
      <3> QED
        BY <1>1, <3>1 DEF Starts
    <2>3. Starts' \subseteq 1..n + 1
      BY <1>1 DEF Starts
    <2>4. \A i \in 1..n + 1 : i \in 1..n \/ i = n + 1
      BY <1>1
    <2> QED
      BY <1>1, <2>1, <2>2, <2>3, <2>4
  <1>4. ASSUME NEW i \in Starts PROVE Since(i)' = Since(i)
    BY <1>3 DEF Since
  <1>5. ASSUME NEW i \in Starts, Since(i) = 1 PROVE Repeats(i)' = Repeats(i) + 1
    <2>1. \A j \in Starts : j <= i
      BY <1>5, LastStart
    <2>2. i \in 1..n /\ \A k \in i..n : logged[k] = s
      <3>1. ASSUME NEW k \in i..n PROVE k \in 1..n /\ \A j \in Starts : j <= k
        BY <1>1, <2>1
      <3> QED
        BY <1>1, <1>2, <3>1
    <2>3. \A k \in i..n + 1 : logged'[k] = s
      <3>1. \A k \in i..n + 1 : k = n + 1 \/ (k \in i..n /\ k \in 1..n)
        BY <1>1, <2>2
      <3> QED
        BY <1>1, <2>2, <3>1
    <2>4. logged[i] = s /\ logged'[i] = s /\ n + 1 > i
      BY <1>1, <2>2
    <2>5. Again(i) = {j \in 1..n : j > i}
      <3>1. \A j \in 1..n : i..j \subseteq i..n
        BY <1>1, <2>2
      <3> QED
        BY <1>1, <2>2, <2>4, <3>1 DEF Again
    <2>6. Again(i)' = {j \in 1..n + 1 : j > i}
      <3>1. \A j \in 1..n + 1 : i..j \subseteq i..n + 1
        BY <1>1, <2>2
      <3> QED
        BY <1>1, <2>3, <2>4, <3>1 DEF Again
    <2>7. Again(i)' = Again(i) \cup {n + 1} /\ n + 1 \notin Again(i)
      BY <1>1, <2>4, <2>5, <2>6
    <2>8. Repeats(i)' = Cardinality(Again(i)')
      BY DEF Repeats, Again
    <2>9. IsFiniteSet(Again(i)) /\ Repeats(i) = Cardinality(Again(i))
      BY <1>1, <2>2, RunTypes
    <2> QED
      BY <2>7, <2>8, <2>9, FS_AddElement
  <1>6. ASSUME NEW i \in Starts, Since(i) # 1 PROVE Repeats(i)' = Repeats(i)
    <2>1. PICK j \in Starts : j > i
      BY <1>6, LastStart
    <2>2. /\ i \in 1..n /\ j \in 1..n /\ j - 1 \in 1..n /\ logged[j] # logged[j - 1]
          /\ j \in i..n + 1 /\ j - 1 \in i..n + 1
      BY <1>1, <2>1 DEF Starts
    <2>3. n + 1 \notin Again(i)'
      BY <1>1, <2>2 DEF Again
    <2>4. \A k \in 1..n : i..k \subseteq 1..n
      BY <1>1, <2>2
    <2>5. \A k \in 1..n : k \in Again(i)' <=> k \in Again(i)
      BY <1>1, <2>2, <2>4 DEF Again
    <2>6. Again(i) \subseteq 1..n /\ Again(i)' \subseteq 1..n + 1
      BY <1>1 DEF Again
    <2>7. \A k \in 1..n + 1 : k \in 1..n \/ k = n + 1
      BY <1>1
    <2>8. Again(i)' = Again(i)
      BY <2>3, <2>5, <2>6, <2>7
    <2>9. Repeats(i)' = Cardinality(Again(i)')
      BY DEF Repeats, Again
    <2> QED
      BY <1>1, <2>2, <2>8, <2>9, RunTypes
  <1> QED
    BY <1>3, <1>4, <1>5, <1>6

-----------------------------------------------------------------------------
(* One more line.                                                          *)

LEMMA RepeatStep ==
  ASSUME IInv, NEW s \in Lines, logged' = Append(logged, s), log(s), Repeated(s)
  PROVE  IInv'
  <1>1. /\ Len(buf_) \in Nat \ {0} /\ buf_ \in Seq(Entry) /\ DOMAIN buf_ = 1..Len(buf_)
        /\ buf_[Len(buf_)] \in Entry /\ buf_[Len(buf_)].line = s
    BY LenProperties, EmptySeq DEF IInv, Types, Repeated, Last
  <1>2. logged # <<>>
    <2>1. Cardinality(Starts) # 0
      BY <1>1, RunTypes, LogAssumption DEF IInv, LogIsTail
    <2>2. Starts # {}
      BY <2>1, FS_EmptySet
    <2> QED
      BY <2>2 DEF Starts
  <1>3. logged[Len(logged)] = s
    BY <1>1, <1>2 DEF IInv, Newest
  <1>4. /\ Starts' = Starts
        /\ \A i \in Starts : /\ Since(i)' = Since(i)
                             /\ Repeats(i)' = IF Since(i) = 1 THEN Repeats(i) + 1
                                              ELSE Repeats(i)
    BY <1>2, <1>3, SameRun DEF IInv
  <1>5. /\ logged' \in Seq(Lines) /\ Len(logged') = Len(logged) + 1
        /\ DOMAIN logged = 1..Len(logged) /\ DOMAIN logged' = 1..Len(logged) + 1
        /\ \A i \in 1..Len(logged) : logged'[i] = logged[i]
        /\ logged'[Len(logged) + 1] = s /\ logged' # <<>> /\ Len(logged) \in Nat
    BY Lengthened, RunTypes DEF IInv
  <1>6. /\ buf_' \in Seq(Entry) /\ Len(buf_') = Len(buf_) /\ buf_' # <<>>
        /\ DOMAIN buf_' = 1..Len(buf_)
        /\ \A k \in 1..Len(buf_) \ {Len(buf_)} : buf_'[k] = buf_[k]
        /\ buf_'[Len(buf_)] = [count |-> buf_[Len(buf_)].count + 1, line |-> s]
    <2> DEFINE m == Len(buf_)
               e == [count |-> buf_[m].count + 1, line |-> s]
    <2>1. buf_' = [buf_ EXCEPT ![m].count = @ + 1]
      BY DEF log, Count
    <2>2. [buf_[m] EXCEPT !.count = @ + 1] = e /\ e \in Entry
      BY <1>1 DEF Entry
    <2>3. buf_' = [buf_ EXCEPT ![m] = e]
      BY <2>1, <2>2
    <2> HIDE DEF e
    <2>4. m \in 1..m
      BY <1>1
    <2>5. buf_' \in Seq(Entry) /\ Len(buf_') = m /\ DOMAIN buf_' = 1..m
      BY <1>1, <2>2, <2>3, <2>4, ExceptSeq
    <2>6. buf_' # <<>>
      BY <1>1, <2>5
    <2>7. buf_'[m] = e /\ \A k \in 1..m \ {m} : buf_'[k] = buf_[k]
      BY <1>1, <2>3, <2>4
    <2> QED
      BY <2>5, <2>6, <2>7 DEF e
  <1>7. Types'
    BY <1>5, <1>6 DEF Types
  <1>8. Newest'
    <2>1. ASSUME NEW i \in DOMAIN logged', \A j \in Starts : j <= i
          PROVE  logged'[i] = s
      <3>1. i \in 1..Len(logged) \/ i = Len(logged) + 1
        BY <1>5, <2>1
      <3>2. CASE i \in 1..Len(logged)
        <4>1. logged[i] = logged[Len(logged)]
          BY <1>5, <2>1, <3>2 DEF IInv, Newest
        <4> QED
          BY <1>3, <1>5, <3>2, <4>1
      <3> QED
        BY <1>5, <3>1, <3>2
    <2>2. buf_'[Len(buf_')].line = s /\ logged'[Len(logged')] = s
      <3>1. buf_'[Len(buf_')] = [count |-> buf_[Len(buf_)].count + 1, line |-> s]
        BY <1>6, Zenon
      <3>2. logged'[Len(logged')] = s
        BY <1>5, Zenon
      <3> QED
        BY <3>1, <3>2
    <2>3. \A i \in DOMAIN logged' : (\A j \in Starts' : j <= i) => logged'[i] = s
      BY <1>4, <2>1
    <2> QED
      BY <1>6, <2>2, <2>3 DEF Newest
  <1>9. LogIsTail'
    <2>1. Len(buf_') = IF Cardinality(Starts') > Capacity THEN Capacity + 1
                       ELSE Cardinality(Starts')
      BY <1>4, <1>6 DEF IInv, LogIsTail
    <2>2. ASSUME NEW i \in Starts, Since(i)' <= Capacity + 1
          PROVE  buf_'[Len(buf_') + 1 - Since(i)'] = [count |-> Repeats(i)', line |-> logged'[i]]
      <3>1. /\ Since(i) \in Nat /\ Since(i) >= 1 /\ Since(i) <= Cardinality(Starts)
            /\ Cardinality(Starts) \in Nat /\ i \in 1..Len(logged)
        BY RunTypes DEF IInv
      <3>2. buf_[Len(buf_) + 1 - Since(i)] = [count |-> Repeats(i), line |-> logged[i]]
        BY <1>4, <2>2 DEF IInv, LogIsTail
      <3>3. Len(buf_) + 1 - Since(i) \in 1..Len(buf_)
        <4>1. Len(buf_) = IF Cardinality(Starts) > Capacity THEN Capacity + 1
                          ELSE Cardinality(Starts)
          BY DEF IInv, LogIsTail
        <4>2. Capacity \in Nat /\ Since(i) <= Capacity + 1
          BY <1>4, <2>2, LogAssumption
        <4> QED
          BY ONLY <3>1, <4>1, <4>2
      <3>4. logged'[i] = logged[i]
        BY <1>5, <3>1
      <3>5. CASE Since(i) = 1
        <4>1. Len(buf_) + 1 - Since(i) = Len(buf_)
          BY <1>1, <3>5
        <4>2. buf_[Len(buf_)].count = Repeats(i) /\ logged[i] = s
          BY <1>1, <3>2, <4>1
        <4> QED
          BY <1>4, <1>6, <3>4, <3>5, <4>1, <4>2
      <3>6. CASE Since(i) # 1
        <4>1. Len(buf_) + 1 - Since(i) # Len(buf_)
          BY <1>1, <3>1, <3>6
        <4> QED
          BY <1>4, <1>6, <3>2, <3>3, <3>4, <3>6, <4>1
      <3> QED
        BY <3>5, <3>6
    <2> QED
      BY <1>4, <2>1, <2>2 DEF LogIsTail
  <1> QED
    BY <1>7, <1>8, <1>9 DEF IInv

LEMMA NewStep ==
  ASSUME IInv, NEW s \in Lines, logged' = Append(logged, s), log(s), ~Repeated(s)
  PROVE  IInv'
  <1> DEFINE new == [count |-> 0, line |-> s]
             rest == IF Full THEN Tail(buf_) ELSE buf_
             runs == Cardinality(Starts)
  <1>1. /\ Len(buf_) \in Nat /\ buf_ \in Seq(Entry) /\ DOMAIN buf_ = 1..Len(buf_)
        /\ runs \in Nat /\ Len(buf_) = IF runs > Capacity THEN Capacity + 1 ELSE runs
    BY LenProperties, RunTypes DEF IInv, Types, LogIsTail
  <1>2. new \in Entry
    BY DEF Entry
  <1>3. logged = <<>> \/ logged[Len(logged)] # s
    BY DEF IInv, Newest, Repeated, Last
  <1>4. PICK n : n = Len(logged)
    OBVIOUS
  <1>5. /\ logged' \in Seq(Lines) /\ Len(logged') = n + 1
        /\ DOMAIN logged = 1..n /\ DOMAIN logged' = 1..n + 1
        /\ \A i \in 1..n : logged'[i] = logged[i]
        /\ logged'[n + 1] = s /\ logged' # <<>> /\ n \in Nat /\ Starts \subseteq 1..n
    BY <1>4, Lengthened, RunTypes DEF IInv
  <1>6. /\ Starts' = Starts \cup {n + 1} /\ Cardinality(Starts') = runs + 1
        /\ \A i \in Starts : Since(i)' = Since(i) + 1 /\ Repeats(i)' = Repeats(i)
        /\ Since(n + 1)' = 1 /\ Repeats(n + 1)' = 0
    BY <1>3, <1>4, NewRun DEF IInv
  <1>7. /\ rest \in Seq(Entry) /\ Len(rest) \in Nat
        /\ Len(rest) = IF Full THEN Capacity ELSE Len(buf_)
        /\ Full => \A k \in 1..Len(rest) : rest[k] = buf_[k + 1]
        /\ ~Full => rest = buf_
    <2>1. CASE Full
      <3>1. Len(buf_) = Capacity + 1 /\ buf_ # <<>>
        BY <1>1, <2>1, LogAssumption DEF Full
      <3>2. /\ Tail(buf_) \in Seq(Entry) /\ Len(Tail(buf_)) = Capacity
            /\ \A k \in 1..Capacity : Tail(buf_)[k] = buf_[k + 1]
        BY <1>1, <3>1, LogAssumption, HeadTailProperties
      <3> QED
        BY <2>1, <3>2, LogAssumption
    <2>2. CASE ~Full
      BY <1>1, <2>2
    <2> QED
      BY <2>1, <2>2
  <1>8. buf_' = Append(rest, new)
    BY DEF log
  <1> HIDE DEF new, rest
  <1>9. /\ buf_' \in Seq(Entry) /\ Len(buf_') = Len(rest) + 1 /\ buf_' # <<>>
        /\ \A k \in 1..Len(rest) : buf_'[k] = rest[k]
        /\ buf_'[Len(rest) + 1] = new
    BY <1>2, <1>7, <1>8, AppendProperties
  <1>10. Types'
    BY <1>5, <1>9 DEF Types
  <1>11. Newest'
    <2>1. ASSUME NEW i \in DOMAIN logged', \A j \in Starts' : j <= i
          PROVE  i = n + 1
      BY <1>5, <1>6, <2>1
    <2> QED
      BY <1>5, <1>9, <2>1 DEF Newest, new
  <1>12. Len(buf_') = IF runs + 1 > Capacity THEN Capacity + 1 ELSE runs + 1
    BY <1>1, <1>7, <1>9, LogAssumption DEF Full
  <1>13. ASSUME NEW i \in Starts, Since(i)' <= Capacity + 1
         PROVE  buf_'[Len(buf_') + 1 - Since(i)'] = [count |-> Repeats(i)', line |-> logged'[i]]
    <2>1. /\ Since(i) \in Nat /\ Since(i) >= 1 /\ Since(i) <= runs
          /\ Since(i)' = Since(i) + 1 /\ Since(i) <= Capacity /\ Capacity \in Nat
      BY <1>6, <1>13, RunTypes, LogAssumption DEF IInv
    <2>2. buf_[Len(buf_) + 1 - Since(i)] = [count |-> Repeats(i), line |-> logged[i]]
      BY <2>1 DEF IInv, LogIsTail
    <2>3. logged'[i] = logged[i]
      BY <1>5
    <2>4. Len(buf_') + 1 - Since(i)' = Len(rest) + 1 - Since(i)
      BY <1>7, <1>9, <2>1
    <2>5. Len(rest) + 1 - Since(i) \in 1..Len(rest)
      BY <1>1, <1>7, <2>1 DEF Full
    <2>6. rest[Len(rest) + 1 - Since(i)] = buf_[Len(buf_) + 1 - Since(i)]
      <3>1. Full => Len(rest) + 1 - Since(i) + 1 = Len(buf_) + 1 - Since(i)
        BY <1>1, <1>7, <2>1 DEF Full
      <3> QED
        BY <1>7, <2>5, <3>1
    <2> QED
      BY <1>6, <1>9, <2>2, <2>3, <2>4, <2>5, <2>6
  <1>14. buf_'[Len(buf_') + 1 - Since(n + 1)'] = [count |-> Repeats(n + 1)', line |-> logged'[n + 1]]
    <2>1. Len(buf_') + 1 - Since(n + 1)' = Len(rest) + 1
      BY <1>6, <1>7, <1>9
    <2> QED
      BY <1>5, <1>6, <1>9, <2>1 DEF new
  <1>15. LogIsTail'
    BY <1>6, <1>12, <1>13, <1>14 DEF LogIsTail
  <1> QED
    BY <1>10, <1>11, <1>15 DEF IInv

LEMMA NextIInv == IInv /\ [ReadLine]_<<buf_, logged>> => IInv'
  <1> SUFFICES ASSUME IInv, [ReadLine]_<<buf_, logged>> PROVE IInv'
    OBVIOUS
  <1>1. CASE ReadLine
    <2>1. PICK s \in Lines : log(s) /\ logged' = Append(logged, s)
      BY <1>1 DEF ReadLine
    <2> QED
      BY <2>1, RepeatStep, NewStep
  <1>2. CASE UNCHANGED <<buf_, logged>>
    BY <1>2 DEF IInv, Types, Newest, LogIsTail, Starts, Since, Repeats
  <1> QED
    BY <1>1, <1>2

-----------------------------------------------------------------------------
\* The inductive invariant: the buffer, and which run the last line belongs to.
THEOREM Invariant == Spec => []IInv
  BY InitIInv, NextIInv, PTL DEF Spec

\* Log::log, for a buffer of any capacity: its entries are the last Capacity + 1 runs of
\* equal lines, however lines repeat and whenever the oldest is displaced.
THEOREM LogKeepsTail == Spec => []LogIsTail
  <1>1. IInv => LogIsTail
    BY DEF IInv
  <1> QED
    BY <1>1, Invariant, PTL

=============================================================================
