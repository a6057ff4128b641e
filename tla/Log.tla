-------------------------------- MODULE Log ---------------------------------
(***************************************************************************)
(* The buffer of the log (service.rs): Log::log, which every request to    *)
(* Default calls, under a mutex, and which Log writes to its clients.      *)
(***************************************************************************)
EXTENDS Integers, Sequences, SequencesExt

CONSTANTS Lines,            \* what is logged
          Capacity,         \* 1000
          MaxLines          \* bound on the lines that are logged

ASSUME LogAssumption == Capacity \in Nat \ {0} /\ MaxLines \in Nat

VARIABLES buf_,
          logged            \* history: the arguments of log so far

Init == buf_ = <<>> /\ logged = <<>>

Full == Len(buf_) > Capacity

Repeated(s) == buf_ # <<>> /\ Last(buf_).line = s

Count == [buf_ EXCEPT ![Len(buf_)].count = @ + 1]

\* Mutant: the oldest line is dropped before the newest is looked at.
logEager(s) ==
  LET rest == IF Full THEN Tail(buf_) ELSE buf_
  IN  buf_' = IF rest # <<>> /\ Last(rest).line = s
                THEN [rest EXCEPT ![Len(rest)].count = @ + 1]
                ELSE Append(rest, [count |-> 0, line |-> s])

\* A repeat of the last line is counted; another line displaces the oldest.
log(s) ==
  buf_' = IF Repeated(s)
            THEN Count
            ELSE Append(IF Full THEN Tail(buf_) ELSE buf_, [count |-> 0, line |-> s])

\* Any request may log any line.
ReadLine ==
  /\ Len(logged) < MaxLines
  /\ \E s \in Lines : log(s) /\ logged' = Append(logged, s)

Spec == Init /\ [][ReadLine]_<<buf_, logged>>

-----------------------------------------------------------------------------
(* Property.                                                               *)

\* Where a run of equal lines starts, how often its line is repeated, and how many
\* runs there are from it to the newest.
Starts == {i \in DOMAIN logged : i = 1 \/ logged[i] # logged[i - 1]}

Repeats(i) ==
  Cardinality({j \in DOMAIN logged : j > i /\ \A k \in i..j : logged[k] = logged[i]})

Since(i) == Cardinality({j \in Starts : j >= i})

\* The buffer is the tail of what was logged: one entry for each of the last
\* Capacity + 1 runs of equal lines, with the number of repeats, none of which is
\* ever lost or counted for another line, whenever older lines are dropped.
LogIsTail ==
  /\ Len(buf_) = IF Cardinality(Starts) > Capacity THEN Capacity + 1 ELSE Cardinality(Starts)
  /\ \A i \in Starts :
       Since(i) <= Capacity + 1 =>
         buf_[Len(buf_) + 1 - Since(i)] = [count |-> Repeats(i), line |-> logged[i]]

=============================================================================
