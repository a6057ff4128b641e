------------------------------- MODULE Match --------------------------------
(***************************************************************************)
(* s_match of utils.rs: whether text matches pattern, with its two         *)
(* iterators and its recursion, which only the last star of a row enters.  *)
(***************************************************************************)
EXTENDS Ascii

CONSTANTS StringCharacters,   \* what a string is made of
          PatternCharacters,  \* what a pattern is made of
          MaxString,          \* bound on the length of a string
          MaxPattern          \* bound on the length of a pattern

ASSUME MatchAssumption == /\ StringCharacters \subseteq Nat
                          /\ PatternCharacters \subseteq Nat
                          /\ MaxString \in Nat /\ MaxPattern \in Nat

VARIABLES string,   \* the arguments of the outermost call
          patt,
          at,       \* "loop", "star": in the two loops; "fail": a call returns false;
                    \* "true", "false": the outermost call has returned
          p_iter,   \* how many characters the iterators of the innermost call have
          c_iter,   \* consumed, from the beginning of the outermost arguments
          calls     \* the iterators of the calls that wait for a further one

matchVars == <<string, patt, at, p_iter, c_iter, calls>>

to_ascii_lowercase(c) == IF c \in Upper THEN c + 32 ELSE c

Same(p, c) == p = Question \/ to_ascii_lowercase(p) = to_ascii_lowercase(c)

-----------------------------------------------------------------------------
MatchInit ==
  /\ string \in BoundedSeq(StringCharacters, MaxString)
  /\ patt \in BoundedSeq(PatternCharacters, MaxPattern)
  /\ at = "loop"
  /\ p_iter = 0 /\ c_iter = 0
  /\ calls = <<>>

Patt == patt[p_iter + 1]

PattEnds == p_iter = Len(patt)
StringEnds == c_iter = Len(string)

\* (None, _)
PattEnd ==
  /\ at = "loop" /\ PattEnds
  /\ IF StringEnds THEN at' = "true" /\ calls' = <<>>
                   ELSE at' = "fail" /\ UNCHANGED calls
  /\ UNCHANGED <<string, patt, p_iter, c_iter>>

\* (Some('?'), _) and (Some(p), _)
One ==
  /\ at = "loop" /\ ~PattEnds /\ Patt # Star
  /\ IF ~StringEnds /\ Same(Patt, string[c_iter + 1])
     THEN p_iter' = p_iter + 1 /\ c_iter' = c_iter + 1 /\ UNCHANGED at
     ELSE at' = "fail" /\ UNCHANGED <<p_iter, c_iter>>
  /\ UNCHANGED <<string, patt, calls>>

\* Mutant: the character at hand is not consumed together with the star.
AtHand(n) == 0

\* (Some('*'), c): both iterators have moved on, if they could.
Consumed(n) == IF n = Len(string) THEN 0 ELSE 1

FirstStar ==
  /\ at = "loop" /\ ~PattEnds /\ Patt = Star
  /\ at' = "star"
  /\ p_iter' = p_iter + 1
  /\ c_iter' = c_iter + Consumed(c_iter)
  /\ UNCHANGED <<string, patt, calls>>

\* A star further on is skipped.
SkipStar ==
  /\ at = "star" /\ ~PattEnds /\ Patt = Star
  /\ p_iter' = p_iter + 1
  /\ UNCHANGED <<string, patt, at, c_iter, calls>>

\* A star at the end matches all there is.  Every call waiting returns true as well.
LastStar ==
  /\ at = "star" /\ PattEnds
  /\ at' = "true" /\ calls' = <<>>
  /\ UNCHANGED <<string, patt, p_iter, c_iter>>

\* What follows the stars is tried on what is left of string.
Call ==
  /\ at = "star" /\ ~PattEnds /\ Patt # Star
  /\ at' = "loop"
  /\ calls' = Append(calls, [p |-> p_iter, c |-> c_iter])
  /\ UNCHANGED <<string, patt, p_iter, c_iter>>

\* A call has returned false: its caller goes on to the next character and calls
\* again, or returns false at the end of string.
Return ==
  /\ at = "fail" /\ calls # <<>>
  /\ LET caller == Last(calls)
     IN  IF caller.c < Len(string)
         THEN /\ at' = "loop"
              /\ p_iter' = caller.p /\ c_iter' = caller.c + 1
              /\ calls' = Append(Front(calls), [caller EXCEPT !.c = caller.c + 1])
         ELSE calls' = Front(calls) /\ UNCHANGED <<at, p_iter, c_iter>>
  /\ UNCHANGED <<string, patt>>

Fail ==
  /\ at = "fail" /\ calls = <<>>
  /\ at' = "false"
  /\ UNCHANGED <<string, patt, p_iter, c_iter, calls>>

MatchNext == PattEnd \/ One \/ FirstStar \/ SkipStar \/ LastStar \/ Call \/ Return \/ Fail

MatchSpec == MatchInit /\ [][MatchNext]_matchVars

-----------------------------------------------------------------------------
(* The meaning of a pattern: the text can be cut into one piece for each    *)
(* character of the pattern, cut[k] being where the piece for the k-th ends. *)

\* A star in front of something else takes at least one character, a star at the end
\* any number, and a star before a star none.
Fits(k, from, to) ==
  CASE patt[k] = Star /\ k = Len(patt)   -> TRUE
    [] patt[k] = Star /\ k < Len(patt)   ->
         IF patt[k + 1] = Star THEN from = to ELSE from < to
    [] OTHER -> to = from + 1 /\ Same(patt[k], string[to])

\* What follows i characters of the pattern means what follows n of the text.
Means(i, n) ==
  \E cut \in [i..Len(patt) -> 0..Len(string)] :
    /\ cut[i] = n /\ cut[Len(patt)] = Len(string)
    /\ \A k \in i + 1..Len(patt) : cut[k - 1] <= cut[k] /\ Fits(k, cut[k - 1], cut[k])

\* s_match finds a way to cut the text exactly when there is one, although it tries
\* the ends of the text one by one and calls itself at each star.
MatchesMeaning ==
  /\ at = "true"  => Means(0, 0)
  /\ at = "false" => ~Means(0, 0)

=============================================================================
