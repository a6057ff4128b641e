---------------------------- MODULE HttpRequest -----------------------------
(***************************************************************************)
(* What HTTPRequest.parse_request makes of the uri of a request line that  *)
(* is neither missing nor malformed (http_message.rs): remove_dots and     *)
(* remove_slashes of utils.rs, one step for each part or character.        *)
(* Header lines leave no trace: splitn(1, ':') has one part.               *)
(***************************************************************************)
EXTENDS Ascii

CONSTANTS UriCharacters,    \* what a uri is made of
          MaxUri            \* bound on its length

ASSUME UriAssumption == UriCharacters \subseteq Nat /\ MaxUri \in Nat

VARIABLES absolute, \* the uri begins with http://
          uri_,    \* the uri, or what follows that
          doing,   \* "uri"; "dots", "dotdots": the two halves of remove_dots;
                   \* "slashes", "slash": the two loops of remove_slashes; "done"
          s,       \* what the function is applied to
          pos,     \* how much of it has been consumed
          rc,      \* what has been made of that
          from,    \* history: where in path_ the characters of s come from
          kept     \* history: where in s the characters of rc come from

given == <<absolute, uri_>>
requestVars == <<given, doing, s, pos, rc, from, kept>>

SlashDotSlash == <<Slash, Dot, Slash>>
SlashDotsSlash == <<Slash, Dot, Dot, Slash>>

-----------------------------------------------------------------------------
RequestInit ==
  /\ absolute \in BOOLEAN /\ uri_ \in BoundedSeq(UriCharacters, MaxUri)
  /\ doing = "uri"
  /\ s = <<>> /\ pos = 0 /\ rc = <<>>
  /\ from = <<>> /\ kept = <<>>

Through(a, b) == [k \in 1..b - a + 1 |-> a + k - 1]

\* str::splitn: at most n parts, for n up to two.
splitn(str, n, c) ==
  LET first == SelectInSeq(str, LAMBDA x : x = c)
  IN  IF n = 1 \/ first = 0 THEN <<str>>
      ELSE <<SubSeq(str, 1, first - 1), SubSeq(str, first + 1, Len(str))>>

\* What path_ is at first.  Of an absolute uri this is to be what follows the domain,
\* but the domain is all there is.
path_ ==
  LET parts == splitn(uri_, 1, Slash)
  IN  IF ~absolute THEN uri_
      ELSE IF Len(parts) = 2 THEN <<Slash>> \o parts[2] ELSE <<Slash>>

PathAndQuery(path) == splitn(path, 1, Question)

parse_request ==
  /\ doing = "uri"
  /\ s' = PathAndQuery(path_)[1]
  /\ from' = Through(1, Len(s'))
  /\ doing' = "dots"
  /\ UNCHANGED <<given, pos, rc, kept>>

-----------------------------------------------------------------------------
(* remove_dots: split, fold, and the dot segment at the end.               *)

\* Where the separator is found in what is left.
Occurrences(sep) ==
  {j \in pos + 1..Len(s) - Len(sep) + 1 : SubSeq(s, j, j + Len(sep) - 1) = sep}

\* The fold, over a part that ends at last: no slash while there is nothing in front of
\* it.  It takes the place of the separator, which ends with one.
Joined(last) ==
  (IF rc # <<>> THEN rc \o <<Slash>> ELSE <<>>) \o SubSeq(s, pos + 1, last)

JoinedFrom(last) ==
  (IF rc # <<>> THEN kept \o <<pos>> ELSE <<>>) \o Through(pos + 1, last)

NextPart(sep) ==
  /\ \E j \in Occurrences(sep) :
       /\ \A k \in Occurrences(sep) : j <= k
       /\ rc' = Joined(j - 1) /\ kept' = JoinedFrom(j - 1)
       /\ pos' = j + Len(sep) - 1
  /\ UNCHANGED <<given, doing, s, from>>

\* Mutant: the slash goes with the dots.
DropEndAll(str, end) == IF IsSuffix(end, str) THEN Len(str) - Len(end) ELSE Len(str)

\* A dot segment at the end is dropped, but not the slash in front of it: how much is
\* left.
DropEnd(str, end) == IF IsSuffix(end, str) THEN Len(str) - Len(end) + 1 ELSE Len(str)

LastPart(sep, next) ==
  /\ Occurrences(sep) = {}
  /\ LET all == Joined(Len(s))
         n   == DropEnd(all, Front(sep))
     IN  /\ s' = SubSeq(all, 1, n)
         /\ from' = [k \in 1..n |-> from[JoinedFrom(Len(s))[k]]]
  /\ doing' = next
  /\ pos' = 0 /\ rc' = <<>> /\ kept' = <<>>
  /\ UNCHANGED given

remove_dots ==
  \/ doing = "dots" /\ (NextPart(SlashDotSlash) \/ LastPart(SlashDotSlash, "dotdots"))
  \/ doing = "dotdots" /\ (NextPart(SlashDotsSlash) \/ LastPart(SlashDotsSlash, "slashes"))

-----------------------------------------------------------------------------
(* remove_slashes.                                                         *)

Push ==
  /\ rc' = Append(rc, s[pos + 1])
  /\ kept' = Append(kept, pos + 1)

\* Mutant: continue goes on in the outer loop.
ContinueOuter == "slashes"

\* The inner loop goes on until something follows the slashes.
Continue == "slash"

\* Mutant: the inner loop ends with the character it has read.
BreakFirst == UNCHANGED <<rc, kept>>

\* That character is copied along with the slash.
PushAndBreak == Push

remove_slashes ==
  /\ pos < Len(s)
  /\ pos' = pos + 1
  /\ \/ /\ doing = "slashes"
        /\ Push
        /\ doing' = IF s[pos + 1] = Slash THEN "slash" ELSE "slashes"
     \/ /\ doing = "slash"
        /\ IF s[pos + 1] = Slash THEN doing' = Continue /\ UNCHANGED <<rc, kept>>
                                 ELSE doing' = "slashes" /\ PushAndBreak
  /\ UNCHANGED <<given, s, from>>

Parsed ==
  /\ doing \in {"slashes", "slash"} /\ pos = Len(s)
  /\ doing' = "done"
  /\ UNCHANGED <<given, s, pos, rc, from, kept>>

RequestNext == parse_request \/ remove_dots \/ remove_slashes \/ Parsed

RequestSpec == RequestInit /\ [][RequestNext]_requestVars

-----------------------------------------------------------------------------
(* Properties.                                                             *)

\* part consists of the characters of whole at some positions, in their order.
Selects(part, whole, where) ==
  /\ DOMAIN where = DOMAIN part
  /\ \A k \in DOMAIN part : where[k] \in DOMAIN whole /\ part[k] = whole[where[k]]
  /\ \A j, k \in DOMAIN part : j < k => where[j] < where[k]

\* What is not among them is slashes and dots.
LosesSeparators(whole, where) ==
  \A x \in (DOMAIN whole) \ ToSet(where) : whole[x] \in {Slash, Dot}

\* The path that a request is answered by has no empty segments within, also where
\* removing dot segments has brought two slashes together, and nothing but slashes
\* and dots is lost on the way: the query, which is not decoded, is still there.  Of an
\* absolute uri, whatever its path, a slash is all that is left.
PathNormal ==
  doing = "done" =>
    /\ \A k \in 1..Len(rc) - 1 : <<rc[k], rc[k + 1]>> # <<Slash, Slash>>
    /\ LET where == [k \in DOMAIN kept |-> from[kept[k]]]
       IN  IF absolute THEN rc = <<Slash>>
           ELSE Selects(rc, uri_, where) /\ LosesSeparators(uri_, where)

\* remove_slashes drops exactly the slashes that follow a slash, wherever a run of
\* them begins and ends.
SlashesCollapsed ==
  doing = "done" =>
    /\ Selects(rc, s, kept)
    /\ ToSet(kept) = {k \in DOMAIN s : ~(k > 1 /\ s[k] = Slash /\ s[k - 1] = Slash)}

\* Where the path has a dot segment, . or .., after a slash.
DotSegments ==
  {d \in (DOMAIN path_) \X (DOMAIN path_) :
     /\ d[1] > 1 /\ path_[d[1] - 1] = Slash
     /\ d[2] \in {d[1], d[1] + 1}
     /\ path_[d[1]] = Dot /\ path_[d[2]] = Dot
     /\ d[2] < Len(path_) => path_[d[2] + 1] = Slash}

\* No two dot segments are next to one another, and no segment within is empty.
Scattered ==
  /\ \A d, e \in DotSegments : e[1] # d[2] + 2
  /\ \A k \in 1..Len(path_) - 1 : <<path_[k], path_[k + 1]>> # <<Slash, Slash>>

\* Dot segments that are not next to one another, in a path without empty segments
\* within, all go, and nothing else does.  The last one leaves the slash in front of it;
\* one that follows a leading slash takes it along.
GoesWith(d) ==
  IF d[2] = Len(path_) THEN d[1]..d[2]
  ELSE IF d[1] = 2 THEN 1..d[2] + 1
  ELSE d[1] - 1..d[2]

DotSegmentsGo ==
  doing \in {"slashes", "slash", "done"} /\ Scattered =>
    /\ Selects(s, path_, from)
    /\ ToSet(from) = (DOMAIN path_) \ UNION {GoesWith(d) : d \in DotSegments}

=============================================================================
