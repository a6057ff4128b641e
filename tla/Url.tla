-------------------------------- MODULE Url ---------------------------------
(***************************************************************************)
(* url_encode and url_decode of utils.rs, one step for each character      *)
(* consumed, on a text and on what has arrived of its encoding.  The       *)
(* characters are those below 256: beyond, bhex[cc >> 4] and table[c]      *)
(* panic.                                                                  *)
(***************************************************************************)
EXTENDS Ascii

CONSTANTS Characters,        \* what a text is made of
          MaxText            \* bound on its length

ASSUME UrlAssumption == Characters \subseteq 0..255 /\ MaxText \in Nat

VARIABLES input,     \* the text encoded
          stage,        \* "encode", "decode": in the loop of the function; "done"
          taken,         \* the number of characters that the iterator has consumed
          out,       \* what has been written
          encoded,   \* what url_encode has returned
          url        \* the argument of url_decode

urlVars == <<input, stage, taken, out, encoded, url>>

-----------------------------------------------------------------------------
\* char::is_alphanumeric on Latin-1: letters, and what counts as a numeral.
Alphanumeric == Digits \cup Upper \cup Lower
                  \cup {170, 181, 186} \cup ((192..255) \ {215, 247})
                  \cup {178, 179, 185, 188, 189, 190}

\* - _ . ! ~ * ( ) '
Marks == {45, 95, Dot, 33, 126, Star, 40, 41, 39}

bhex(n) == IF n < 10 THEN 48 + n ELSE 55 + n

\* Mutant: + stands for itself.
Literal == Alphanumeric \cup Marks \cup {Plus}

Plain == Alphanumeric \cup Marks

\* Mutant: a number below 16 is written with one digit.
EscapeUnpadded(c) ==
  IF c \in Plain THEN <<c>>
  ELSE IF c = Space THEN <<Plus>>
  ELSE IF c < 16 THEN <<Percent, bhex(c)>>
  ELSE <<Percent, bhex(c \div 16), bhex(c % 16)>>

Escape(c) == IF c \in Plain THEN <<c>>
             ELSE IF c = Space THEN <<Plus>>
             ELSE <<Percent, bhex(c \div 16), bhex(c % 16)>>

\* Characters that are not hexadecimal digits count as zero.
xdigit(c) == CASE c \in Digits   -> c - 48
               [] c \in 65..70   -> c - 55
               [] c \in 97..102  -> c - 87
               [] OTHER          -> 0

-----------------------------------------------------------------------------
UrlInit ==
  /\ input \in BoundedSeq(Characters, MaxText)
  /\ stage = "encode"
  /\ taken = 0
  /\ out = <<>> /\ encoded = <<>> /\ url = <<>>

url_encode ==
  /\ stage = "encode" /\ taken < Len(input)
  /\ out' = out \o Escape(input[taken + 1])
  /\ taken' = taken + 1
  /\ UNCHANGED <<input, stage, encoded, url>>

\* url_encode returns; what arrives at the other end may be cut off.
Arrive ==
  /\ stage = "encode" /\ taken = Len(input)
  /\ encoded' = out
  /\ \E n \in 0..Len(out) : url' = SubSeq(out, 1, n)
  /\ stage' = "decode"
  /\ taken' = 0 /\ out' = <<>>
  /\ UNCHANGED input

Cut == taken + 3 > Len(url)

\* The two digits after a %.
Number == xdigit(url[taken + 2]) * 16 + xdigit(url[taken + 3])

\* One round of the loop, with the characters it consumes and the one it writes.
Take(n, c) ==
  /\ taken' = taken + n
  /\ out' = Append(out, c)
  /\ UNCHANGED stage

\* An escape that is cut off ends the decoding.
Break == stage' = "done" /\ UNCHANGED <<taken, out>>

url_decode ==
  /\ stage = "decode" /\ taken < Len(url)
  /\ \/ url[taken + 1] = Plus /\ Take(1, Space)
     \/ url[taken + 1] = Percent /\ ~Cut /\ Take(3, Number)
     \/ url[taken + 1] = Percent /\ Cut /\ Break
     \/ url[taken + 1] \notin {Plus, Percent} /\ Take(1, url[taken + 1])
  /\ UNCHANGED <<input, encoded, url>>

Decoded ==
  /\ stage = "decode" /\ taken = Len(url)
  /\ stage' = "done"
  /\ UNCHANGED <<input, taken, out, encoded, url>>

UrlNext == url_encode \/ Arrive \/ url_decode \/ Decoded

UrlSpec == UrlInit /\ [][UrlNext]_urlVars

-----------------------------------------------------------------------------
(* Properties.                                                             *)

\* url_decode undoes url_encode, the characters that one of the two treats specially
\* (space, +, %) included; of an encoding that has been cut off it returns the
\* beginning of the text.
RoundTrip ==
  stage = "done" =>
    /\ IsPrefix(out, input)
    /\ url = encoded => out = input

\* What url_encode has written can stand in a query: it contains none of the
\* characters at which query_decode splits, and each % begins an escape of two digits.
Separators == {38, 61, Question, Slash, Space}

EncodedIsSafe ==
  stage = "encode" =>
    /\ ToSet(out) \cap Separators = {}
    /\ \A k \in DOMAIN out :
         out[k] = Percent => /\ k + 2 <= Len(out)
                             /\ {out[k + 1], out[k + 2]} \subseteq Digits \cup 65..70

=============================================================================
