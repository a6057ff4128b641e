------------------------------- MODULE Ascii --------------------------------
(***************************************************************************)
(* The characters that utils.rs and http_message.rs treat specially.  A    *)
(* character is its code point, a string a sequence of characters.         *)
(***************************************************************************)
EXTENDS Integers, Sequences, SequencesExt

Space == 32
Percent == 37
Star == 42
Plus == 43
Dot == 46
Slash == 47
Question == 63

Digits == 48..57
Upper == 65..90
Lower == 97..122

=============================================================================
