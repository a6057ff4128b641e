------------------------------- MODULE MCText -------------------------------
(***************************************************************************)
(* One instance for the modules about text, which have nothing to do with  *)
(* one another: in each behaviour one of them runs, the others have no     *)
(* input and stay where they are.                                          *)
(***************************************************************************)
EXTENDS Url, Match, HttpRequest, Log

VARIABLE running

logVars == <<buf_, logged>>

UrlIdle == input = <<>> /\ UrlInit
MatchIdle == string = <<>> /\ patt = <<>> /\ MatchInit
RequestIdle == absolute = FALSE /\ uri_ = <<>> /\ RequestInit

TextInit ==
  /\ Init
  /\ \/ running = "url" /\ UrlInit /\ MatchIdle /\ RequestIdle
     \/ running = "match" /\ UrlIdle /\ MatchInit /\ RequestIdle
     \/ running = "request" /\ UrlIdle /\ MatchIdle /\ RequestInit
     \/ running = "log" /\ UrlIdle /\ MatchIdle /\ RequestIdle

TextNext ==
  /\ \/ running = "url" /\ UrlNext /\ UNCHANGED <<matchVars, requestVars, logVars>>
     \/ running = "match" /\ MatchNext /\ UNCHANGED <<urlVars, requestVars, logVars>>
     \/ running = "request" /\ RequestNext /\ UNCHANGED <<urlVars, matchVars, logVars>>
     \/ running = "log" /\ ReadLine /\ UNCHANGED <<urlVars, matchVars, requestVars>>
  /\ UNCHANGED running

textVars == <<urlVars, matchVars, requestVars, logVars, running>>

TextSpec == TextInit /\ [][TextNext]_textVars

=============================================================================
