------------------------------ MODULE Exchange ------------------------------
(***************************************************************************)
(* What each service promises to one client, and where it falls short: a   *)
(* request that has been sent is settled, once.  WebServer has no answers; *)
(* Default answers after a second whether it was asked or not, and closes  *)
(* a connection that takes the answer too slowly; a PipeService connection *)
(* is lost with its worker.  Connection implements it.                     *)
(***************************************************************************)

VARIABLES service,    \* which service this is, for PipeService its PipeServer
          phase       \* where the exchange stands

vars == <<service, phase>>

PipeServers == {"DefaultPipeServer", "WebServer"}

Init == service \in {"Default", "Log"} \cup PipeServers /\ phase = "waiting"

Becomes(new) == phase' = new /\ UNCHANGED service

Ask == phase = "waiting" /\ Becomes("asked")

Answer == service # "WebServer" /\ phase = "asked" /\ Becomes("answered")

\* Default answers a client that has not asked.
Hurry == service = "Default" /\ phase = "waiting" /\ Becomes("answered")

\* The connection is closed without an answer, or in the middle of it.
Cut == /\ \/ service = "Default" /\ phase \in {"waiting", "asked"}
          \/ service = "WebServer" /\ phase = "asked"
       /\ Becomes("cut")

Lose == service \in PipeServers /\ phase \in {"waiting", "asked"} /\ Becomes("lost")

Leave == phase \in {"waiting", "asked"} /\ Becomes("gone")

Next == Ask \/ Answer \/ Hurry \/ Cut \/ Lose \/ Leave

SafeSpec == Init /\ [][Next]_vars

\* One way or another a request is settled.
Settle == phase = "asked" /\ (Answer \/ Cut \/ Lose)

Spec == SafeSpec /\ WF_vars(Settle)

=============================================================================
