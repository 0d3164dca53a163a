----------------------------- MODULE MCProbing -----------------------------
EXTENDS Probing

MCIds == 1..1

(* A unit of systemd, and a container with a web page.                     *)
Unit      == [unit |-> TRUE,  source |-> "systemd", url |-> FALSE, enabled |-> TRUE, interval |-> 2]
Container == [unit |-> TRUE,  source |-> "docker",  url |-> TRUE,  enabled |-> TRUE, interval |-> 1]

MCAttributes == {Unit, Container, [Container EXCEPT !.enabled = FALSE]}
=============================================================================
