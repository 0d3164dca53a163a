----------------------------- MODULE MCUrlHint -----------------------------
(***************************************************************************)
(* A unit with a process nobody may look into and a client of a container  *)
(* runtime; beside them, a server of the same user as each.                *)
(***************************************************************************)
EXTENDS UrlHint, TLC

Process(unit, uid, readable, exe) ==
  [unit |-> unit, uid |-> uid, readable |-> readable, exe |-> exe]

Listener(port, uid, table) == [port |-> port, uid |-> uid, table |-> table]

MCProc ==
  (1 :> Process(TRUE, "root", FALSE, "server")) @@ (2 :> Process(TRUE, "app", TRUE, "runtime")) @@
  (3 :> Process(FALSE, "root", FALSE, "server")) @@ (4 :> Process(FALSE, "app", TRUE, "server"))

MCSocket ==
  (1 :> Listener(631, "root", "tcp")) @@ (2 :> Listener(8080, "app", "tcp")) @@
  (3 :> Listener(9000, "app", "tcp6"))

MCListens == { << >>, <<Nil, 22, 23>> }

Port(private, public, bound) == [private |-> private, public |-> public, bound |-> bound]

MCPublished ==
  { <<Port(443, 8443, "0.0.0.0"), Port(80, 81, "0.0.0.0"), Port(81, 82, "10.0.0.1")>>,
    <<Port(53, Nil, "0.0.0.0"), Port(443, 8443, "0.0.0.0")>> }
=============================================================================
