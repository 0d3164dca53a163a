----------------------------- MODULE MCStartup -----------------------------
(* Databases as every release left them, each as full as it could be.      *)
EXTENDS Startup

(* What the migrations made, in the order they came.                       *)
Releases ==
  << {"groups", "services", "probe_results", "users", "settings", "quick_links"},
     {"audit_log", "audit_log_created_at", "audit_log_actor"}, {"source"}, {"role"}, {"color"},
     {"dismissed"}, {"link_groups", "link_group_id"}, {"unit_index"}, {}, {"tls"},
     {"channels"}, {"wide"} >>

Unified == 9

Made(n) == (UNION {Releases[i] : i \in 1..n}) \ (IF n >= Unified THEN {"link_groups"} ELSE {})

Until(n, first, some, none) == IF n >= first THEN some ELSE none

(* Two services claim unit u while nothing forbids it; groups "a" and      *)
(* "a (2)" are in the way of the link group "a".                           *)
Rows(n) ==
  [units     |-> IF n = 0 THEN << >> ELSE IF n < 8 THEN <<None, "u", "u", "v">> ELSE <<None, "u", None, "v">>,
   groups    |-> Until(n, 1, << <<"a">>, <<"a", 2>> >>, << >>),
   oldGroups |-> IF n \in 7..8 THEN << <<"b">>, <<"a">> >> ELSE << >>,
   links     |-> IF n = 0 THEN << >> ELSE IF n < 7 THEN <<None, None, None>> ELSE <<2, 1, None, 2>>,
   channels  |-> Until(n, 11, {"web", "ntfy"}, {}),
   spare     |-> {}]

MCOld == {[has |-> Made(n), data |-> Rows(n)] : n \in 0..12}
=============================================================================
