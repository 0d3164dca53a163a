---------------------------- MODULE MCDashboard ----------------------------
(***************************************************************************)
(* Two pages, two services of one source and a third of another, two       *)
(* links, all with ties and with titles against the order of the ids; or   *)
(* groups with a tie.                                                      *)
(***************************************************************************)
EXTENDS Dashboard, TLC

MCServices == 1..3
MCLinks    == 11..12
MCShown    == 1..2

(* Both by group, or one from A to Z and one by source.                    *)
MCModes ==
  {f \in [Tabs -> {"az", "source", "group"}] : Range(f) \in {{"group"}, {"az", "source"}}}

MCTitle  == (1 :> 2) @@ (2 :> 1) @@ (3 :> 3) @@ (11 :> 12) @@ (12 :> 11)
MCSource == (1 :> "docker") @@ (2 :> "docker") @@ (3 :> "manual")

Card(o, g) == [order |-> o, group |-> g]

MCStored ==
  { [cards  |-> (1 :> Card(0, 1)) @@ (11 :> Card(0, 1)) @@ (12 :> Card(0, 1)),
     groups |-> <<0, 1>>],
    [cards  |-> (1 :> Card(1, 2)) @@ (2 :> Card(0, None)) @@ (3 :> Card(0, 2)),
     groups |-> <<1, 0>>],
    [cards  |-> 1 :> Card(0, 1), groups |-> <<0, 0>>] }

Symmetry == Permutations(Tabs) \cup Permutations(Slots)
=============================================================================
