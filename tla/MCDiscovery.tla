---------------------------- MODULE MCDiscovery ----------------------------
(* Discovery on small instances: one unit and the container it runs, which *)
(* is enough for the two kinds of pass to get in each other's way.         *)
EXTENDS Discovery, TLC

MCUnits == {"web.service"}
Web     == Entry("systemd", "web.service")
Box     == Entry("docker", "web")
MCContainers == {Box}
MCUnitNamed  == [c \in {Box} |-> "web.service"]
MCTitle == [e \in {Web, Box} |-> "Web"]

(* A service made by hand that bears the name of the container.            *)
ByHand == [unit |-> None, source |-> None, name |-> "web", adds |-> None]

MCBodies == {PanelBody(Web), ClientBody(Box), ByHand}

(* The container alone, for passes of its kind that overlap.               *)
MCNoUnits   == {}
MCUnitless  == [c \in {Box} |-> None]
MCBoxBodies == {ClientBody(Box), ByHand}

MCSymmetry == Permutations(Ids) \cup Permutations(Refreshers) \cup Permutations(Reqs)
=============================================================================
