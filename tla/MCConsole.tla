----------------------------- MODULE MCConsole -----------------------------
(* Values of the constants for the runs of Console. *)
EXTENDS ConsoleInvariant, TLC

MCTours == {[pages |-> {"monitors", "groups"}, faults |-> {"half"}],
            [pages |-> {"monitors"}, faults |-> {"db"}],
            [pages |-> {"groups"}, faults |-> {"db", "checks"}],
            [pages |-> {"pages"}, faults |-> {"db", "half"}],
            [pages |-> {"incidents", "dashboard"}, faults |-> {}],
            [pages |-> {"channels"}, faults |-> {"db", "net"}],
            [pages |-> {"incidents"}, faults |-> {"db", "net"}]}
PageTour == {[pages |-> {"pages"}, faults |-> {}]}
MCSymmetry == Permutations(Id) \cup Permutations(Tab) \cup Permutations(Worker) \cup Permutations(Call)
=============================================================================
