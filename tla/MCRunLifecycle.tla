--------------------------- MODULE MCRunLifecycle ---------------------------
(* Instances of RunLifecycle for TLC. *)
EXTENDS RunLifecycle, TLC

CONSTANTS f1, f2

Budgets(line, lift, reset, delete, crash) ==
    ("line" :> line) @@ ("lift" :> lift) @@ ("reset" :> reset)
        @@ ("delete" :> delete) @@ ("crash" :> crash)

OneOfEach == Budgets(2, 1, 1, 1, 1)
Progress == Budgets(2, 0, 0, 0, 0)
Deleted == Budgets(0, 0, 0, 1, 0)
Lifted == Budgets(0, 2, 0, 0, 0)
=============================================================================
