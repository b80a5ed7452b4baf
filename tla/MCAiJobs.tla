------------------------------ MODULE MCAiJobs ------------------------------
(* Instances of AiJobs for TLC. *)
EXTENDS AiJobs, TLC

CONSTANTS a, b, c, d, w1, w2

MCRank2 == (a :> 1) @@ (b :> 2)
MCRank4 == (a :> 1) @@ (b :> 2) @@ (c :> 3) @@ (d :> 4)
MCRank3 == (a :> 1) @@ (b :> 2) @@ (c :> 3)
Replies(n) == [e \in Events |-> IF e = "reply" THEN n ELSE 0]
With(budget, e) == [budget EXCEPT ![e] = @ + 1]

(* Every budget allows a number of replies, an automatic start, and ...    *)
Auto == With(Replies(3), "auto")
Answered2 == With(Replies(2), "auto")
AutoStop == With(Auto, "stop")
AutoReset == With(Auto, "reset")
AutoCrash == With(Auto, "crash")
Joined == With(With(With(Replies(1), "auto"), "named"), "relift")
Everything ==
    With(With(With(With(Replies(1), "named"), "relift"), "crash"), "reset")
Relifted == With(With(Replies(1), "auto"), "relift")
Serial == With(With(Auto, "stop"), "reset")

WorkerSymmetry == Permutations({w1, w2})
=============================================================================
