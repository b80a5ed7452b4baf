------------------------------ MODULE MCShell -------------------------------
(* Instances of Shell for TLC.  Each budget is a kind of session: one who  *)
(* goes through functions, one who opens runs, one who uploads, one who    *)
(* runs the automated analysis.                                            *)
EXTENDS Shell

Events == {"open", "mode", "visit", "jump", "view", "failure", "upload",
           "start", "stop", "reset", "late", "lift", "review", "card",
           "security", "tick", "harden", "finding", "explain", "browse"}
With(b) == [e \in Events |-> IF e \in DOMAIN b THEN b[e] ELSE 0]

MCUploads == <<"a", "b">>
MCStages == <<"decompile", "bugs">>

Walking == With([view |-> 1, open |-> 1, visit |-> 3, jump |-> 2])
Opening == With([view |-> 1, open |-> 2, mode |-> 1, visit |-> 1])
Racing == With([view |-> 1, open |-> 3])
Uploading == With([upload |-> 2, view |-> 1, failure |-> 1])
Reverting == With([upload |-> 1, mode |-> 1, failure |-> 1])
Automating == With([view |-> 1, open |-> 1, start |-> 1, stop |-> 1, failure |-> 1])
Lagging == With([view |-> 1, open |-> 1, start |-> 1, stop |-> 1, late |-> 1])
Restarting == With([view |-> 1, open |-> 1, start |-> 2, stop |-> 1])
Sampling == With([view |-> 1, open |-> 1, mode |-> 1, start |-> 1, reset |-> 1])
Failing == With([view |-> 1, open |-> 1, reset |-> 1, start |-> 1, failure |-> 1])
Losing == With([view |-> 1, open |-> 2, visit |-> 2, jump |-> 1, failure |-> 1])

Lifting == With([view |-> 1, open |-> 1, visit |-> 1, lift |-> 2, failure |-> 1])
Revisiting == With([view |-> 1, open |-> 1, visit |-> 1, jump |-> 1, lift |-> 2])
Hovering == With([view |-> 1, open |-> 1, lift |-> 1, card |-> 2, failure |-> 1])
Returning == With([view |-> 1, open |-> 2, visit |-> 1, lift |-> 1])
Swapping == With([view |-> 1, open |-> 1, visit |-> 1, lift |-> 1, mode |-> 1])
Reviewing == With([view |-> 1, open |-> 1, lift |-> 2, review |-> 1])
Rooting == With([view |-> 3, open |-> 1, visit |-> 2, jump |-> 1])

Securing == With([view |-> 1, open |-> 1, security |-> 2, tick |-> 1, harden |-> 2, failure |-> 1])
Overtaking == With([view |-> 1, open |-> 1, mode |-> 1, security |-> 1, harden |-> 1])
Explaining == With([view |-> 1, open |-> 1, finding |-> 2, explain |-> 2, failure |-> 1])
Comparing == With([view |-> 1, open |-> 2, finding |-> 2, explain |-> 1])
Quoting == With([view |-> 1, open |-> 1, mode |-> 1, finding |-> 2, explain |-> 1])
Browsing == With([view |-> 1, open |-> 2, browse |-> 3])

MCBudgets ==
    {Walking, Opening, Racing, Uploading, Reverting, Automating, Lagging, Restarting, Failing, Sampling,
     Losing, Lifting, Revisiting, Hovering, Returning, Swapping, Reviewing, Rooting, Securing, Overtaking,
     Explaining, Comparing, Quoting, Browsing}
MCReviewing == {Reviewing}
MCHovering == {Hovering}
MCWalking == {Walking}
MCMirroring == {With([view |-> 3, open |-> 1, visit |-> 1])}
(* Another run is opened under the stages: half a million states more.     *)
MCHijacking == {With([view |-> 2, open |-> 2, start |-> 1])}

(* Images: one with everything to do, signed; a 32-bit one with a packed   *)
(* section of each kind; one without relocations; one that is hardened     *)
(* but for a section; and what is no image.                                *)
Plain == [write |-> FALSE, execute |-> TRUE, code |-> TRUE]
Packed == [write |-> TRUE, execute |-> TRUE, code |-> TRUE]
Loose == [write |-> TRUE, execute |-> TRUE, code |-> FALSE]
Image(flags, sections) ==
    [parsed |-> TRUE, read |-> TRUE, sum |-> FALSE, sections |-> sections] @@
        [f \in {"plus", "dep", "aslr", "he", "reloc", "stripped", "signed"} |-> f \in flags]
MCImages == {Image({"plus", "reloc", "signed"}, <<Plain>>), Image({"reloc"}, <<Packed, Loose>>),
             Image({"plus"}, <<Packed>>), Image({"plus", "dep", "aslr", "he"}, <<Loose>>), NotPe}

(* A chain with a call through a pointer in the middle; a diamond with a   *)
(* recursion.                                                              *)
Chain == [calls |-> <<<<2>>, <<>>, <<>>>>, indirect |-> {2}, hidden |-> <<{}, {3}, {}>>]
Diamond == [calls |-> <<<<2, 3>>, <<1>>, <<2, 1>>>>, indirect |-> {}, hidden |-> <<{}, {}, {}>>]
MCPrograms == {[s \in {"a", "b", "sample"} |-> IF s = "a" THEN Chain ELSE Diamond]}

(* Symbols: functions with and without a score, or stubs; imports with and *)
(* without an index; strings of the runtime, or none; no image.            *)
Fn(va, score, stub) == [va |-> va, score |-> score, stub |-> stub]
Import(slot, library, callers) == [slot |-> slot, library |-> library, callers |-> callers]
Str(address, runtime) == [address |-> address, runtime |-> runtime]
MCDocuments ==
    [a |-> [functions |-> <<Fn(1, 20, FALSE), Fn(2, 19, FALSE), Fn(3, 30, TRUE)>>,
            imports |-> <<Import(1, 2, 0), Import(2, 1, 1), Import(3, 2, 2)>>, indexed |-> TRUE,
            strings |-> <<Str(1, TRUE), Str(2, FALSE)>>, sections |-> <<"text", "data">>,
            image |-> TRUE],
     b |-> [functions |-> <<Fn(1, 20, FALSE), Fn(2, 40, FALSE), Fn(3, 0, FALSE)>>,
            imports |-> <<Import(1, 1, 0)>>, indexed |-> FALSE,
            strings |-> <<Str(1, FALSE)>>, sections |-> <<"text">>, image |-> TRUE],
     sample |-> [functions |-> <<Fn(1, 20, FALSE), Fn(2, 0, FALSE), Fn(3, 0, FALSE)>>,
            imports |-> <<>>, indexed |-> FALSE, strings |-> <<>>, sections |-> <<>>,
            image |-> FALSE]]
MCContains ==
    {<<x, "t">> : x \in {<<"fn", 1>>, <<"imp", 3>>, <<"str", 1>>, <<"sect", "text">>,
                        <<"folder", "imports">>}} \cup
    {<<x, "r">> : x \in {<<"fn", 3>>, <<"str", 2>>, <<"library", 1>>, <<"folder", "fn-rest">>}}
=============================================================================
