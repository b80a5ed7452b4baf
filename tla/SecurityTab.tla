---------------------------- MODULE SecurityTab ----------------------------
(***************************************************************************)
(* The Security tab (ui/SecurityView.tsx), the routes behind it, and the   *)
(* engine commands they run (run_mitigations and run_harden of the command *)
(* line, src/harden/PeHardener.cpp): what a binary asks the loader for,    *)
(* and a copy of it that asks for more.                                    *)
(*                                                                         *)
(* An image is its flags, its sections' permissions and whether its header *)
(* checksum is right.  Which image a run has is decided when somebody      *)
(* first looks.  The view is mounted only while its tab is shown; the      *)
(* engine goes on without it, and two may write the same file.             *)
(***************************************************************************)
EXTENDS Workspace

CONSTANT Images     \* the binaries there may be

VARIABLES
    images,     \* input files of the runs
    hardened,   \* hardened.exe of each run
    sec,        \* the view: mount, report, result, error, busy, fixWx
    commands    \* requests under way: loads of the report, hardenings

secVars == <<images, hardened, sec, commands>>

Unseen == [parsed |-> FALSE, read |-> FALSE]
NotPe == [parsed |-> FALSE, read |-> TRUE]
NoFile == [there |-> FALSE, whole |-> FALSE]
NoReport == [run |-> "none"]
NoOptions == [signed |-> FALSE, wx |-> FALSE]

Section == [write : BOOLEAN, execute : BOOLEAN, code : BOOLEAN]
PeImage ==
    [parsed : {TRUE}, read : {TRUE}, plus : BOOLEAN, dep : BOOLEAN, aslr : BOOLEAN, he : BOOLEAN,
     reloc : BOOLEAN, stripped : BOOLEAN, signed : BOOLEAN, sum : BOOLEAN, sections : Seq(Section)]

ASSUME SecurityAssumption == Images \subseteq PeImage \cup {NotPe}

(***************************************************************************)
(* PeHardener.cpp                                                          *)
(***************************************************************************)

WriteExecute(s) == s.write /\ s.execute
FullyHardened(b) == b.aslr /\ b.dep /\ (b.plus => b.he)

Offenders(b) == {i \in DOMAIN b.sections : WriteExecute(b.sections[i])}
HasWriteExecute(b) == Offenders(b) # {}
Nothing == [flags |-> {}, sections |-> {}]

(* apply_mitigations: what it applies, and the image it leaves.            *)
(* Mutant: high-entropy ASLR without ASLR.                                 *)
Applied_HighEntropyAlone(b, options) ==
    [flags |-> {m \in {"dep", "aslr", "he"} :
                  \/ m = "dep" /\ ~b.dep
                  \/ m = "aslr" /\ ~b.aslr /\ b.reloc /\ ~b.stripped
                  \/ m = "he" /\ ~b.he /\ b.plus},
     sections |-> IF options.wx THEN Offenders(b) ELSE {}]

Applied(b, options) ==
    LET rebased == b.aslr \/ (b.reloc /\ ~b.stripped)
    IN  [flags |-> {m \in {"dep", "aslr", "he"} :
                      \/ m = "dep" /\ ~b.dep
                      \/ m = "aslr" /\ ~b.aslr /\ rebased
                      \/ m = "he" /\ ~b.he /\ b.plus /\ rebased},
         sections |-> IF options.wx THEN Offenders(b) ELSE {}]

(* A code section loses write, one of data execute.                        *)
Permissions(s) == IF s.code THEN [s EXCEPT !.write = FALSE] ELSE [s EXCEPT !.execute = FALSE]

Hardened(b, options) ==
    LET a == Applied(b, options)
    IN  IF a = Nothing THEN b
        ELSE [b EXCEPT !.dep = @ \/ "dep" \in a.flags, !.aslr = @ \/ "aslr" \in a.flags,
                       !.he = @ \/ "he" \in a.flags, !.sum = TRUE,
                       !.sections = [i \in DOMAIN b.sections |->
                           IF i \in a.sections THEN Permissions(b.sections[i]) ELSE b.sections[i]]]

(* What is not an image is refused, and a signed one unless allowed.       *)
Refused(b, options) == ~b.parsed \/ (b.signed /\ ~options.signed)

(***************************************************************************)
(* The view                                                                *)
(***************************************************************************)
Shows(c) == app.view = "security" /\ c.mount = sec.mount
Command(kind, mount, run, options) ==
    {[n |-> Fresh(commands), mount |-> mount, kind |-> kind, run |-> run,
      options |-> options, at |-> "asked", result |-> NoReport]}
Loads(mount) == Command("load", mount, Source(client), NoOptions)
Moves(c, d) == commands' = (commands \ {c}) \cup {d}

(* Shown anew each time the tab is.                                        *)
Mounts ==
    IF app'.view = "security"
    THEN /\ sec' = [mount |-> sec.mount + 1, report |-> NoReport, result |-> NoReport,
                    error |-> FALSE, busy |-> FALSE, fixWx |-> FALSE]
         /\ commands' = commands \cup Loads(sec.mount + 1)
         /\ UNCHANGED <<images, hardened>>
    ELSE UNCHANGED secVars

(* GET /mitigations and load: the sample has no report.                    *)
ReportAnswered(c) ==
    /\ c.kind = "load"
    /\ commands' = commands \ {c}
    /\ \E b \in IF c.run = Sample THEN {NotPe}
                ELSE IF images[c.run] = Unseen THEN Images ELSE {images[c.run]} :
          /\ images' = IF c.run = Sample THEN images ELSE [images EXCEPT ![c.run] = b]
          /\ sec' = IF ~Shows(c) THEN sec
                    ELSE [sec EXCEPT !.error = FALSE, !.busy = FALSE,
                              !.report = IF c.run = Sample THEN NoReport
                                         ELSE [run |-> c.run, image |-> b,
                                               available |-> hardened[c.run].there]]
    /\ UNCHANGED <<client, left, appVars, hardened>>

ReportFails(c) ==
    /\ Spend("failure")
    /\ c.kind = "load"
    /\ commands' = commands \ {c}
    /\ sec' = IF Shows(c) THEN [sec EXCEPT !.report = NoReport, !.error = TRUE, !.busy = FALSE]
              ELSE sec
    /\ UNCHANGED <<client, appVars, images, hardened>>

Readable == app.view = "security" /\ sec.report # NoReport /\ sec.report.image.parsed

(* The box is there where a section has both permissions.                  *)
TickWx ==
    /\ Readable /\ HasWriteExecute(sec.report.image)
    /\ sec' = [sec EXCEPT !.fixWx = ~@]
    /\ Spend("tick")
    /\ UNCHANGED <<client, appVars, images, hardened, commands>>

(* The two buttons: the second for a signed image only.  A hardening is    *)
(* asked for whatever the mode.                                            *)
PressHarden(anyway) ==
    /\ Spend("harden")
    /\ Readable /\ ~sec.busy
    /\ IF anyway THEN sec.report.image.signed ELSE ~FullyHardened(sec.report.image)
    /\ sec' = [sec EXCEPT !.busy = TRUE, !.error = FALSE]
    /\ commands' = commands \cup
          Command("harden", sec.mount, client.run, [signed |-> anyway, wx |-> sec.fixWx])
    /\ UNCHANGED <<client, appVars, images, hardened>>

(* run_harden: the file is emptied, then written; nothing is touched when  *)
(* the image is refused or nothing can be applied.                         *)
Engine(c) ==
    /\ c.kind = "harden" /\ c.at = "asked"
    /\ \E b \in IF images[c.run] = Unseen THEN Images ELSE {images[c.run]} :
          /\ images' = [images EXCEPT ![c.run] = b]
          /\ LET refused == Refused(b, c.options)
                 a == IF refused THEN Nothing ELSE Applied(b, c.options)
                 told == [run |-> c.run, ok |-> ~refused, applied |-> a]
             IN  /\ Moves(c, [c EXCEPT !.at = IF a = Nothing THEN "over" ELSE "writing",
                                       !.result = told])
                 /\ hardened' = IF a = Nothing THEN hardened
                                ELSE [hardened EXCEPT ![c.run] = [there |-> TRUE, whole |-> FALSE]]
    /\ UNCHANGED <<client, left, appVars, sec>>

Written(c) ==
    /\ c.at = "writing"
    /\ Moves(c, [c EXCEPT !.at = "over"])
    /\ hardened' = [hardened EXCEPT ![c.run] =
                       [there |-> TRUE, whole |-> TRUE, options |-> c.options,
                        image |-> Hardened(images[c.run], c.options)]]
    /\ UNCHANGED <<client, left, appVars, images, sec>>

(* onHarden, answered: the result is shown and the report read again.      *)
HardenAnswered(c) ==
    /\ c.kind = "harden" /\ c.at = "over"
    /\ sec' = IF Shows(c) THEN [sec EXCEPT !.result = c.result] ELSE sec
    /\ commands' = (commands \ {c}) \cup Loads(c.mount)
    /\ UNCHANGED <<client, left, appVars, images, hardened>>

(* No engine, no file, no document, or the two minutes are over and it is  *)
(* killed, be it half way through the file.                                *)
HardenFails(c) ==
    /\ Spend("failure")
    /\ c.kind = "harden"
    /\ commands' = commands \ {c}
    /\ sec' = IF Shows(c) THEN [sec EXCEPT !.error = TRUE, !.busy = FALSE] ELSE sec
    /\ UNCHANGED <<client, appVars, images, hardened>>

SecurityInit ==
    /\ images = [r \in Runs |-> Unseen] /\ hardened = [r \in Runs |-> NoFile]
    /\ commands = {}
    /\ sec = [mount |-> 0, report |-> NoReport, result |-> NoReport,
              error |-> FALSE, busy |-> FALSE, fixWx |-> FALSE]

(***************************************************************************)
(* Properties                                                              *)
(***************************************************************************)

(* The copy of a binary asks the loader for no less than the original and  *)
(* for nothing it cannot have: no ASLR without relocations, no randomised  *)
(* 64 bits without ASLR; a section that had both permissions loses the one *)
(* its kind does not need, and only when it was asked for; a signature is  *)
(* only broken by the button that says so.                                 *)
CopyRight(was, now, options) ==
    /\ now # was /\ now.sum /\ now.dep
    /\ was.aslr => now.aslr
    /\ now.aslr /\ ~was.aslr <=> ~was.aslr /\ was.reloc /\ ~was.stripped
    /\ was.he => now.he
    /\ now.he /\ ~was.he <=> ~was.he /\ was.plus /\ now.aslr
    /\ was.signed => options.signed
    /\ \A i \in DOMAIN was.sections :
          LET s == was.sections[i]
              t == now.sections[i]
          IN  IF options.wx /\ WriteExecute(s)
              THEN t.execute = s.code /\ t.write = ~s.code ELSE t = s

(* The copy a run has, once whole, is right; and a result on the page that *)
(* says something was applied is about a file there to be downloaded.      *)
HardenedAsAsked ==
    /\ \A r \in Runs : hardened[r].whole =>
          CopyRight(images[r], hardened[r].image, hardened[r].options)
    /\ sec.result # NoReport /\ sec.result.applied # Nothing =>
          /\ hardened[sec.result.run].there
          /\ sec.report # NoReport /\ sec.report.run = sec.result.run /\ ~sec.busy =>
                sec.report.available

(* "Everything this tool can enable is enabled" (SecurityView.tsx, l.286): *)
(* where the page says so, no option would change the file.                *)
AlreadyHardened ==
    Readable /\ FullyHardened(sec.report.image) =>
        \A s, w \in BOOLEAN : Applied(sec.report.image, [signed |-> s, wx |-> w]) = Nothing

(* "'almost always' is not a basis for changing it without being asked"    *)
(* (SecurityView.tsx, l.218-220): a permission is only removed from the    *)
(* binary whose report was on the page.                                    *)
ChangedWhatWasSeen ==
    [][\A c \in commands' \ commands :
          c.kind = "harden" /\ c.at = "asked" => sec.report.run = c.run]_<<commands, sec>>
=============================================================================
