--------------------------- MODULE FindingWindow ---------------------------
(***************************************************************************)
(* The window that explains one finding (ui/FindingWindow.tsx), which the  *)
(* shell owns and does not key: a second finding is shown by the component *)
(* that showed the first.  Behind it, the explain and explanation routes   *)
(* of src/backend/server.js and the workflow that posts the text.          *)
(*                                                                         *)
(* A finding is its function and its API; every run has the same ones.     *)
(***************************************************************************)
EXTENDS Workspace

CONSTANTS
    Findings,
    SampleExplained     \* those SAMPLE_EXPLANATIONS has

ASSUME WindowAssumption == SampleExplained \subseteq Findings

VARIABLES
    window,     \* finding, the source it came from; mount; what it shows
    reads,      \* the effect's requests, cancelled when the finding changes
    explains,   \* requests and polls of Explain: the finding of their closure
    explained,  \* stored: [Runs and the sample -> [Findings -> versions]]
    prompts,    \* explanations the model has been asked for
    strayed     \* ghost: what was last put in the window was asked for another
                \* finding or of another run, or was kept when its place changed

windowVars == <<window, reads, explains, explained, prompts, strayed>>

NoFinding == "none"
NoText == [finding |-> NoFinding, source |-> "none", version |-> 0]
Shut == [mount |-> 0, finding |-> NoFinding, source |-> "none",
         text |-> NoText, state |-> "not-run", busy |-> FALSE]
IsOpen == window.finding # NoFinding
Stored(finding) == explained[Source(client)][finding]

(* The state an explanation is shown with.                                 *)
StateOfText(text) == IF text = NoText THEN "not-run" ELSE "done"

(* onExplainFinding: the window opens, or shows another finding.  The      *)
(* effect asks for its explanation and drops the answer to the one before; *)
(* it does not run again for the same finding of another run.              *)
(* Mutant: that answer is not dropped.                                     *)
Cancelled_Never(S) == S
Cancelled(S) == {[r EXCEPT !.cancelled = TRUE] : r \in S}

OpenFinding(finding) ==
    /\ Spend("finding")
    /\ Loaded /\ app.view \in {"analysis", "ai"}
    /\ <<finding, app.data>> # <<window.finding, window.source>>
    /\ window' = IF IsOpen THEN [window EXCEPT !.finding = finding, !.source = app.data]
                 ELSE [Shut EXCEPT !.mount = window.mount + 1,
                                   !.finding = finding, !.source = app.data]
    /\ reads' = IF finding = window.finding THEN reads
                ELSE Cancelled(reads) \cup
                       {[n |-> Fresh(reads), finding |-> finding, cancelled |-> FALSE,
                         source |-> Source(client)]}
    /\ strayed' = (IsOpen /\ (strayed \/ (finding = window.finding /\ window.text # NoText)))
    /\ UNCHANGED <<client, appVars, explains, explained, prompts>>

CloseFinding ==
    /\ Spend("finding")
    /\ IsOpen
    /\ window' = [Shut EXCEPT !.mount = window.mount]
    /\ reads' = Cancelled(reads)
    /\ UNCHANGED <<client, appVars, explains, explained, prompts, strayed>>

ReadAnswered(r) ==
    /\ reads' = reads \ {r}
    /\ LET text == explained[r.source][r.finding]
       IN  window' = IF r.cancelled THEN window
                     ELSE [window EXCEPT !.text = text, !.state = StateOfText(text)]
    /\ strayed' = IF r.cancelled THEN strayed ELSE r.source # window.source
    /\ UNCHANGED <<client, left, appVars, explains, explained, prompts>>

(* The window says what went wrong; the text and the state that it shows,  *)
(* those of the finding before included, stay.                             *)
ReadFails(r) ==
    /\ Spend("failure")
    /\ r.source # Sample
    /\ reads' = reads \ {r}
    /\ strayed' = (strayed \/ (~r.cancelled /\ window.text # NoText))
    /\ UNCHANGED <<client, appVars, window, explains, explained, prompts>>

(* onExplain and the explain route: the request is forwarded and answered  *)
(* "queued"; the sample answers from what it has.                          *)
PressExplain ==
    /\ Spend("explain")
    /\ IsOpen /\ ~window.busy /\ window.state # "running"
    /\ window' = [window EXCEPT !.busy = TRUE]
    /\ explains' = explains \cup
          {[n |-> Fresh(explains), mount |-> window.mount, finding |-> window.finding,
            source |-> Source(client), at |-> "asked"]}
    /\ prompts' = IF client.mode = "sample" THEN prompts
                  ELSE prompts \cup {[source |-> Source(client), finding |-> window.finding]}
    /\ UNCHANGED <<client, appVars, reads, explained, strayed>>

Beside(e) == e.mount = window.mount /\ IsOpen

(* A text that was asked for by e, read from these sources, is written.    *)
Stray(e, from) == IF Beside(e) THEN e.finding # window.finding \/ from # {window.source}
                  ELSE strayed

ExplainAnswered(e) ==
    /\ e.at = "asked"
    /\ IF e.source = Sample
       THEN /\ explains' = explains \ {e}
            /\ window' = IF Beside(e) THEN [window EXCEPT !.text = Stored(e.finding), !.busy = FALSE,
                                              !.state = StateOfText(explained[Sample][e.finding])]
                         ELSE window
            /\ strayed' = Stray(e, {Sample, Source(client)})
       ELSE /\ explains' = (explains \ {e}) \cup {[e EXCEPT !.at = "polling"]}
            /\ window' = IF Beside(e) THEN [window EXCEPT !.state = "queued", !.busy = FALSE]
                         ELSE window
            /\ UNCHANGED strayed
    /\ UNCHANGED <<client, left, appVars, reads, explained, prompts>>

(* The request fails, or the read after it.                                *)
ExplainFails(e) ==
    /\ Spend("failure")
    /\ e.at = "asked"
    /\ explains' = explains \ {e}
    /\ window' = IF Beside(e) THEN [window EXCEPT !.state = "failed", !.busy = FALSE] ELSE window
    /\ UNCHANGED <<client, appVars, reads, explained, prompts, strayed>>

(* The workflow posts its text, which replaces the one before.             *)
Explained(q) ==
    /\ prompts' = prompts \ {q}
    /\ explained' = [explained EXCEPT ![q.source][q.finding] =
                        [finding |-> q.finding, source |-> q.source, version |-> @.version + 1]]
    /\ UNCHANGED <<client, left, appVars, window, reads, explains, strayed>>

(* A tick of the poll: the first text that is there ends it, new or not.   *)
(* A tick that fails is one that finds nothing.                            *)
ExplainPolled(e) ==
    /\ e.at = "polling" /\ Stored(e.finding) # NoText
    /\ explains' = explains \ {e}
    /\ window' = IF Beside(e) THEN [window EXCEPT !.text = Stored(e.finding), !.state = "done"]
                 ELSE window
    /\ strayed' = Stray(e, {Source(client)})
    /\ UNCHANGED <<client, left, appVars, reads, explained, prompts>>

(* Two minutes later the timer is cleared, and nothing is said.            *)
ExplainDropped(e) ==
    /\ e.at = "polling"
    /\ explains' = explains \ {e}
    /\ UNCHANGED <<client, left, appVars, window, reads, explained, prompts, strayed>>

(* A run opened, or the source switched, under the window: it stays.       *)
Outlives == UNCHANGED windowVars

WindowInit ==
    /\ window = Shut /\ reads = {} /\ explains = {} /\ prompts = {} /\ strayed = FALSE
    /\ explained = [s \in Runs \cup {Sample} |-> [f \in Findings |->
           IF s = Sample /\ f \in SampleExplained
           THEN [finding |-> f, source |-> s, version |-> 1] ELSE NoText]]

(***************************************************************************)
(* Properties                                                              *)
(***************************************************************************)

(* The explanation in the window is one of the finding in its title, of    *)
(* the run it came from, and "done" is said of it, once what the window    *)
(* asked for when it showed the finding has been answered.  Left out, until*)
(* the window is written again or closed: a text that was asked for beside *)
(* another finding or read from another run, and one that stays because    *)
(* the read for a new title failed or the same finding of another run is   *)
(* shown, which asks for nothing.                                          *)
WindowShowsOwn ==
    IsOpen /\ ~strayed /\ (\A r \in reads : r.cancelled) =>
        /\ window.text # NoText => /\ window.text.finding = window.finding
                                   /\ window.text.source = window.source
        /\ window.state = "done" => window.text # NoText

(* The window says "queued" only while something will change that, as the  *)
(* lift pane is at pains to do (Decompiler.tsx, l.100-106).                *)
QueuedIsWatched ==
    IsOpen /\ window.state = "queued" =>
        \E e \in explains : Beside(e) /\ e.at = "polling" /\ e.finding = window.finding

(* The window of a finding shows that finding's explanation.               *)
TextIsOfFinding ==
    IsOpen /\ window.text # NoText /\ (\A r \in reads : r.cancelled) =>
        window.text.finding = window.finding
=============================================================================
