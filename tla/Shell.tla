------------------------------- MODULE Shell --------------------------------
(***************************************************************************)
(* The pages that stay mounted whatever tab is shown - the workspace with  *)
(* the Analysis tab and the window of a finding, the upload page and the   *)
(* automated run - and the Security tab, over the one run that the client  *)
(* module points to.  Each may act at any time; what they share is the     *)
(* client, loadRun, and the function on screen.                            *)
(***************************************************************************)
EXTENDS UploadPage, AutomatedRun, AnalysisTab, SecurityTab, FindingWindow, SymbolTree

CONSTANT Budgets    \* bounds on the events, one of which each behaviour gets


pageVars == <<uploadVars, autoVars>>
asideVars == <<secVars, windowVars, treeVars>>
shellVars == <<client, left, appVars, pageVars, tabVars, asideVars>>

Init == left \in Budgets /\ WorkspaceInit /\ UploadInit /\ AutoInit /\ TabInit
        /\ SecurityInit /\ WindowInit /\ TreeInit

(* What a step of one page leaves alone.                                   *)
InShell == UNCHANGED <<pageVars, asideVars>>
Elsewhere == InShell /\ UNCHANGED tabVars
OnUploadPage == UNCHANGED <<autoVars, tabVars, asideVars>>
OnAutoPage == UNCHANGED <<uploadVars, tabVars, asideVars>>
OnTab == InShell /\ UNCHANGED <<client, appVars>>
OnSecurity == UNCHANGED <<pageVars, tabVars, windowVars, treeVars>>
InWindow == UNCHANGED <<pageVars, tabVars, secVars, treeVars>>
InTree == UNCHANGED <<pageVars, tabVars, secVars, windowVars>>

(* A run is opened, or the source switched, under all of them.             *)
Opened == Leaves /\ Outlives /\ UNCHANGED <<secVars, treeVars>>

Next ==
    \/ \E r \in Runs : OpenReport(r) /\ UNCHANGED pageVars /\ Opened
    \/ Reload /\ UNCHANGED pageVars /\ Opened
    \/ \E m \in Modes : SwitchMode(m) /\ UNCHANGED pageVars /\ Opened
    \/ \E l \in loads : LoadAnswered(l) /\ Elsewhere
    \/ \E l \in loads : LoadFails(l) /\ Elsewhere
    \/ \E va \in Vas : OpenFunction(va) /\ Elsewhere
    \/ \E va \in Vas : SelectFunction(va) /\ Elsewhere
    \/ \E i \in 1 .. MaxTrail : Jump(i) /\ Elsewhere
    \/ \E o \in opens : OpenAnswered(o) /\ InShell /\ Follows
    \/ \E o \in opens : OpenFails(o) /\ Elsewhere
    \/ \E v \in Views : ShowView(v) /\ UNCHANGED <<pageVars, windowVars, treeVars>> /\ Leaves /\ Mounts
    \/ PinRoot /\ InShell /\ Leaves
    \/ \E u \in Numbers : SendFile(u) /\ OnUploadPage
    \/ \E u \in Numbers : FileSent(u) /\ OnUploadPage
    \/ \E u \in Numbers : SendFails(u) /\ OnUploadPage
    \/ \E u \in Numbers : RunSettles(u) /\ OnUploadPage
    \/ \E u \in Numbers : Tick(u) /\ OnUploadPage
    \/ \E u \in Numbers : TickDone(u) /\ UNCHANGED autoVars /\ Opened
    \/ \E u \in Numbers : TickEnds(u) /\ OnUploadPage
    \/ \E u \in Numbers : TickWaits(u) /\ OnUploadPage
    \/ PressStart /\ OnAutoPage
    \/ \E p \in posts : PostLands(p) /\ OnAutoPage
    \/ \E p \in posts : PostBlocked(p) /\ OnAutoPage
    \/ \E p \in posts : PostRefused(p) /\ OnAutoPage
    \/ \E r \in Runs, k \in StageNumbers : JobEnds(r, k) /\ OnAutoPage
    \/ \E r \in Runs, k \in StageNumbers : CountersFill(r, k) /\ OnAutoPage
    \/ \E r \in Runs, k \in StageNumbers : CountersRight(r, k) /\ OnAutoPage
    \/ Poll /\ OnAutoPage
    \/ \E t \in polls : ReadJob(t) /\ OnAutoPage
    \/ \E t \in polls : PollStopped(t) /\ OnAutoPage
    \/ \E t \in polls : PollAdvances(t) /\ OnAutoPage
    \/ \E t \in polls : PollFinishes(t) /\ OnAutoPage
    \/ \E t \in polls : PollWaits(t) /\ OnAutoPage
    \/ PressStop /\ OnAutoPage
    \/ StopLands /\ OnAutoPage
    \/ StopFails /\ OnAutoPage
    \/ PressReset /\ OnAutoPage
    \/ \E r \in clearing : ResetLands(r) /\ OnAutoPage
    \/ \E r \in clearing : ResetFails(r) /\ OnAutoPage
    \/ \E q \in model : ModelAnswers(q) /\ UNCHANGED left /\ OnTab
    \/ FetchAnswered /\ UNCHANGED left /\ OnTab
    \/ FetchFails /\ OnTab
    \/ PressLift /\ OnTab
    \/ \E w \in waits : LiftQueued(w) /\ UNCHANGED left /\ OnTab
    \/ \E w \in waits : LiftOver(w) /\ UNCHANGED left /\ OnTab
    \/ \E w \in waits : LiftFails(w) /\ OnTab
    \/ \E w \in waits : PollLands(w) /\ UNCHANGED left /\ OnTab
    \/ \E w \in waits : Expire(w) /\ UNCHANGED left /\ OnTab
    \/ Review /\ OnTab
    \/ \E va \in Vas, pinned \in BOOLEAN : ShowCard(va, pinned) /\ OnTab
    \/ DropCard /\ OnTab
    \/ \E l \in lookups : LookupRead(l) /\ UNCHANGED left /\ OnTab
    \/ \E l \in lookups : LookupOver(l) /\ UNCHANGED left /\ OnTab
    \/ \E l \in lookups : LookupFails(l) /\ OnTab
    \/ GraphAnswered /\ UNCHANGED left /\ OnTab
    \/ \E c \in commands : ReportAnswered(c) /\ OnSecurity
    \/ \E c \in commands : ReportFails(c) /\ OnSecurity
    \/ TickWx /\ OnSecurity
    \/ \E anyway \in BOOLEAN : PressHarden(anyway) /\ OnSecurity
    \/ \E c \in commands : Engine(c) /\ OnSecurity
    \/ \E c \in commands : Written(c) /\ OnSecurity
    \/ \E c \in commands : HardenAnswered(c) /\ OnSecurity
    \/ \E c \in commands : HardenFails(c) /\ OnSecurity
    \/ \E f \in Findings : OpenFinding(f) /\ InWindow
    \/ CloseFinding /\ InWindow
    \/ \E r \in reads : ReadAnswered(r) /\ InWindow
    \/ \E r \in reads : ReadFails(r) /\ InWindow
    \/ PressExplain /\ InWindow
    \/ \E e \in explains : ExplainAnswered(e) /\ InWindow
    \/ \E e \in explains : ExplainFails(e) /\ InWindow
    \/ \E q \in prompts : Explained(q) /\ InWindow
    \/ \E e \in explains : ExplainPolled(e) /\ InWindow
    \/ \E e \in explains : ExplainDropped(e) /\ InWindow
    \/ \E id \in Folders : Toggle(id) /\ InTree
    \/ \E needle \in Needles : TypeFilter(needle) /\ InTree

Spec == Init /\ [][Next]_shellVars
=============================================================================
