# Specifications of the reverse-engineering workbench

TLA+ models of the program in this repository: a C++ engine (`Senior-Project/`,
namespace `sp`) that disassembles a Windows executable, a Node/Express backend
(`backend/`) that runs the engine and drives a language model through n8n, and a
React page (`frontend-react/`) that polls the backend. The models are checked
with TLC on small instances; the safety properties of most of them are also proved
with TLAPS, for every value of the constants (section 7).

Line numbers below are those of the files at the commit this project is kept
beside. Paths are relative to the root of the repository.

## 1. The system

```
 browser page --HTTP, polling--> backend (one Node event loop) --spawn--> engine (one thread)
                                   |   ^                                    |
                      webhook POST |   | callback POST                      v
                                   v   |                             files of the run
                                  n8n + model (external)        (meta.json, analysis/, ai/)
```

The backend keeps no database: each run is a directory of JSON files, and every
handler reads a file, edits the object, and writes the whole object back. The
page keeps all its tabs over one module, `api/client.ts`, whose two variables say
which run, and which data source, every request is about.

| Component | State | Operations | What is hard | What makes it correct |
|---|---|---|---|---|
| AI job queue, `backend/aijobs.js` | `aijob-<task>.json` (items, pending, counters, state), requests out | start (automatic, named, forced), pump, dispatch, result, failure, reap, stop, reset | every `await` lets another handler run between reading and writing the job; results are lost, late, or come twice; restarts | the job agrees with itself; nothing is sent twice; a result is accounted for; the batch comes to rest; a stop holds |
| AI selection, `aijobs.js` | none (pure) | `selectFunctions`, `expandSelection`, `selectionForFindings` | recursion, ceilings that cut, two orders at once | the best are taken, the nearest first, callees before callers, previews are exact |
| AI result versions, `aijobs.js`, `server.js` | one result file per task and function, five old versions in it | `recordResult`, review, reset, stamp and mark of reports, prompts | two results at once, a re-lift under a report, views that read the file and views that read the job | evidence stays readable, marks are true, the views agree |
| JSON store, `backend/store.js` | the file, a temporary file per write, `writeQueues` | `writeJson`, `patchJson`, `readJson` | failures and restarts between the temporary file and the rename; a chain of promises some of which reject | one atomic document, writes in call order, every call answered, nothing left over |
| Run lifecycle, `backend/runner.js`, `server.js`, `patchMeta` | `meta.json`, the engine's output, the child process | upload, spawn, progress lines, `error`, `close`, post-processing, lift results, delete | updates nobody waits for; `error` followed by `close`; delete under way | the stage never goes back, the end and its cause are shown, a deleted run stays away |
| Workspace, `App.tsx`, `api/client.ts`, `ui/AnalysisView.tsx` | open run, function on screen, trail, pinned root | open a run, switch the source, visit, go back, pin | answers in any order; a run opened while functions of another are on their way | one run on screen, the trail is the way that was gone |
| Upload page, automated run, lift pane, finding window | React state, timers | ticks, clicks, late answers | a tick starts while the last one waits; an answer for what is no longer shown; the page outlives the run | nobody waits for ever, nothing starts twice, an answer is shown where it belongs |
| Selection dialog, `ui/ChoiceRun.tsx` | what is ticked, the preview, the running press | tick, preview, run, skip | previews that answer out of order | what runs is what was shown |
| Hardening, `harden/PeHardener.cpp`, `SecurityView.tsx` | the copy of a run's binary, the report on the page | inspect, harden, download | two hardenings of one run, a killed engine, a tab closed meanwhile | the copy asks for no less than the original, and for nothing it cannot have |
| Symbol tree, findings box, Summary, `ui/` | open folders, filter; rows and totals | fold, filter, sort | state that outlives the run it was made for | every symbol once, counts and rows that agree with the results |
| n8n and the model (external) | requests it holds | answer, answer again, lose | any order, no promise | nothing is assumed of it |
| Disassembler, `src/disasm` | decode queue, instruction store, code map | descent, padding, sweep, retraction | overlapping instructions, code that runs into data, ends of gaps | everything reachable and nothing else; gaps are exact; speculation stays apart |
| Discovery and control-flow graphs, `src/analysis` | entries, leaders, functions with blocks and edges | discover, build, back-fill callers, rebuild, retract | where a function ends; what a rebuild forgets | blocks are disjoint and closed, no code of a function is lost, calls known at both ends when first built |
| Call graph, reachability, summaries, xrefs, strings, lift context, exporters, loader | tables filled in one pass | one call each | sequential, arithmetic edges | see section 8 |

Interactions. The page calls the backend and polls `meta.json` and the job; a
poll of a running job is what finds overdue requests. The backend spawns the
engine, reads its stderr for stages, and takes its files after `close`. It posts
requests to n8n without waiting for them; n8n posts results to a callback route,
which stores the result, updates the job, refreshes the summary in `meta.json`
and starts `pump`, again without waiting. The upload page and the automated run stay
mounted whatever tab is shown, so they go on acting on whichever run the client
points to by then.

## 2. Modules

| Module | Models | State corresponds to |
|---|---|---|
| `AiJobs` | `backend/aijobs.js`: `startBatch`, `mergeSelection`, `pump`, `dispatchOne`, `recordResult`, `recordFailure`, `reapStalled`, `stopBatch`, `resetTask` | `job` is the file; `result` the result files; `open[f]` the requests n8n holds; `task[w]` a handler suspended at an `await` with the job as it read it; `kicks` the calls `void pump(...)` made but not begun |
| `Selection` | the pure part of `aijobs.js`: `selectFunctions`, `expandSelection`, `selectionForFindings` | no state; a program is the record of what the engine exported |
| `ChoiceRun` | `ui/ChoiceRun.tsx`, over the preview and start routes | `picked`, `wanted`, `depth`, `tasks`, `skip` the controls; `asked` previews under way; `run` the press that is going on |
| `AiResults` | the versioned result files, `buildAiPayload`, reviews, the routes that read results | `stored[t][f]` the versions of a file, newest first; `recording` calls of `recordResult` between read and write; `asked` prompts out; `reset` the tasks a reset has still to clear |
| `ResultViews` | what the pages make of them: `SymbolTree.stateOf`, `FindingsBox`, the ai-findings route, the totals and rows of `SummaryView` | no state of its own |
| `AtomicFile` | what `store.js` promises its callers (comment l.98-125): an atomic document, calls applied whole and in order | `file`, `answer`, `ticket` |
| `JsonStore` | how it does so: promise chain, temporary file, rename, clean-up, map of tails | `at[o]` where a call stands, `prev` the promise it is chained to, `tail` the entry of `writeQueues` |
| `RunLifecycle` | `startAnalysis`, `patchMeta`, the routes that create, reset and delete, the handlers that refresh the summary | `meta` is `meta.json`; `reads` are `patchMeta` calls whose existence check is out; `queue`/`taken` the merges in `JsonStore`; `engine`, `reached`, `noStart` the variables of `startAnalysis` |
| `Client` | `api/client.ts` as its callers see it | `client`: the mode and run every request is about |
| `Workspace` | `App.tsx` and the selection of `AnalysisView.tsx` | `app`, `detail`, `selected`, `nav`, `replaying`; `loads`/`opens` the calls of `loadRun` and `openFunction` under way |
| `UploadPage` | `ui/UploadView.tsx` | `poll` is `pollRef`; `timers` the intervals that are set, `ticks` their requests |
| `AutomatedRun` | `ui/AutomatedRun.tsx` | `auto` its state, `guard` the ref that keeps Start from being pressed twice; `polls`, `posts`, `stops`, `clearing` its requests; `jobs` the server's |
| `CallPaths` | the breadth-first search of `ui/RootPath.tsx` | no state |
| `AnalysisTab` | `ui/Decompiler.tsx`, `ui/CallCard.tsx`, `ui/useFunctionBlurb.ts`, `ui/RootPath.tsx` | `pane` and its `waits` (the polls of lifts); `cache` and `lookups` of the call card; `graph` the one the path is looked for in |
| `SecurityTab` | `ui/SecurityView.tsx`, the mitigation and harden routes, `run_mitigations`/`run_harden` of the command line, `PeHardener.cpp` | `images` the binaries, `hardened` each run's copy, `sec` the view, `commands` requests and the engines they run |
| `FindingWindow` | `ui/FindingWindow.tsx` and the explanation routes | `window`; `reads` the effect's requests; `explains` the closures of Explain with their polls; `explained` what is stored |
| `SymbolTree` | `ui/SymbolTree.tsx` | `tree`: what is open, the filter; the rows are computed |
| `Shell` | composes the eight page modules above over one `client` | |
| `Disassembly` | `Disassembler`, `CodeMap`, `DecodeQueue`, instruction storage | `queue`/`queued`, `insns`, `ranges` under their names; `cursor` the loop variable of a pass |
| `ControlFlow` | `FunctionDiscovery`, `CFGBuilder`, steps 4-5 of `Pipeline::analyze`, `reanalyze_function`, `retract_region` | `entries`, `leaders` the build context; `work`/`queued` the worklist; `now` the function under construction |
| `MCAiJobs`, `MCAiResults`, `MCChoiceRun`, `MCJsonStore`, `MCRunLifecycle`, `MCShell`, `MCDisassembly`, `MCControlFlow` | instances for TLC: model values, programs, images, budgets | |
| `Filters` | what `filter`, `sort` and a `Set` make of an array, without a function as argument; used by `Selection` and `SymbolTree` | no state |
| `AiJobsProofs`, `RunLifecycleProofs`, `AiResultsProofs`, `ChoiceRunProofs`, `DisassemblyProofs`, `ControlFlowProofs`, `ShellProofs` | theorems about the module each is named after, and their proofs; `AiResultsProofs` also has those about `JsonStore`, which result files are written through | |
| `Induction` | lemmas on natural numbers, and on sequences that are filtered, sorted and joined, that the other proofs rest on | |

How they compose. `RunLifecycle` takes from `JsonStore` only what `AtomicFile`
promises: merges of one file run one at a time, and each is a read and an atomic
write. `AiJobs` takes the same promise for `writeJson`: a write is one step. That
is why `JsonStore` is shown to implement `AtomicFile` first. `AiResults` has the
races of the result files and changes the job in one step; the races of the job
file are `AiJobs`'s. `ChoiceRun` uses `Selection`. `Shell` extends the modules of
the pages: a step of one page leaves the others alone except where the code
reaches over (`loadRun` is called by the upload page; a change of the function on
screen is followed by the pane; showing the Security tab mounts it anew).

A definition named `X_Something` beside `X` is a faulty variant of `X` that
the properties must be able to tell from it. Nothing else uses these.

### Granularity

*Backend.* Node runs one callback at a time, so everything between two awaits is
one step and everything across an `await` is two. In `AiJobs` a handler is a read
step (`StartRead`, `ResultRead`, ...) that keeps a snapshot and a write step that
replaces the file by what it computed from the snapshot. `Workers` bounds how
many handlers are suspended at one time. One worker means that no two overlap.

*Page.* The same: a click up to its first request is a step, and so is what
follows an answer. A request carries what its closure captured (the run, the
mode, the mount it belongs to), and reads `client` at the moment the code does.
Answers come in any order. An interval may start a tick while the last one waits.

*Engine.* It is one thread. One turn of each loop is a step (`Pop`, `DecodeNext`,
`SweepDecodes`, `Block`), so invariants see the structures between the turns too.
Hardening is two: the copy is emptied, then whole.

### Abstractions

* `AiJobs`: one run and one task. Time is abstracted: any set of items that are
  out may be found older than `SEND_TIMEOUT_MS`. `paceDispatch`, which only
  delays, is left out. Reading the stored results of a selection is one step.
  A stored result is `good`, `bad` (`parse_error`) or absent; its content is
  `AiResults`'s.
* `AiResults`: a result is a number that stands for its text, a list of the
  findings its issues name, and the version it was reasoned from. `version_id` is a
  number that grows. n8n is assumed to be configured. The selections that start a lift follow one
  order, the engine's (`PicksAssumption`).
* `Selection`: a call graph, scores, the engine's bottom-up order, findings with
  their paths. Two orders of functions with the same score are both the code's. `IsProgram` says
  what the engine's exports promise: the order lists nothing twice, and callees before their
  callers except in a recursion (`JsonExporter.cpp` l.945-966, `CallGraph.cpp` l.64-75); findings
  and paths name functions of `functions.json`.
* `RunLifecycle`: stages are numbered; log text is left out, a line names a stage
  or none. `InOrder` says whether file reads of `patchMeta` answer in the order
  they were made, which the thread pool behind `fs` usually does and does not
  promise. `Overlap` bounds the handlers refreshing the summary at one time.
* The pages: functions are addresses that every binary has; a run is what it is
  called. Text, layout, progress figures and messages are left out.
  `AutomatedRun` sees jobs as their states, which the server changes at any time; a job that says
  "running" although what it counted as done and failed reaches its total is in state "full", since
  the page takes it for over (`AutomatedRun.tsx` l.117).
* `SecurityTab`: an image is its flags, the permissions of its sections and whether
  the header checksum is right. Which image a run has is decided when somebody first looks.
* `SymbolTree`: a node is its kind and key; which labels contain which filter text
  is given. There is one function, and one string, at an address.
* `Disassembly`: what Capstone decodes at an address is part of the image. Among
  requests of one confidence any may be taken next, which covers the heap's order.
* `ControlFlow`: instructions have a length, a flow kind and a target; `return`
  stands for halt too. No pass fills `resolved_targets`, so jump tables never
  occur and are left out. Traversal orders, thunks and the frame fields are
  derived data and left out. `retract_region` and `reanalyze_function` have no
  caller in the repository; they are modelled as the public interface they are.

Some variables are not in the code (`ghost` in their declarations) and say only
what has happened, so that a property can leave out a case that the code loses:
`torn` (the result files on which two handlers overlapped), `uncleaned` (writes that failed and
whose temporary file could not be removed either), `lapsed` (a preview failed or came
after a later one), `answered` and `mixed` (loads and functions answered out of
turn), `slow` (an upload's tick took longer than the timer), `strained` (an automated run acted on
an answer that a Stop, a new Start, a later stage or another run had overtaken), `behind` (stages the
page left because their counters said so), `told` (functions whose lift came in and that no
lookup has read before or failed to read since), `strayed` (what was last put in the finding window was
asked for elsewhere, or stayed when its place changed), `foreign`, `reviewed`, `touched`. What happens in
those cases is in section 5.

## 3. Runs

| Run | Question | Distinct states |
|---|---|---|
| `jobs_overlap` | Is the job file consistent with itself whatever two overlapping handlers and a restart do? | 1.3 million |
| `jobs_serial` | When handlers do not overlap: is each function paid for once, every result accounted for, do the books match, is a stop final? | 963,000 |
| `jobs_settle` | Does a running batch come to rest, whichever replies are lost or repeated? | 70,000 |
| `results_kept` | Is the evidence of a report kept as long as it must, its stale mark true, do the views and totals agree, do prompts carry the callees? | @RK |
| `choice_exact` | Does a batch take the best functions, a preview list exactly what is reached, and Run start what was shown? | 730,000 |
| `store_atomic` | Does the promise chain implement an atomic file, with failing reads, writes, renames, removals and a restart, and is every call answered? | @SA |
| `run_ordered` | Does the page see the stages in order, the end and its cause, the true number of lifts, and never a deleted run again? | 174,000 |
| `shell` | Do the pages over one client show what belongs to the open run, start each stage once, wait for nothing in vain? | @SH |
| `disasm_exact` | Does the descent find exactly what control reaches, and is what the code map says true? | 127,000 |
| `cfg_built` | Is each function complete, its graph sound, its calls known to both ends when first built, and is nothing retracted left? | 2.2 million |
| `jobs_double_send` | (violated) Is each function sent once when handlers overlap? | |
| `shell_relift` | (violated) Does a Re-lift wait for another text? | |

Run one with `tlc -config <run>.cfg <MC module>` in this directory.

### What the properties say

*AiJobs.* `JobConsistent`: a running job has something pending or out; a job that
is not running has nothing pending; no item is queued outside the pending list, or
twice in it; by the job's book no more than the window is out. It holds even though
overlapping handlers undo one another, because every handler derives what it
writes from some whole, earlier job. What overlapping does break is everything
that relates the file to the rest of the world: `NotPaidTwice` (requests),
`ResultAccounted` (result files), `BooksMatch` (the counters follow the items, the
window holds of the open requests), `StopHolds` (what was written in between).
These are checked for handlers that do not overlap and shown to fail for handlers
that do (section 5).

*AiResults, ResultViews.* `EvidenceKept`: the lift that a bug report was reasoned
from can be read until as many later lifts as are kept have pushed it out; a lift that is missing
although the history has room, or holds an older one, is a violation. A reset that is half way is left out,
and so are functions on whose lift two handlers overlapped; handlers that overlap on the reports are
not. `StaleTellsTruth`: a report is marked stale exactly when
the text has changed since (or was reviewed). `CalleesFirst`: a lift is told of every
callee the batch took before it, but for those out or failed, at most `Window - 1`
of them out (a prompt is built from what is stored when its item is marked as sent, `aijobs.js` l.494-512,
in one step). `ViewsAgree` (`TablesAgree`, `TreesAgree`, `TotalsAgree`, `RatingsAreEngines`): the
symbol tree, the Summary, the findings box and the behaviour profile say the same
of a function although some read the result files and some the job. `TotalsAgree` is the line above the
Summary's table: it counts as done the reports that the trees mark, as failed the answers that could not be
used and the items that were given up before any answer came, and what is outstanding is in a stage shown as
active. Where a file and an item differ (a stored result whose item failed) the property says what each
view makes of it.

*ChoiceRun.* `SelectionBest`, `PreviewExact` (against a closure of the call graph
defined without the code's queue), `StartedAsShown`.

*JsonStore.* `Atomic` is the specification of `AtomicFile`, checked as a property.
`NothingLeft`: a temporary file is of a call that is writing it, of one the server died under, or of one that
failed and whose removal (`store.js` l.143, awaited and not caught) failed too, never of a call that succeeded;
and when nobody writes the map has no entry. `EveryCallSettles`.

*RunLifecycle.* `RowOnlyForward`: the stage never goes back, and once a run is deleted
and nothing is under way for it, late callbacks do not bring it back. `EndShown`: done
with the file the page loads first, or failed with the cause that came first.
`LiftedTruthful`, `RunSettles`.

*The pages.* `ScreenIsOneRun` (run, client, menu and data are one, whatever order
loads are answered in), `TrailTellsWay`, `UploadWatched` (a binary that is being
analysed has a timer, and only one; it is opened once), `StagesInTurn` (however ticks overlap, two stages
of a run are at work together, or a stage starts, only when the one before is over or its counters told the
page so; none is left after the end), `LiftWatched`, `LiftIsNew`, `TabShowsOwn` (the pane shows no other
function's lift; the card denies none that came in, unless a lookup had read before it, or failed since),
`PathTruthful` (the path to the pinned root is a shortest one, and "none" without reservation is true),
`HardenedAsAsked`, `WindowShowsOwn` (what the window shows is of its finding and its run once what it asked for
has been answered, unless what was last put there was asked for elsewhere or a failed read left it),
`TreeExact`.

*Disassembly.* `DescentExact` compares the descent with reachability defined
independently; `MapTruthful`: the gaps are the bytes no range covers, the sweep
overlaps nothing explained, a retracted region is data. `Terminates`.

*ControlFlow.* `NothingLost` (against a reference closure), `GraphSound` (no
instruction in two blocks, no dangling edge, nothing outside a declared extent),
`CallsKnownToBoth` (calls and unconditional jumps, in the graphs as they are first built: a function that is built
again loses its callers, `CallersKept` in section 5), `RetractedGone` (for functions laid out from their entry
upwards; the others are `OverlappingRebuilt`). What control can reach ends at an interrupt, as in the
code (`InterruptsContinue`, section 5).

The type invariants of `AiJobs` and `JsonStore`, which the proofs rest on, are checked
by `jobs_overlap` and `store_atomic`. `RunLifecycle`, `Disassembly` and `ControlFlow`
define one too; add `TypeOK` to their configuration after changing them.

## 4. Bounds, and why they are enough

* *AiJobs.* Two workers: a lost update needs one handler that reads, and another
  that writes before the first does. Two functions with a window of one make a
  pending list, an item out and a full window at once; four with a window of two
  (`jobs_serial`) add a place that becomes free while another is out. Budgets let each event happen
  once and bound the replies to one, two or three. `jobs_overlap` has a named start, a
  re-lift, a reply, a reset and a restart in every order.
* *Replies are bounded in `jobs_settle`* for more than the state space: a stored
  answer makes a handler that writes an old job back, and if n8n answered for ever
  the job could be written back as running for ever. A model that really answers
  each request at most a few times cannot do that.
* *AiResults.* Two functions, one calling the other, and all three tasks; three findings of the engine,
  two of one API, and reports that
  name one of them and one that the engine never made. Four versions and `Kept` two (the code keeps five):
  a
  report's lift is looked for as the current one, in a history that has room and in one that is full. One that
  is pushed out needs a fifth version: that case is in the proof only.
  Three `Budgets`: one handler
  with two starts and two extra events; two overlapping calls of `recordResult` with two starts
  and one extra; the same with three starts and none. An extra is a review, a reset, a bad
  answer, an item given up, or an answer delivered twice. `MaxRows` is one, so that a row can be left undrawn.
* *ChoiceRun.* Six call graphs of four functions: chain, diamond, fan, recursions of two and
  of three, one in which a function is near and far; two tables of scores, with and
  without library code and findings. At most two are taken automatically and three by
  an expansion, so that ceilings cut. Two or three changes, two presses.
* *JsonStore.* Three calls (two patches of different fields, one replacement), any await of which may fail, so
  that one call is behind a failing one and another behind both; one restart.
* *RunLifecycle.* Three stages, two progress lines, one lift, one reset, one
  delete, one restart: each of the updates can be under way with each other.
* *Shell.* Two runs and the sample, three addresses, a trail of three (the code's cap is
  40), two uploads, two stages, two requests of one timer at once. People are bounded by
  `Budgets`: a behaviour draws one of the twenty-four kinds of session in `MCShell`, each of
  which has few events of the kinds that interact: functions visited and retraced while
  another is on its way (`Walking`), runs opened in succession (`Opening`, `Racing`),
  two uploads with a failure (`Uploading`), the data source switched under an upload, a lift, a
  batch, a hardening or an explanation (`Reverting`, `Swapping`, `Sampling`, `Overtaking`, `Quoting`), stages
  stopped, started again, reset and failing, or with counters that run ahead of the work
  (`Automating`, `Restarting`, `Failing`, `Lagging`), lifts in one pane, two panes, after a
  return and with a review (`Lifting`, `Returning`, `Revisiting`, `Reviewing`), call
  cards with a lookup that fails (`Hovering`), pinned roots (`Rooting`), requests that fail (`Losing`),
  hardenings (`Securing`), findings with a read that fails or of two runs (`Explaining`, `Comparing`) and the tree (`Browsing`). What is not
  caused by people (answers, ticks, the model, the server) is not bounded.
  Two call graphs: a chain with a call through a pointer, and a diamond with a recursion.
  Five images: everything to do and signed; 32 bits with a code and a data section that are
  both writable and executable; no relocations; hardened but for one section; no image.
* *Disassembly.* A section of four bytes with instructions of one and two bytes that
  fall through, jump to 1 or 3, do both, or do not decode, and one of three bytes that
  holds a target of its own; three choices of filler and of trusted starts. Two bytes
  suffice for an instruction that overlaps another, three for one that lies within
  another, and four for a gap with code on both sides.
* *ControlFlow.* Four instructions, each of every flow kind with targets 0 and 3;
  three sets of loader facts: one trusted function with a prologue, two functions
  bounded by `.pdata` with a prologue inside, and a function that never returns;
  two regions to retract. That is enough for blocks below the entry, a tail call,
  a fall-through into another function and a loop.

Deadlock is not checked: a batch, a run, an analysis or a session that is over waits
for nobody, and budgets run out.

## 5. Disagreements with the repository's own words

Two are runs:

| Run | Disagreement |
|---|---|
| `jobs_double_send` | Two results that land together start two pumps; both read the job before either writes it (`aijobs.js` l.484-507) and both send the same function. The comment at l.495 gives not paying twice as the reason for the order of the steps. |
| `shell_relift` | A review is stored through `recordResult` (`server.js` l.549), which gives the unchanged text a new version. The poll of a Re-lift takes any other version for the new lift (`Decompiler.tsx` l.66-73), so the wait ends with the old text. |

More configurations are kept beside these, for who changes this code. Each ends in a
violation:

| Configuration | Property | Shows |
|---|---|---|
| `jobs_crash_stall` | `JobSettles` | If the server stops between writing a running job and its pump, nothing is out, `reapStalled` changes nothing and returns before pumping (l.659), and the poll, which l.632 calls the means of recovery, never recovers it. |
| `jobs_stop_undone`, `jobs_reset_undone` | `StopHolds`, `ResetHolds` | A handler that read the job before a stop or a reset writes it back running. |
| `jobs_window_relift` | `OpenWithinWindow` | A forced start of an item that is out lets more requests be open than the window. |
| `jobs_counters_relift` | `CountersMatch` | After it, `failed` does not follow the items until the next result. |
| `run_deleted_back` | `DeletedIsGone` | `patchMeta` checks for the run, and queues its merge afterwards (`store.js` l.193); a delete in between leaves a `meta.json` with the patched fields alone, although l.186 says it refuses to create metadata. |
| `run_stage_back`, `run_end_hidden` | `RowOnlyForward`, `EndShown` | With reads that answer out of order, a stage is overwritten by an earlier one, and the end by a late line. |
| `run_lifted_stale` | `LiftedTruthful` | Two lifts that are counted at the same time: the older count is written last. |

These properties of the modules are violated when they are put into a configuration of
their module (change the INVARIANTS of the named one):

| Property | In | Shows |
|---|---|---|
| `OverlappingRebuilt` | `cfg_built` | `retract_region` takes `entry < end && extent_end > start` for overlap (`Pipeline.cpp` l.265); a block below the entry is missed, and its instructions stay. `Pipeline.h` l.71 promises that every overlapping function is rebuilt. |
| `EntriesNotSwallowed` | `cfg_built` | A conditional jump into another function is an edge (`CFGBuilder.cpp` l.231 asks for the extent only), although l.209 calls it a boundary. |
| `RangesDisjoint` | `disasm_exact` | Ranges of overlapping instructions overlap, which `CodeMap.h` l.66 excludes; the coverage counts such bytes twice. |
| `CardKeepsUp` (`Budgets <- MCHovering`) | `shell` | The call card caches "not decompiled yet" for ever, also when a batch lifts the function afterwards. |
| `OnlyTheRunAskedFor` (`Budgets <- MCHijacking`) | `shell` | An automated run continues on the run that is opened under it (the later stages are posted to the client's run), although `AiAnalysisView.tsx` l.176-182 says it keeps going. |
| `InterruptsContinue`, `CallersKept` | `cfg_built` | The code after an interrupt is not in the function; a rebuilt function has no callers. |
| `OneSelection` | `shell` | A function of the run before stays in the AI tab's selection or on the screen after another run is opened. |
| `RetracingKeepsTrail` (PROPERTY, `Budgets <- MCWalking`) | `shell` | A second Back pressed before the first is answered rewrites the trail. |
| `AlreadyHardened` | `shell` | `fully_hardened` does not look at sections, so the button is disabled and the page says "Everything this tool can enable is enabled" (`SecurityView.tsx` l.284-287) of an image with a writable and executable section. |
| `ChangedWhatWasSeen` (PROPERTY; a session with a view, an upload and two opens, one hardening) | `shell` | A run that is opened while the tab shows the report of another is hardened under that report. |
| `QueuedIsWatched`, `TextIsOfFinding` | `shell` | The finding window says "queued" for ever after two minutes; a late poll shows the text of another finding, since the window is not made anew. |
| `CleanIsClean`, `RunAlwaysDrawn` (`Picks <- MCHiding`) | `results_kept` | The ai-findings route lists the items of the current job only, so that after a new batch the tab says "reported no defects" of functions whose older report has some; the Summary neither draws nor counts a function whose results outlived their job. |

What the exemptions of the listed properties leave out, and the code loses:

* *Results.* `derived_from` is stamped when the report arrives, not when its prompt was
  sent (`server.js` l.1255). A review makes the reports of the text stale and pushes a
  duplicate into the history, which `server.js` l.545 denies. Two results that land together lose
  a version. The comment that a caller's callees have been done by the time it is processed is not so with
  a window of two. `buildAiPayload` sends the failure text of a lift as
  the summary of a callee. After a re-lift that timed out over a good result, the Summary says
  done and the job failed. A finding of the engine that the model confirms counts twice in the
  badge; `SummaryView`'s total of done leaves out the state `done`; its poll
  stops in the gap between two automated stages.
* *Selection.* An automatic hunt takes nothing when every function on the path of a finding is
  excluded, although others could be taken. "Skip what is analysed" looks for any result of any task,
  the property's doc for a decompilation. The preview normalises addresses and
  the start does not.
* *Runs and functions.* `loadRun` leaves the function of the old run on screen, and the finding
  window open. A function asked for before another run is opened puts a crumb of the
  old binary in the trail. A row of the Summary does not open its function. `UploadView`'s
  tick puts the data source back to what it was when the upload started.
* *Uploads and batches.* A tick that answers late stops the timer of a newer upload, or opens
  the run twice. Start pressed while a Reset is under way leaves the page idle with a job at work. The
  second stage's old `done` may be read before its start has landed, and ends it. A tick that
  read the jobs of one run is acted on in the next: with four opens and two starts, the `done`
  of the other run's stage starts the next stage of this one. A tick that waits while Stop is pressed, or while
  the next stage ends, may start a stage after it. A stage whose counters reach the total while
  something is queued or out again is left at work, and the next one starts beside it
  (`AutomatedRun.tsx` l.117); these two may be at work after the page has said "finished". A batch of nothing is answered
  as empty and not written (`aijobs.js` l.340), so that the page, which reads the file, may wait for ever.
* *Files.* When a write fails and the removal of its temporary file fails too, the file stays, and the caller is
  told the second cause instead of the first (`store.js` l.143).
* *Finding window.* A read that is rejected sets the error and leaves the explanation and the state of the
  finding before under the new title (`FindingWindow.tsx` l.41). The same finding of another run asks for nothing.
* *Lifts.* A lift that is pressed before the first `getLifted` answers takes the old version for
  the new one. The five minutes of a first lift end a second one. `forgetBlurb` under a pinned
  card leaves it at "Looking up". A lookup that fails is entered as "no lift" and not tried again
  (`useFunctionBlurb.ts` l.39-43), also after the lift has come in; a lookup that read before the lift came in, and
  ends afterwards, enters what it read.
* *Hardening.* In sample mode the tab reads headers for ever. An engine that is
  killed leaves a part of a copy, which is offered for download. The box for sections stays ticked
  when it is no longer shown.
* *Tree.* The two trees refetch their marks at different times (`AnalysisView.tsx` l.145-148
  says otherwise). The count of Functions leaves out the stubs that are listed
  there. A click on a folder under a filter changes what shows when the filter is gone.

## 6. Fairness

* `AiJobs!FairSpec`: weak fairness of `Proceed(w)` and `ReapRead(w)` for each worker.
  Node runs every continuation that is ready, and every started pump; the page
  polls while a job is running, and an item that is out becomes overdue. Nothing is
  assumed of n8n, of users, or of restarts.
* `JsonStore!FairSpec`: weak fairness of `Work(o)`: file operations end, promises run.
* `RunLifecycle!FairSpec`: weak fairness of `Proceed`: the same, and the engine ends.
  The backend has no time limit for it, so an engine that hangs leaves the run as it
  is. `RunSettles` exempts a restart, after which nobody listens to the engine.
* `Disassembly!FairSpec`: weak fairness of `Step`: one thread runs until it is through.
* The pages, the results and the dialog have none. What must go on there is stated as
  safety: whoever waits has a timer or a request that will end it (`UploadWatched`,
  `LiftWatched`), since a browser answers every request, if only with an error.

## 7. Proofs

Proved with TLAPS for all values of the constants: any functions, call graphs, images,
runs, sessions, numbers of overlapping handlers and of events. The assumptions are
those the modules name (`FnsAssumption` finite and not empty, `RankAssumption` injective,
`WindowAssumption` and `StagesAssumption` positive, `NobodyAssumption` and its like: the markers are
none of the documents and calls, `UploadsAssumption`, `SecurityAssumption`, `ViewsAssumption`,
`GraphsAssumption` and `SelectionAssumption` types, `ChoiceAssumption` that a program is `IsProgram`,
`PicksAssumption` and `TreeAssumption` the facts about exports in section 2); TLC evaluates each of them. Hypotheses beyond these stand in the theorems, and are listed here
with the reason. Every inductive invariant was checked by TLC on the run of its module first.

| Module | Theorem | States | Under |
|---|---|---|---|
| `AiJobsProofs` | `TypeCorrect`, `JobFileConsistent` | `TypeOK`, `JobConsistent` | |
| | `StopIsFinal`, `ResetIsFinal` | `StopHolds`, `ResetHolds` | `Serial` |
| | `SentOnce`, `BooksKept` | `NotPaidTwice`, `BooksMatch` | `Serial`, `OneStart` |
| | `NoResultForgotten` | `ResultAccounted` | `Serial`, `OneStart`, `NoCrash` |
| `RunLifecycleProofs` | `RowGoesForward`, `EndIsTold` | `RowOnlyForward`, `EndShown` | `InOrder` |
| | `CountIsTrue` | `LiftedTruthful` | `InOrder`, `Overlap = 1` |
| `AiResultsProofs` | `EvidenceIsKept`, `StaleIsTrue` | `EvidenceKept`, `StaleTellsTruth` | |
| | `ViewsAreOne`, `CalleesAreTold` | `ViewsAgree`, `CalleesFirst` | |
| | `StoreTyped`, `Implements`, `LeavesNothing` | `TypeOK`, `Atomic`, `NothingLeft` of `JsonStore` | |
| `ChoiceRunProofs` | `SelectionIsBest`, `PreviewIsExact`, `BatchesAreAsShown` | `SelectionBest`, `PreviewExact`, `StartedAsShown` | |
| `DisassemblyProofs` | `TypeCorrect`, `MapIsTruthful`, `DescentIsExact` | `TypeOK`, `MapTruthful`, `DescentExact` | |
| `ControlFlowProofs` | `TypeCorrect`, `CallsAreKnown`, `RetractedIsGone`, `NothingIsLost` | `TypeOK`, `CallsKnownToBoth`, `RetractedGone`, `NothingLost` | |
| | `GraphIsClosed` | two of the three parts of `GraphSound` | |
| | `GraphIsSound` | `GraphSound` | `Disjoint` |
| `ShellProofs` | `ScreenShowsOneRun`, `TrailIsOfWay` | `ScreenIsOneRun`, `TrailTellsWay` | |
| | `UploadIsWatched`, `StagesGoInTurn` | `UploadWatched`, `StagesInTurn` | |
| | `LiftIsWatched`, `TabIsOfFunction`, `LiftAgainIsNew` | `LiftWatched`, `TabShowsOwn`, `LiftIsNew` | |
| | `WindowIsOfFinding`, `CopyIsAsAsked` | `WindowShowsOwn`, `HardenedAsAsked` | |
| | `PathIsShortest` | the search of `CallPaths`, on every call graph | |
| | `PathIsTruthful` | `PathTruthful` | |
| | `TreeIsExact` | `TreeExact` | `NamedApart` |

The hypotheses:

* `Serial` (one worker: handlers do not overlap). Without it `NotPaidTwice`, `StopHolds` and
  `ResetHolds` are refuted by `jobs_double_send`, `jobs_stop_undone` and `jobs_reset_undone`.
* `OneStart` (one start that takes new items, no forced one): a forced start sends again what is out
  (`jobs_window_relift`, `jobs_counters_relift`). Replies, failures, timeouts, stops, resets and
  restarts are not limited.
* `NoCrash`: a restart between writing a result and writing the job loses the second.
* `InOrder`: reads of `patchMeta` answer in the order they were made (refuted without: `run_stage_back`,
  `run_end_hidden`). `Overlap = 1`: one refresh of the summary at a time (`run_lifted_stale`).
* `Disjoint`: no two decoded instructions overlap. Without it two blocks that run into each other at
  different offsets may end with the same instructions, as TLC shows. `GraphIsClosed` is what
  holds of every image.
* `NamedApart`: no two imports of a run have the same slot, no two sections the same name. The rows of
  the tree are keyed by these (`SymbolTree.tsx` l.207, l.293), and the loader does not see to it: an import
  without an address in the table gets `kInvalidVA` (`BinaryLoader.cpp` l.88-89), and a section table may
  repeat a name. Two such symbols share a row's key. It is not asked of functions and strings.

The arguments:

*`AiJobsProofs`.* `JobConsistent` alone is not inductive: a write step replaces the file by something
computed from a snapshot, of which it says nothing. `IInv` adds that the snapshot of every handler
was such a job too (`HandlersOK`). Lemmas about the operators (`AfterResult`, `AfterFailure`,
`AfterReap`, `AfterStop`, `AfterPump`, `Fresh`, `Merged`) show that each maps a consistent job to a
consistent one, whatever functions it is about: pending lists that are cut and joined stay free
of repetitions, counts of items out stay within the window, settling happens when the
last item goes. The step lemma then needs, for each action, only which job it reads, and
that what it writes was made by those operators. For handlers that do not overlap, `Current` says
that a handler about to write has the file as its snapshot; what relates the file to the requests
that are open, and to the results on disk, is an invariant on top of that.

*`RunLifecycleProofs`.* The patches of a run that wait for their read, are queued, or are being merged
are taken as one list. A later patch never undoes an earlier one (`Follows`): stages do not
fall, and nothing after the end of the analysis names a stage or an error. So whatever part has been
merged, the row is one the page may see, and when nothing is under way it shows the end. For the count, the last patch
that carries one carries the number of lifts, unless a refresh that will is still to come.

*`AiResultsProofs`.* The steps fall into four kinds: a version is made, it is written, a task is cleared,
and anything else. The versions of a file are numbered downwards; a lift that a report names, stored or on its
way, is in the file or the file is full (`EvidenceInv`). The id of a version tells its text (`TextInv`), so
the stamp of a report and the text it was reasoned from can be compared (`BackedInv`). The views agree
because what waits is on the pending list (`QueueInv`) and an answer that could not be read reports no
issue (`HonestInv`); the sums of the tables are then compared view by view. For the prompts (`LiftsInv`): the
pending list keeps the engine's order within a batch and batches are numbered, so a callee that the list
had before a function is neither queued nor absent when the function's turn comes; and a lift that is done is stored.

*`AiResultsProofs`, on the store.* The promise chain is a refinement of `AtomicFile`. The mapping is the
identity on `file` and `ticket`, and `answer` is computed from where a call stands. Tickets are
distinct and grow (`Tickets`); an unanswered call made after another unanswered one
is chained to an unanswered call no earlier than that (`Chained`); the map's entry
is the last unanswered call (`TailLast`); hence at most one call is past its
turn (`Alone`), and what a patch has read is still the file (`Fresh`). `Rename` is
then the abstract call taking effect, every other step a stutter or an answer.

*`ChoiceRunProofs`.* What is cut, filtered, sorted or rid of repetitions is described by what it
contains, by whether it contains it once, and by what comes before what. The expansion is followed
call by call (`Midway`) and level by level (`Walked`) against the sets `Within` that the property
iterates: as long as nothing was cut, what is selected is the set; once something was, it lies between two
levels of it. Previews are numbered, and the one on screen is of the controls as they stood when it was asked for;
while Run is at work the batches started are, stage by stage, what was shown at the press, whatever is ticked meanwhile.

*`DisassemblyProofs`.* Of the descent: what is decoded is reachable, and whatever a decoded instruction
leads to is decoded, queued, or not decodable, so an empty queue means a closed set; the closure that the
property iterates is that set (`ReachableIsClosure`). Of the map: the ranges are those of the instructions
and of the padding, and `unclaimed_ranges` walks them in order; the walk is followed by induction.

*`ControlFlowProofs`.* `IInv` says what is true of a function under construction between two blocks: its
edges lead to blocks or to the worklist, what was queued is a block or waits. Callers and callees
are two ends of one relation as long as functions are built for the first time and back-filled; a rebuild drops the
callers (`Pipeline.cpp` l.244), and nothing is claimed after it.

*`ShellProofs`.* A step of one page leaves the variables of the others alone (the frame lemmas), so each page
has an invariant of its own, proved from the steps that reach it. `OneRun`, of the workspace, is
known to all: whenever a load is out or a run is shown, the client points to a run, and the newest
load is for that run. On it rest `UploadInv` (one timer per binary that is analysed),
`AutoInv` (which job of the run that was pressed is at work, by what the page waits for, what its ticks have read,
and what counters told it),
`TabBusy`, `Stores`, `OwnPane` and `ToldIsStored` (a poll belongs to a mount of the pane, and what it
took before it is older than what it finds; a lift that was told of is stored, and every lookup under way that has
read found it), `OwnText` (what the window waits for, and what was put in it unless it strayed, is
its finding's), `OnTrail` (functions that are asked for one at a time are either at the pointer
already, by a jump, or leave the pointer where it is), and `SecInv`: the view has one request at a
time, an image once looked at stays, what is being written may be written. `CopyIsRight` is
the theorem about the engine itself, for every image and all options: `apply_mitigations` leaves no
less than there was, nothing the image cannot have, and only what was asked for. For the call path, the graph that is
searched is the open run's (`Rooted`), and the search is followed by levels: what it has met after n rounds
is what n calls reach, and each met function has a chain back that is as long as its level (`PathIsShortest`).
For the tree, a `Forest` is a list of nodes whose paths fit together, each id once; leaves are one, two
side by side whose ids are apart are one, a folder over one is one, and the tree of any document is put together
from these. The rows on screen are a part of it that leaves no gap above a row; if a symbol below a folder that
is opened to the end were not among them, the topmost shut folder above it would have a row, and it
would be shut. Of the state it needs only that a tree that was touched is that of a run that is loaded.

*`Induction`.* The library's induction theorems take an operator, which the provers cannot instantiate. That
each nonempty set of numbers has a least element is first-order, and so are what follows from it:
a set that holds 0 and, with each number, the next holds all (`UpTo`), a function that a recursion
on a number describes exists (`Recursion`), and what `FlattenSeq` and the operators of `Filters` return.
`SelectSeq`, `SortSeq` and the folds take an operator and are out of reach in the same way; the modules that
are proved about say what these compute in terms of places and sets instead (`Filters`), or as a recursive function.

Only model-checked: liveness (`JobSettles`, `EveryCallSettles`, `RunSettles`, `Terminates`), since
fairness and `ENABLED` are outside what the provers do. Every safety property of the passing runs is
stated by a theorem.

## 8. Not modelled, and the plan

Done: the job queue, the selection, the versions of results and their views, the store and its
refinement, the run lifecycle, the pages that poll or keep state across runs, hardening, the
disassembler, functions and their graphs; the theorems of section 7.

Theorems: each safety property that a run checks is proved. Those of section 5 that the code
violates would need a changed program.

Models planned: *Reachability* (the breadth-first search and its evidence path,
`Reachability.cpp` l.116, against shortest paths) with the call graph's components against
mutual reachability; *AddressSpace* in 32 bits (l.50: `rva + virtual_size` wraps);
*AnnotationStore* (l.18: an analysis name replaces an accepted name of the model); the timer of the Summary tab;
the context prompt and deleting from Reports.

Left out for good: the loader (a translation of what LIEF parsed), Capstone, the
exporters and lift context (formatting), the analyse and export commands (arguments around
`Pipeline`), the API classifier (a table), loop and structural analysis (stubs in the code),
cross-reference and string tables (filled in one pass), views that only draw (graphs, metrics,
menus, floating windows), `sample.ts` (data), `types.ts` (declarations), the demo and the benchmark.
`paceDispatch` needs real time: batches that wait together go out together (`aijobs.js` l.58).
