# okojo: a verification development

okojo is a compliance-investigation agent over a synthetic exchange dataset
(Python, `src/`).  It investigates one account at a time (a *case*), sweeps the
institution when a party is designated (a *sweep*), and stamps everything it
does into hash-chained audit logs.  This directory holds TLA+ models of its
parts, the TLC configurations that check them on small instances, and TLAPS
proofs of what matters most for every instance.

Paths below are relative to `src/src/okojo/` unless they start with `app/`.

## Inventory

### Parts, their state and their operations

| Part | State it keeps | Operations | Correct when |
| --- | --- | --- | --- |
| audit (`audit/log.py`) | a JSONL file of records linked by hash; per `AuditLog` object the number and hash of the last record it knows | open, append, read_all, verify | a verdict names the first bad record; what verifies is what was written; runs never blend in a log that verifies |
| case pipeline and graph (`orchestrator/`) | the case directory; a case state handed through 24 nodes; the decision trace | run_case, the nodes, five routing decisions | trace, chain, path and published disposition agree; nothing is published before it is settled |
| packager (`packager/`) | `case_package.json` | build, write | the package references and the stamp pins exactly the log before it |
| case-graph store (`casegraph/store.py`) | sqlite: cases, entities | open_context, record_case | one row per case, which resolves in the case's log; the entity rows of a case are those of its last run |
| agency decisions (`agency/decisions.py`) | none | eight bounded decisions, validation of free text | an outcome out of the bounded set, grounded in what it names |
| network expander (`network/expander.py`) | discovered accounts, frontier, nodes, edges | step_walk, finish_walk, expand | independent of set order; early stop loses nothing; nothing unrelated gets in |
| SAR (`sar/`) | the draft and its revisions | draft, critique, revise, validate | at most three passes; what ends up flagged for a human is what nothing supports |
| RFI, advisory, remarks, scorer, aggregator, entity | none (reads of the tables) | the evidence stages of a case | each claim checked against its evidence once |
| sweep (`sweep/pipeline.py` and its stages) | a `SweepResult`, its own audit chain, `sweep_package.json` | run_sweep, run_sweep_batch | one row per surfaced account; every exposed account answered; the chain tells what was found |
| flow exposure (`sweep/exposure.py`) | distances, a queue | sweep_exposure | shortest distances, on cyclic ledgers too |
| counterparty lifecycle (`sweep/lifecycle.py`) | notifications, dispositions | draft, verify the stop, dispose | no unblock that is not earned; a repeat offender stays one |
| designation check (`designation_check/`) | none | one customer against all designations | agrees with the sweep |
| identity, geo, coverage | none | variants, ownership, ring; geographic signals; blind-spot assessment | a dismissed namesake seeds nothing; a proposal weighs the totality |
| bootstrap (`bootstrap.py`) | `data/synthetic`, staging and backup directories | provision_scenario_dataset | never leaves less than it found |
| connectors (`connectors/`) | the tables, loaded once per process | queries | – |
| app (`app/streamlit_app.py`) | per session: results, reviewer decisions; per process: cached connectors | run a case or a sweep, download, review | what is shown is what is offered |
| scenario generator, narrator, eval, configuration, command line | – | data, text, scores | – |

### How they interact

A session opens a subject: `run_case` removes the old log of the subject's
directory, opens an `AuditLog` on it and invokes the graph.  The nodes call the
evidence parts, append records, and hand on the case state; the five decisions
choose edges.  The last nodes build the package from the log read back, stamp
its digest into the same log, upsert the case row, and read the log once more.
Every session that opens the same subject does so in the same directory, and
nothing locks it.  A sweep does the same in the directory of a designation, as a
straight line of stages, over tables the process loaded when it started; people
keep changing those tables.  The designation check derives the customer's state
from the same tables by a path of its own.  Before all this, the boot hook of
each process provides the dataset in a parent directory all processes share.

### What is hard

* **Concurrency**: several runs on one case directory, several processes
  booting over one dataset, no lock in either place.
* **Crashes and partial failure**: a node raises after writing an artifact and
  before stamping it; a process dies between two renames; a fail-closed check
  ends a sweep for everybody.
* **Stale state**: the tail of a log held in memory, a test of completeness
  acted on later, tables loaded once per process, a digest kept by a session
  while the file is replaced.
* **Order**: walks over Python sets, gas rows read once in table order, a
  breadth-first walk from several sources, five stages that each must remember
  one corroboration outcome.
* **Bounds**: the hop cap, three revision passes, LangGraph's 100 supersteps.

`PROJECT.json` lists every one of these hazards at its line, with the
properties that would catch it, or why none does.

## Modules

| Module | Models | State ↔ code |
| --- | --- | --- |
| `AuditLog` | the data of the chain: records, tails, `verify_records`' tests | digest = the tuple it covers (SHA-256 taken collision-free); a body is one value |
| `AuditVerify` | one log, its writer, damage to the file, and the verifier record by record | `disk` the file, `tail` = `(_seq, _last_hash)`, `scan` the locals of `verify_records`; `EditBody`, `EditLink`, `DropLine`, `SwapLines` are the world |
| `CaseRuns` | runs of one case over the files they share | `disk`, `pkgFile`, `store` the three files; per session its point, its `AuditLog` tail, the records it read, its package; one action per file access of `run_case`, `_package`, `_record_case`, `_finalize`; `Abort` at any point |
| `CaseGraph` | the 24 nodes, the routers, the five decisions, records and artifacts | `node` the scheduled node, `state` the fields of `CaseState` the control reads, `log` the actions stamped; every node may raise after any prefix of its records |
| `CaseLife` | the abstract promise of one run: settle once, publish that as package, then as row | refined by `CaseGraph` (`Life == INSTANCE CaseLife WITH ...`) |
| `CaseHistory` | runs of several subjects over one case-graph store, each to a hop cap of its caller's choice | `cases`, `case_entities` the two tables; each SELECT of `open_context` is a step, `record_case` is one transaction; `reached[s][d]` is what an expansion to `d` hops reaches, `depths[r]` the cap of run `r`; `Die` anywhere; `known` is a history variable |
| `RfiCheck` | the four checkers and the verdict on a claim | operators of the tables `w`; a row is cited as `<<source, key>>`; what a lexicon finds in a claim is data |
| `AdvisoryMatch` | the matcher: topical hit, corroboration gate, ranking, the primary match | operators of `w`; similarity scores are data |
| `SarDraft` | anomalies, expansion, tells, scorer row and advisory as the claims `build_sar` and `gap_fill_claims` derive; grounding, resolution, calibration; the rubric | a claim is its element, the rows it cites and whether it quotes over-claiming words; `Discovered` is `discovered` hop by hop, `WalkNodes` the nodes the visits draw, `GasLinks` is `gas_funding_links` |
| `CaseDrafting` | adjudication claim by claim, the follow-up draft, the revision loop, its flags, a refused draft | `table`, `questions`, `draft`, `critiques`, `revisions`, `flagged` are the objects of those names |
| `Bootstrap` | `provision_scenario_dataset` of several processes, one action per access to the file system | directories are inodes with sets of tables, paths name inodes; kills anywhere, renames and generator may fail |
| `NetworkExpander` | the hop-by-hop walk, the gas collapse, the sanctioned-flow worklist | `Visit(u)` is one iteration of the loop over the frontier, a set, hence any order; `CollapseRow` is one gas row, in table order |
| `RiskScorer` | `score_risk` over the finished expansion, and the generator's answer key | operators of the expander's `nodes`, `edges`, `conn`; `Gold` is the generator's key |
| `CounterpartyLifecycle` | stage 2e of the sweep over tables that change, the eighth decision, the check's state line | `ledger`, `acks` the tables as people change them, `store` what the process loaded; `Draft`, `Dispose` one customer each |
| `FlowExposure` | the backward breadth-first walk, the hops of an account, the rows cited, adjacency | `dist`, `queue` the two locals of `sweep_exposure`; payers of a node in any order |
| `GeoTriangulation` | collectors, counter evidence, dossier, the scored action | operators of an account's records |
| `Sweep` | `run_sweep` for a party or a territory, stage by stage | `result` = `SweepResult`, `chain` the sweep's audit log, `package` = `sweep_package.json`; what the stages read is one record, `world` |
| `DesignationCheck` | `run_designation_check`: badge, hits, dismissals, flow lines, notices, territory line | a function of `world`; it keeps no state |

Composition: `AuditLog` is extended by `AuditVerify` and `CaseRuns`; `CaseGraph`
implements `CaseLife`; `RfiCheck` ← `AdvisoryMatch` ← `SarDraft` ← `CaseDrafting`;
`NetworkExpander` ← `RiskScorer`; `FlowExposure` and `GeoTriangulation` ← `Sweep` ←
`DesignationCheck`, so that the two engines that screen one designation read one
world.  `MC*.tla` give the constants their values; `*Proofs.tla` hold the theorems.
Definitions named `Mut...` are not part of the models: each is a plausible mistake in
the definition below it, against which the properties have been tried.

How data is abstracted: audit bodies, packages and remarks are single values; a name
is the set of screens it passes plus the set of forbidden terms in it; an identifier
is its comparison (`match`, `mismatch`, `unknown`); an amount is the set of transfers
it sums; networks, ledgers and hold systems are small relations.  The shape of the
tables is stated where a module reads them (`RfiTables`, `DraftTables`,
`IdentityTables`, `Tables`), as an assumption TLC evaluates on every world.  What
`CaseGraph` reads in the sources is chosen when it is read.  The walk inside
`SarDraft` is what `NetworkExpander`'s steps come to over at most one gas row, for any
number of hops; that module's runs and proofs show that the order within a hop does not
matter.  As there, an account the last hop discovers only as the controller of an
address is discovered and no node of the graph, and a gas row is drawn whoever funds it
but is a gas *link* only if the funder has a controller.  Which event of a timeline is
first and which last (`span`) is data, as is whether there is an answer under review
(`answered`: there may be one that makes no claims).

What the drafting properties compare this with is a reading of their own in
`CaseDrafting`, from the tables and without the walk: accounts are *tied* by a transfer
both are party to, a device or a document; an account is looked at if a chain of fewer
ties than the walk has hops leads to it; what its rows name is evidence (`Evidence`).
`FlaggedIsUnsupported` and `RefusedForQuotedWords` speak of that evidence only.

## Runs

Deadlock is checked except in the runs whose system stops by design.  The violation
runs are the findings below.

| Run | Question and answer |
| --- | --- |
| `audit_verify` | Is the verdict of `verify_records` exact on damaged logs?  Two contents, three records, two damages: every kind of damage twice, or two kinds combined, on a list long enough to have a first, an inner and a last record.  Yes: it names the first bad record and its first failing test, and an accepted list is a prefix of what was written, as long as nothing reseals a record. |
| `case_runs` | What do overlapping and failing runs leave?  Two sessions, three runs, one stage record (the stages' records are alike, `work` loops).  Three runs are one that fails, one it is overlapped by, and one after both.  A log that verifies never mixes runs, its packaged stamp covers exactly the records before it, and a run nothing overlapped leaves three files that agree.  The `VIEW` drops what no step and no property reads (stated in `MCCaseRuns`). |
| `case_download` | Finding.  Sessions that never overlap: is the package offered the one whose digest is shown?  Not once another session has run the subject. |
| `case_graph` | Do path, chain, trace, disposition and artifacts agree on every branch, with every node failing anywhere?  The code's own bounds for hops, revisions and supersteps; requests and network sizes on both sides of the cap; two matches and two claims, the least that separates the runner-up and the contradicted from the other cases.  Yes, and the run implements `CaseLife`. |
| `case_history` | Two subjects, two entities either may have, every pair of expansions to one hop and to two, four runs to either cap with reruns and deaths anywhere.  Two subjects are one that reads and one that records; four runs let it record, open, and be rerun shallower and deeper while the other reads.  A completed view misses no entity shared with a case on record when the run opened and no case that named the subject all the while, and invents nothing; the rows of a case are those of its last run; a finished chain is the one its row pins. |
| `drafting` | Some thousands of sets of tables over four accounts and three addresses, walks of one to three hops: ledgers that pay a sanctioned address directly, through an account or not at all, or reach a wallet whose owner is discovered in the last hop, gas from a wallet with and without a controller, shared devices and documents, past and present officers, earlier answers, remarks and labels with and without over-claiming words, up to three advisories.  A verdict is what the evidence carries, each contradiction is asked about or surfaced, the loop ends with exactly the unsupported elements flagged, and a draft is refused exactly for words it quotes.  Passes 0 and 3: with 3 the bound is never what stops the loop. |
| `followup_own_rows` | Finding.  Are the rows a follow-up names the subject's own?  Not for a funds claim. |
| `bootstrap` | Two processes, three boots, two kills or failures, every initial directory: what can a lone boot rely on after any history?  It heals, keeps the last complete dataset, and rolls one failure back. |
| `network` | 729 evidence sets over four accounts and three addresses, any visiting order, caps 1, 2 and 4: the walk finds the ball of its radius, gas rows attribute what the walk touched and pull in nothing unrelated, exposure is flow reachability, the walk ends; whoever is scored exposed can pay a sanctioned address in no fewer moves than the score says. |
| `lifecycle` | Two customers, two services listed on different days, three rows, two finished sweeps, restarts and aborts anywhere.  Three rows are a dealing, an acknowledgment and what comes after it; two sweeps are what a comparison of sweeps needs. |
| `lifecycle_dealers` | Finding.  Is every customer with a post-designation dealing answered?  Not one who only received. |
| `sweep` | Three accounts, two addresses; some 8,500 worlds: every ledger over seven payments with cycles, wallets on the way, paths of two lengths and payments on both sides of the listing; every pair of hold statuses of two accounts with every standing and banned term; every set of screens and comparison for the names, with ties to them; location records on both sides of every band.  Aborted at every stage.  Distances are shortest and dated by the payments that drive them, rows and escalations partition as documented, a namesake seeds nothing, the ring holds exactly who is tied to a party, a proposal weighs the totality, chain and package tell what was found, and the case page agrees with the sweep. |

Most bounds are set by what separates the cases a property tells apart, as the
table says; where more was affordable (`case_graph`'s own bounds, `bootstrap`'s three
boots) it was taken.

### Fairness

`network` and `drafting` state weak fairness of the whole next-state relation: `expand` and the drafting stretch are
plain loops in one thread, so a step that can be taken is.  No other run assumes any.
What a killed process would have done is therefore never assumed done.

## Proofs

All hold for every value of the constants, under the named assumptions of the
modules: bounds are naturals, tables are relations over the declared sets, sets that
are counted are finite; besides, `LimitAssumption` (`CaseGraph`: LangGraph's limit
exceeds two supersteps for each hop and the 21 other nodes a path can have),
`FiniteAssumption` (`RiskScorer`: finitely many accounts and addresses), and the
shapes of the hold tables and of the asserted ties (`Sweep`'s assumption).  TLC
evaluates each of them on the runs.

* **`DiskProofs`**, the audit log — `VerdictIsLocated`, `AcceptedIsGenuine`.  The
  verifier is a loop, so its invariant says what the records already passed are; and
  every hash on disk was computed by the writer, since damage reseals nothing
  (`HashesFrom`).  `ProofLemmas` has the lemmas on chains: a hash pins its record
  (`HashPinsRecord`), an append keeps the shape.
* **`DiskProofs`**, the dataset directory — `BootIsInvariant`, `LoneBootsHeal`,
  `FailuresRollBack` and the action property `LoneBootsKeepData`, for any number of
  processes, boots and mishaps.  None is inductive.  `DiskInv` says what any number of
  boots at once leave: no inode has two names, no two live boots one number, and
  nothing on disk bears the number of a boot that has not generated yet, which is why
  a rename of a lone boot cannot meet another's directory.  `Lone` says what a boot
  that runs alone knows at each of its points (`Looks`): that what it holds is still
  there and complete, that the target is still missing.  A boot beside it would break
  exactly these, and does (see the findings).  `Remembered` follows the directory
  first found at the target through both renames to where the rollback needs it.  The
  module holds two components' proofs, which share nothing but the disk.
* **`CaseRunsProofs`** — `LogCoversPackage`, `VerifiedLogIsSerial`, for any number
  of sessions and runs.  Neither property is inductive: the argument needs that a
  run which has appended holds the hash of its own last record, and that as long
  as that hash is the file's last, nobody has written since, so what the packager
  read still describes the file (`SessionInv`).  The action property `LoneRunsAgree`
  rests on `LoneInv`: a run that nothing has overlapped is the only one under way, and
  the log, the package file and the case row hold what it has written so far and
  nothing else (`OwnFiles`, point by point).  Its premise, `MarkersAreNoPackages`, says
  that the markers of a missing and of a torn package file are not packages.
* **`CaseGraphProofs`** — `GraphImplementsLife`: `Spec` implies `CaseLife`'s
  specification under the refinement mapping.  The invariant says that until the
  disposition is settled neither a sar-bar decision nor a referral exists, and that
  afterwards both derivations of the disposition give the settled one.  Then, from the
  type invariant (`GraphTypes`): `RunsAreReplayable`, where `ReplayInv` counts the
  decisions a path has passed and says that the stamps are the state's decisions but
  for the one a raising node has stamped and not handed on; `DispositionsAreGrounded`,
  where `GroundedInv` says which telling records the chain has at each node; and
  `ExpansionsAreComplete`, where `ExpansionInv` bounds the length of a path by the rank
  of its node and twice the hops, and says that a walk which stops is dry or capped.
  `StampedIn` is a recursive function so that the proofs can unfold it.
* **`CaseEndsProofs`**, the opening of a case — `HistoryIsAlwaysRead`,
  `StoreIsAlwaysOfLastRuns`, `PinIsAlwaysOnDisk`, for any subjects, evidence, hop caps
  and number of runs.  The store needs that every row was written by a run that was
  started, whose cap is known (`RunInv`); a view needs that what has been asked of the
  store so far lies between what was there all the while and what was there at some
  moment (`ViewInv`), for a shallow rerun takes rows away during the reading; a pin
  needs that a row is never newer than the chain of a run that is past it (`PinInv`).
* **`CaseEndsProofs`**, its close — `ContradictionsAreEarned`,
  `EveryContradictionIsAsked`, `OnlyQuotesAreRefused`, `OnlyTheUnsupportedIsFlagged`:
  all invariants of the `drafting` run, for any tables and any bound on the passes.
  The invariant (`DraftInvHolds`) is that every stage holds what its tables make of it;
  in particular the draft is the first one or the one a single pass makes of it, since
  the first draft always leaves *when* open and a second pass finds nothing to add
  (`FirstPassFills`, `OnePassFillsAll`).  The rest is about the functions of the
  tables.  A funds claim: the search finds a path exactly if what the subject sends can
  reach a sanctioned address (`FlowIsAPath`, `PathsWhereFundsReach`: a shortest trail
  repeats no transfer, so the paths the search tries suffice).  A verdict: which
  probes answer, and that two sources are two (`VerdictTakes`).  An advisory: of those
  borne out one comes first, so the draft cites one exactly if one is borne out
  (`AdvisoryShape`), and exposure is upstream reachability (`UpstreamIsTheLeast`).
  The evidence: what `n` hops discover are the ends of the chains of at most `n` ties
  (`ChainsAreHops`, by induction on `n` as below), so what the graph draws is what the
  properties call evidence, the money the scorer sees theirs, and the gas links their
  gas rows somebody's wallet paid (`EvidenceIsDrawn`).
  A draft: every claim cites something and every citation resolves (`FirstIsSound`,
  `GapClaimsAreSound`), so only words can have it refused, and only quoted ones.  The
  module holds the proofs of two components, which share nothing but the case.
* **`NetworkExpanderProofs`** — `ExhaustedWalkIsComponent`, `ExpansionIsSupported`,
  `ExposureIsReachability`, for any evidence and any order: every account found and
  not waiting to be visited has its neighbours found; every node pulled in lies in
  each set closed under links and gas rows; the worklist owes exactly the
  predecessors of what it holds.  `WalksAreBalls`: within a hop, what is found lies
  between one ball and the next and holds the neighbours of everyone visited
  (`RingInv`).  `GasIsAttributed`: the gas pass grows the graph while it reads it, so
  `WalkedInv` speaks of the rows already read and of the nodes the walk had
  (`walked`).  `ScoresAreMoney`: edges come from the tables (`EdgeInv`), what an
  exhausted walk reached is drawn, and a payer at some distance is one at a distance
  below the number of nodes.
* **`CounterpartyLifecycleProofs`** — the type invariant and all four properties of
  the `lifecycle` run: what a sweep holds is, at each stage, a function of the tables it loaded.
* **`SweepProofs`** — all invariants of the `sweep` run and `SweepInvariant`.  The
  breadth-first invariant (`WalkIsExact`): no node found is more than one hop beyond
  any queued node, the queue is sorted by distance, a node that has left it has its
  payers found at most one hop farther.  An empty queue then gives the equations of the
  shortest distance, and only the shortest distance satisfies them
  (`EveryHopIsShortest`).  `SignalBindsNobody`, `EveryOpenMatchIsAsked`,
  `TotalityIsAlwaysWeighed`, `NamesakesSeedNothing`, `SurfacedHaveOneRow` and
  `ExposureIsAlwaysAnswered` carry what a stage found through every later one
  (`AskInv`, `GeoInv`, `FoundInv`): a result is read several stages after it was
  written, and each invariant says it is still the function of the world it was.
  `TotalityIsAlwaysWeighed` rests besides on the score being monotone in the signals
  and antitone in the documents.  `ChainAlwaysTells` needs at each stage which
  records are in the chain and which cannot be yet (`ChainInv`).  `PageAlwaysTells`
  compares the finished sweep with the case page, which derives the same facts along a
  path of its own; its premise, `PlacesHaveNoAddress`, says that a designated territory
  lists no address.  Every territory of the run is of that kind; the premise is
  needed, for of a territory with an address the sweep walks the flows and the page
  does not.

Induction.  The library's induction theorems take an operator, which no prover here
can instantiate; but induction over a *set* of naturals needs none: the least element
of the complement gives it (`NatSetInduction`, from `WellFoundedInduction`), and from
it the existence of a function defined by steps (`Iterates`).  The distances, balls and
stamps above rest on that.  Reachability in a finite graph is stated by levels,
and levels stop growing after as many steps as there are nodes (`LevelsSaturate`, by
counting), which ties "some number of steps" to the bounds the definitions have.

Model-checked only: liveness (`Finishes`), which the prover does not reach, and the
properties of the violation runs, which are false.  Every other property of a passing
run is a theorem.

What the attempt to prove `drafting` found wrong in the models, and is corrected: terms
of office overlap when the *later start* is no later than the *earlier end*, also for a
term that ends before it starts; the row that shows money exposure is an *account's*,
where the choice could fall on an address; and "the money leads to" was a recursive
operator and is now what every set closed under payments must meet (`Reaches`).

## Findings

* `case_download`: the caption at `app/streamlit_app.py:2693-2696` ties the digest shown
  to the file offered; the digest is the session's, the file the latest run's.
* `lifecycle_dealers`: `sweep/pipeline.py:420-423` says each customer with
  post-designation dealing is notified and disposed of; the candidates are the
  outgoing exposed only.
* `followup_own_rows`: `agency/decisions.py:897` says requests cite the subject's own
  transaction rows only; those of a funds claim are the whole path found to a
  sanctioned address, third parties' transfers included.

What the models show besides, and no run asserts:

* `audit/log.py:5-8` promises that dropping *any* record breaks the chain; dropping
  the last ones does not (`VerifiedIsGenuine` says *prefix*).
* `bootstrap.py:12` says a complete dataset is left byte-untouched; two boots side by
  side can displace one, the second acting on a test the first has overtaken.
* `network/expander.py:14-17` says a gas-funding link attributes the hop and pulls its
  controller in; the single pass at 365 does so or not depending on the order of the rows.
* A prior case is listed only if it shares an entity (`casegraph/store.py:216-229`), and
  being named as a counterparty lasts until the next run: a rerun to fewer hops replaces
  the rows of a deeper one (`casegraph/store.py:200-211`), so *has anything about this
  subject been seen before?* (5-6) is answered from the last runs only, and a run that
  opens beside such a rerun may be told either.
* `sar/drafter.py:90-92` says the closure is every account the expansion actually
  reached; it is the nodes of the graph, and an account found in the last hop as the
  controller of an address is discovered without being one
  (`network/expander.py:304-314`).  The model follows the code.
* A gas row whose funder nobody controls is drawn and never tells *how* the money moved
  (`network/expander.py:374-385`, `sar/drafter.py:512-523`).
* A tell of an account linked outside the walk is still attributed
  (`sar/drafter.py:266-270`, `299-307`).
* Territory designations go through the name screens (`sweep/pipeline.py:225-229`),
  against `355-357`.
* A territory may list addresses (`sweep/designation.py:130-154`): the sweep walks the
  flows to them, the case page of the same designation shows none
  (`designation_check/check.py`), the one place where the two engines part.
* `scorer/scorer.py`: transfers between an account's own wallets count as tainted
  outflow; gas controllers found by the gas pass have no drawn flows, so they are
  echoed gas-only even if they transact, at hop 1 without any path; an unhosted wallet
  on the way hides the exposure behind it, which `ScoresFollowTheMoney` therefore
  claims only among hosted ones.
* `advisory/matcher.py`: corroborators are dataset-wide, so one account's alias hit
  satisfies the gate for every case.
* `sweep/packager.py`: variant hits, ring, ownership findings, geo proposals and
  identity requests are in the chain and not in the package.
* `agency/decisions.py:871`: what a follow-up quotes of an earlier answer is always the
  generic phrase; `geo/signals.py` counts two rows of one source as two signals; the
  bound on revisions is never what ends the loop unless it is 0.

## Not modelled, and why

* Fuzzy text matching, embeddings, the expansion of names, lexicons and patterns
  (`remarks`, `advisory/embeddings.py`, `identity/variants.py`, `rfi/claims.py`): text;
  the models take their verdicts as inputs and everything done with a verdict is
  modelled.
* The narrator, renderings, widgets and package layout: they carry no state a property
  distinguishes.  Most of `app/streamlit_app.py` is this; of its sessions the models
  have the runs, the download and the cached connectors, and not the reviewer's
  sandbox, a list appended to within one session and never written to disk.
* The scenario generator writes data; its answer key of sanctioned exposure is in
  `RiskScorer`.  `eval` holds answer keys for tests.
* Institution coverage: one read-only pass, counts and a set difference over a static
  policy, stamped once into a chain of its own.
* Weights, bands and sorts of the scorer, beyond what orders two results.
* KYC columns of the worksheet, the parsing of designations, and batches:
  `run_sweep_batch` is `run_sweep` once per designation; two designations with one id,
  or a sweep into a directory that holds an older one, are outside `Sweep`, which has
  one sweep over an empty directory.
* Two runs of one subject at once over the case-graph store are in `CaseRuns`, several
  subjects in `CaseHistory`; the two are not composed.

## What could come next

`SweepBatch` (re-sweeps into one directory, the stale package of a sweep that died);
`CaseRuns` and `CaseHistory` composed over one case-graph store.
