# A verification of modslop

`modslop` reads a `go.mod`, asks the Go module proxy about every module the
build would fetch, and reports the ones that look hallucinated, squatted,
typosquatted, retracted or deprecated, together with `go.mod` and `go.work`
files the go command would refuse. These TLA+ modules model how it comes to its
report: the line scanners that read the files, the replace directives that
decide what is audited, the worker pool, one `Lookup` request by request, the
audit of one module with the walks it starts, the `tool` directives, the pure
functions an audit consults, and a whole invocation. TLC checks them on small
instances; TLAPS proves the safety of the pool, the walks, the `Lookup`, the
audit of a module, the replaces, the tools, an invocation, the scanners and the
pure functions for every instance.

The question asked throughout is the one the program's comments return to:
*what does a request that fails, a goroutine that is late, or a file that
changes do to the report?* The code's own rule is "say nothing rather than a
false finding" (`src/check.go:484`); the models find out where it holds.

## 1. Inventory

| Component | Source | State | Operations | Hard part |
|---|---|---|---|---|
| Invocation | `main.go` `run`, `goEnv`, `goWorkPath` | what was read, the findings, the exit code | load, resolve go.work, overlay, audit, re-read, output | both files read twice, `go env` three times, others write them |
| Audit pool | `check.go` `CheckAll` | `sem`, `wg`, `results`, `all` | dispatch, check, store, release, gather | every interleaving, order, termination |
| Module audit | `check.go` `CheckRequirement`, `evaluateModuleStatus` | status, version to compare, findings | one switch, two walks, three independent checks | which failure turns into which finding |
| Proxy client | `proxy.go` `Lookup`, `VersionExists`, `ResolveVersion` | none (a pure client) | up to five dependent requests a call | each may fail after others have answered |
| Major-version walk | `proxy.go` `IsMajorVersionBumpOfEstablished` | position, the memoized unsuffixed path | one Lookup a step | bound, fallback, absent read as old |
| Replaces | `gomod.go` `selectReplace`, `mergeReplaces`; `check.go` | two parallel slices | choose, overlay, orphans, contradictions | precedence, spellings of one tag |
| Tools | `check.go` `CheckTools`, `resolveToolPath` | tools seen, prefix | skip, walk prefixes | unanswered prefix, blocklisted owner |
| Retraction, deprecation | `retract.go`, `deprecate.go` | none | parse, compare | version compared may be stale |
| Parsers | `gomod.go` `ParseGoMod` and four more scanners | block, quote and comment state | one line at a time | five scanners must agree |
| Name matching | `check.go`, `levenshtein.go`, `popular.go` | none | distance, thresholds | off by one |
| Patterns, escaping | `pattern.go`, `proxy.go` | none | match, escape | character level |

How they interact: `run` calls `CheckAll` once. `CheckAll` resolves the
requirements against the replaces (calling the proxy client for version
queries), starts one goroutine a target, each running `CheckRequirement`, waits
for all, then runs `CheckTools` and the whole-file checks on its own goroutine.
`CheckRequirement` and `CheckTools` call `Lookup`, and `evaluateModuleStatus`
may call the walk, twice. The only state shared by goroutines is the semaphore
channel, the WaitGroup and the slice `results`. Nothing is persisted, so there
is no crash recovery to model. There is no retry: each request has a ten-second
timeout, and a request that fails is never sent again.

`PROJECT.json` lists the hazards of each, at the line where they bite, with the
properties that cover them.

## 2. Plan and state of it

Order, most important behaviour first. All of it is written:

1. `SequentialScan`, `CheckPool`: the pool, and that it implements a sequential scan.
2. `ProxyFacts`, `MajorWalk`, `ModuleAudit`: one module's audit under partial failure.
3. `Replaces`: which modules are audited, and the self-contradictory files.
4. `ToolWalk`: tool directives.
5. `AuditRun`: one invocation among other programs.
6. `TwoReads`, `LookupRequests`: one `Lookup` over a proxy that moves, and that
   it implements two reads.
7. `GoModParser`: the five line scanners side by side.
8. `NameMatch`, `PrefixPattern`, `VersionQueries`, `GoVersions`: the pure functions;
   `AuditCalls`: one call of any of them.
9. The proofs: `CheckPoolProofs`, `LookupRequestsProofs`, `ModuleAuditProofs`
   (with those of `MajorWalk`), `ReplacesProofs`, `ToolWalkProofs`,
   `AuditRunProofs`, `GoModParserProofs`, `AuditCallsProofs`.

What could follow: the pool running module audits against a proxy that moves
between two of *their* requests (`LookupRequests` has it within one `Lookup`).

## 3. The modules

### SequentialScan and CheckPool

`SequentialScan` says what `CheckAll` promises: the report is a sequence of
sections, one for each target and one for each whole-file check, in `go.mod`
order, each holding what its own audit found less what
`suppressForkOfDeclaredPopular` drops.

`CheckPool` is the code: `main` is where the main goroutine stands, and one
action stands for each statement that another goroutine could tell from its
neighbours: `Add` (`wg.Add(1)`), `Acquire` (`sem <- struct{}{}`, blocking while
the channel is full), `Spawn`, `Wait`, `Gather`, `TailCheck` and `TailAppend`
for the whole-file checks; `Check`, `Store`, `Release`, `Done` for a goroutine,
with the deferred calls in last-in first-out order. `results` starts as the
nil slices of the code, which read as "nothing found": this is why reading
early would be silent. `Scan` is the refinement mapping: a target is audited
once its slot is written. Nothing in it is an auxiliary variable except
`answer`, which is the value in the checker's frame.

### ProxyFacts

The facts of a module are how the proxy serves it (answers, has no resolvable
latest, calls it malware, never asked because it is private), its tags and what
`@latest` gives. `Lookup(f, failed)` is the `ModuleStatus` the code computes
when exactly the requests in `failed` fail, of the five it may send: `@latest`,
`@v/list`, the legacy probe of `resolveIncompatibleLatest`, the `.mod`, the
`.info`. `Failures(f)` are the sets that can fail: those whose turn comes. A
time is represented by the version it was read from, and a `go.mod` body by the
version it belongs to, so "the wrong tag's go.mod" is visible. The assumption
`IncompatibleAssumption` is how the proxy synthesises a `go.mod` for a
`+incompatible` version.

### TwoReads and LookupRequests

`ProxyFacts.Lookup` is one step: the proxy stands still. `LookupRequests` takes
it apart: `AskLatest`, `NoModule` (the early returns), `AskList`, `Rebase` (the
correction of a `+incompatible` basis, with its probe), `AskMod`, `AskInfo`, any
of them failing, and between any two `Move`: the proxy publishes a tag, lets
`@latest` name another version, starts to serve the module or blocks it.

`TwoReads` is the promise: `@latest` is taken at one moment, the list of tags at
a later one, and the answer is what `ProxyFacts.Lookup` says of the two put
together. That the later requests (the probe, `.mod`, `.info`) add nothing is
because a version is immutable on the proxy; the refinement shows that the code
asks them only for versions it has already read. The modules that take a
`Lookup` as one step lose nothing but the one difference between the two reads.

### MajorWalk and ModuleAudit

`MajorWalk` is the walk `.../vN`, `.../v(N-1)`, ..., a `Lookup` a step, with the
memoized `Lookup` of the unsuffixed path. `BumpOfEstablished` says what it is
for without walking.

`ModuleAudit` extends it: `at` is the position in `evaluateModuleStatus`, and
the walk is run step by step wherever the code calls it. A pinned version is
given by how it is written (a literal, a query, none), what the proxy resolves
it to, and what `semver.Compare` takes the text for. `True(reason)` states each
of the nine reasons from the facts alone; `Blame(reason)` names the requests
whose failure can make the code report the reason falsely. The empty sets in it
are the cases where "say nothing rather than a false finding" holds.

`MajorsAssumption` is what semver and the go command fix about majors: a greater
major is a later version, a `+incompatible` version has a major of at least 2,
and a module whose latest version is `+incompatible` has no other kind of tag
above major 1 (`src/proxy.go:189`, `:247`).

### Replaces

A go.mod's requirements, excludes and replaces, with the go.work's, as
sequences; `Tag` is what the proxy resolves a version text to. `Select` is one
turn of `CheckAll`'s loop (the loops of `mergeReplaces` and
`orphanReplacementTargets` are recursive functions of the number of turns),
`Orphans` the orphan replaces with the padding of `replacedFrom`, `ExcludedRequirement`, `DuplicateRequires` and
`ReplaceDirectives` the checks of self-contradiction. Each takes the set of
texts whose resolution fails. `InForce` says which replaces the build applies to
a requirement without merging or looping: go.work's specific ones, its general
one, then go.mod's, a version being the same however it is spelled.

### ToolWalk

`CheckTools` and `resolveToolPath`: a package path is a number of segments and
what the proxy has under each prefix. `Skip`, `ReplacedNotRequired` and
`StartWalk` are the three fates of a directive, `AskPrefix` one turn of the
walk, `Unowned` its end without an owner.

### AuditRun

`run` with every read of the files and every call of the go command a step of
its own, and `Edit` by another program between any two. A file is a record of
what the checks can see in it. `seenMods` and `seenWorks` are history variables
for the properties. `Wrong` is the reference: what is wrong with a go.mod and a
go.work as the go command takes them, in which only a go.work that can be read
makes a workspace and only one the go command does not refuse (`RefusedByGo`)
replaces anything. `Unsaid` are the two cases where the code reports less than
that.

### GoModParser

A file is read a line at a time, a line being the words it consists of once
quotes and comments have been dealt with: `ParseGoMod` (one alternative of
`ParseLine` for each way a line can go), `hasTopLevelDirective`,
`goDirectiveVersion`, `goModUnknownDirective` and `goWorkUseDirectiveMalformed`
take each line together, each with its own variable for the block it believes to
be in. In the code they run one after another over the same text; none changes
it, so taking the lines together shows the same answers. A line too long for
`bufio.Scanner` stops four of them, not the one that splits the text itself.
A byte order mark is stripped by two and glued to the first word by the others.
Words are kinds of word (a path, a version, `=>`, a setting, a stray quote, an
unclosed string); the scanners tell no more apart.

The reference (`TopLevel`, `Written`, `ValidWith`) says what a file means as a
whole, without scanning: a block runs from a line of one word and `(` to the
next `)`.

### NameMatch, PrefixPattern, VersionQueries, GoVersions, AuditCalls

Pure functions, translated loop by loop where the loop is the point
(`Levenshtein` by rows, the second pass of `closestPopularMatch` name by name,
`pick` tag by tag, `path.Match` letter by letter), each with a reference next to
it that is defined otherwise: names within so many edits, patterns element by
element, the nearest element of a set, the order of versions as the go command
has it. Loops are recursive functions, so that they can be proved about. The
patterns of `GONOPROXY` are a set: whether one of them matches depends on no
order. The prereleases of a version are ranks, zero for a release.

`AuditCalls` is one call of one of these functions on any of its inputs: the
functions keep nothing, so the input is the whole state. `CallAssumption` says
which inputs the program can make (a path has an element, a tag three numbers, a
query's target what `parseComparisonQuery` takes); `ReleaseAssumption`, that
every line of releases an ambiguous query can name holds a release, without which
the ambiguity would make no difference. `MCFunctions` lists the inputs TLC takes.

## 4. The runs

| Run | Bounds | States | Shows |
|---|---|---|---|
| `pool` | 3 targets, 2 whole-file checks, capacity 2 | 11,816 | safety of the pool, the abstract scan is implemented with its fairness, it returns |
| `lookup` | ten modules, six tags, three moves of the proxy | 94,343 | a Lookup is two reads; freshness is of one moment |
| `major_walk` | cap 2, suffixes up to /v4, seven kinds of predecessor | 13,872 | verdict, evidence, bound |
| `audit` | age and number of versions, pins, retractions, up to two predecessors, cap 2 | 610,287 | exactness, causes of false findings, it ends |
| `replaces` | two go.mod replaces, one of go.work, two requirements | 51,501 | precedence, coverage, contradictions |
| `tool_walk` | cap 2, packages of up to three segments, two or three directives | 16,743 | owners, bound |
| `audit_run` | eight go.mods, seven go.works, two edits | 1,506,067 | one report from files that move |
| `parser` | files of four lines out of 25 and 21 kinds, with and without a byte order mark | 2,444,424 | scanners in step, refusals, what the checks get |
| `functions` | see below | 188,151 | the pure functions against their references |

Why the bounds are enough. Three targets for two tokens is the least at which
the dispatcher blocks with work left and a token is handed on. A cap of two is
the least that lets the walk be cut off before, at and after evidence, with the
suffix /v4 beyond it. The proofs remove every bound of these runs, but for
liveness. Versions in the audits are
chosen so that each comparison in the code has both outcomes (`MCModuleAudit`
names them). Two replaces are the least that can conflict, and each pair from a
set of nine that has every kind is taken, in both orders, with go.work's third.
Two edits let a file change and change back within a run. Three moves of the
proxy are one between each pair of the first four requests. Four lines hold a
block with an entry and a line after it, or two blocks, or a repeated directive
inside and outside of one. The functions are run with the three limits of `closestPopularMatch`
scaled down (2, 4 and 2 for 6, 10 and 2) so that names of up to four letters lie
on both sides of each, with every list of up to five tags in every order, and
with the go versions on both sides of 1.23, 1.24 and 1.25.

Deadlock is checked in every passing run: where the program has ended, an
explicit stuttering action (`Finished`, `Done`, `Walked`, `ToolsChecked`,
`Exited`) says so.

Symmetry is not used: the values differ by rank, age or spelling.

### What holds, in the words of the properties

- The report does not depend on the schedule (`ReportInOrder`,
  `ImplementsScan`); a slot is never read early (`NoSlotReadEarly`), since an
  unchecked module would look clean; never more than 16 at the proxy
  (`BoundedInFlight`); nothing is left over when it returns (`LeavesNothing`, proved).
- One `Lookup` over a proxy that moves is as good as two reads of it
  (`ImplementsTwoReads`), and whether it finds a module new or flooded is true
  of one moment of the call (`FreshnessOfOneMoment`). The go.mod it reads
  retractions from need not be that of one moment: `@latest` may name a version
  the list already goes beyond.
- With a proxy that answers, the audit reports exactly what is true
  (`ExactWithoutTrouble`). With one that does not, each false finding has a
  named cause (`FalseFindingsHaveACause`): *no* outage makes a module
  blocklisted or a version missing, but an outage can make a real pinned
  version `not-found`, a stale tag's retraction apply, or a predecessor vanish
  and the module look new.
- Trouble never creates evidence of an established project (`EvidenceIsReal`).
  This rests on `LatestAssumption`: `@latest` is not older than a module's only
  tag, as the proxy's rule for it has it.
- What is audited is what the build fetches (`AuditsWhatTheBuildFetches`,
  `ReplacementInForce`), the parallel slices stay parallel
  (`SlotsStayParallel`), contradictions are never invented
  (`ContradictionsAreReal`) and, with a proxy that answers, never missed
  (`ContradictionsAreReported`); a choice between two replaces is never silent
  (`NoSilentChoice`).
- A run in which nothing moves exits 0 exactly when nothing is wrong, and
  reports exactly what is (`ExactWhenUndisturbed`), but for what is `Unsaid`
  beside the report of a go.work that is missing or refused. Whatever
  moves, nothing is reported that no pair of contents of the run deserves
  (`NothingInvented`), what every pair deserves is reported whichever of them
  each check has read (`StandingFlawsReported`), and a run that exits clean has
  met a go.mod without suspect modules and contradictions, or a go.work that
  takes them away (`CleanOnce`).
- The scanners that track blocks stay in step until something is reported
  (`ScannersAgree`); top-level verbs and the file's own go directive are found
  even in a file that is no go.mod, but for a go line taken from an earlier block
  (`TopLevelAsWritten`); a go.mod is reported or cannot be loaded exactly when it is
  none (`RefusedExactlyWhenInvalid`), a malformed `godebug` excepted, which the
  parser drops without a word; and of a file nothing is reported of, the checks
  get what is written in it (`CollectedAsWritten`, `OverlayAsWritten`).
- What is reported of a go.work is really wrong with it (`WorkReportsAreReal`).
  The converse does not hold and is not claimed: a byte order mark, a block
  comment, an unclosed block and a repeated `go` in a go.work go unreported.
- The nearest well-known name is found whatever the order of the list
  (`NearestNameFound`) and a well-known module itself matches nothing, unless a
  namesake stands before it in the list (`Shadowed`). Forks of modules the file
  names are excused (`ForksOfNamedDropped`), unless the list has another entry
  of that base name first. Private patterns hide what they name (`PrivateExactly`); a failed
  request never makes a version missing (`QueriesAnswered`); verdicts on go
  versions are right to the minor version (`GoVerdictsExact`).

Packages nested more than eight segments below their module are `not-found` by
design (`toolPrefixWalkCap`); `WithinCap` says so in the properties.

### Disagreements between the code and what is said of it

Three runs are expected to end in a violation; each checks a sentence of the
repository against the model (see "findings" in `PROJECT.json`).

| Run | The sentence | What happens |
|---|---|---|
| `tool_unanswered` | "caller should not treat as a finding" (`proxy.go:49`) | a tool whose owner does not answer is `not-found` |
| `unsatisfiable_means_future` | "never actually ambiguous" (`check.go:2096`) | any failure of `go env` gives the same empty string |
| `fork_of_homonym` | "a popularModules entry whose full path is literally oldPath" (`check.go:3120`) | of two entries of one base name only the first is ever compared |

More sentences were found wrong on reading or by a property in the making. Where
a passing property is about one, its reference follows the sentence and the case
in which the code does not keep it is a named exception, which the run reaches:
without it, TLC finds the property violated.

- "go.work always wins outright" (`check.go:1548`): `selectReplace` takes the
  first literal match before it resolves anything, so a go.mod replace spelled
  as the requirement is beats go.work's abbreviation of the same tag. `InForce`
  has the order of the sentence; `SpeltApart` is the exception, in which
  `ReplacementInForce` lets the literal match of go.mod be chosen.
- "Unknown suppresses every finding downstream" (`proxy_test.go:119`): the
  collision checks take an unknown status as unestablished, on purpose
  (`check.go:312`), and `Blame` of the collision reasons says so.
- "each up to two sequential proxy HTTP round-trips" (`check.go:992`): `Sent`
  counts up to five for one `Lookup`.
- "inWorkspace is true exactly when gowork resolves to a real, readable
  go.work" (`main.go:83`): `inWorkspace` looks at the path alone, so a go.work
  that cannot be read hides the contradictions of the go.mod. `Wrong` takes the
  sentence at its word; `Unsaid` names the contradictions left out.
- "any replace directive go.work also carries can't be trusted to actually
  apply" (`check.go:2513`): the overlay applies them when what the go command
  refuses is a block form, a directive too new or a go version it lacks
  (`goWorkReplaces` looks for none of these). In `Wrong` a refused go.work
  replaces nothing; `Unsaid` names the suspect that goes unreported with it.
- "top-level `go` directive" (`gomod.go:1649`): `goDirectiveVersion` does not
  track blocks, and takes an entry that begins with the word `go` in an earlier
  block, say of `ignore`, for the directive. In `TopLevelAsWritten` the directive
  is the file's own top-level one, and such an entry the named exception.
- `goWorkUseDirectiveMalformed` tracks `use` blocks only: an entry of a
  `replace` or `godebug` block that begins with the word `use` is read as a
  directive. `WorkReportsAreReal` names the exception. (An earlier form of it
  named `replace` only; the proof found the other.)
- "exact match on the real thing" (`check.go:223`): a listed module that comes
  after another of its base name (`github.com/golang/mock`, `gorm.io/gorm`) is
  matched to the earlier one before the loop reaches it. `MatchIsNearest` allows
  a listed module no match at all; `NearestNameFound` excepts the `Shadowed` ones.
- `goVersionAtLeast` does not read `go1.26rc1`, so a release candidate toolchain
  satisfies nothing; and it compares two numbers only, so a patch release the
  toolchain lacks goes unreported. `VerdictsAreExact` is about released
  toolchains, and exact to the minor version.

## 5. Fairness

`CheckPool`: weak fairness of the main goroutine and of every worker. The Go
scheduler is preemptive and runs every runnable goroutine; a blocked send and a
blocked `Wait` are disabled here, so weak fairness does not assume them away. A
check ends because it sends boundedly many requests, each under the client's
ten-second timeout (`NewProxyClient`). The other modules are one goroutine
each: weak fairness of the disjunction of its steps, for the same two reasons,
where a run checks that it ends. `AuditRun` is checked for safety only and
assumes none. No strong fairness is assumed.

## 6. What is proved

From `PoolAssumption` only (the numbers are naturals, the capacity is not zero):

- `PoolInvariant`: `Spec => []PoolInv`. `BoundedInFlight` is not inductive: it
  says nothing of the token the dispatcher holds between `Acquire` and `Spawn`.
  `PoolInv` adds where the index is for each position (`Position`), which
  goroutines exist (`Born`), the number of tokens (`Tokens`) and the WaitGroup
  count (`Count`) as cardinalities, that nobody runs after the barrier
  (`Barrier`), what a slot holds (`Slots`) and how long the report is
  (`Progress`). The proof has one step for each action, with lemmas on the
  cardinality of a set of workers one of which moves.
- `TypeCorrect`, `CapacityHolds`, `BarrierHolds`, `OrderHolds`, `LeavesNothing`
  follow from it.
- `PoolRefinesScan`: `Spec => Scan!Spec`. Each step of the pool is an `Audit`,
  a `Publish` or a stutter under the mapping.

From `WalkAssumption`, `VersionAssumption`: `CountInvariant`, the lookups are
counted by the distance walked plus one for the memo (`WalkCount`), and from it
`WalkIsBounded`: a
walk makes at most `WalkCap + 1` Lookups and `5 * (WalkCap + 1)` requests, for
every suffix, cap and proxy. The five is the lemma `FiveRequests` on `Sent`.

From these and `LatestAssumption`: `EvidenceHolds`, `WalkSpec =>
[]EvidenceIsReal`. A failed request can only take evidence away
(`EvidenceSurvives`): fewer versions are fewer, and the one answer that changes
the age, the `.info` of an only tag, falls back on a `@latest` that is no older.
`EvidenceInv` adds to the property that the walk stays among the predecessors
(`InFamily`) and that the memoized status is backed by the unsuffixed path's
real history (`Memo`). `VerdictIsExact`, `WalkSpec => []VerdictExact`, is the
other direction, for a walk that loses no answer: `VerdictInv` says what the
predecessors already passed are (`PassedPart`: there, and not established), that
the memo is the unsuffixed path's full answer, and why the walk is asking it.

From `VersionAssumption`, `LookupAssumption`: `LookupIsTwoReads`, `Spec =>
TwoReads!Spec` for every set of versions and any number of moves. `CallInv` says
at each request what the partial result is in terms of the two reads
(`SoFar`) and which requests may have failed by then; `AnswerIsFound` is the last
request, where it becomes `Found`. `FreshnessIsOfOneMoment` needs one more part,
`MomentInv`: the tags that were counted are those of a moment of the call, and
the age is a function of the tags and nothing else (`AgeIsOfTheTags`).

From the assumptions of these and `AuditAssumption`, `MajorsAssumption`: the
three theorems of `ModuleAudit`. `AuditInv` says where each local variable of
`evaluateModuleStatus` comes from: the status is `Lookup`'s under the failures in
`trouble` (`StatusPart`), the position allows only what has been decided so far
(`PathPart`), the version compared is the pinned or the latest one, or a request
is to blame (`CheckPart`), and the walk it is on satisfies the walk's own
invariants (`WalkPart`), which is how the lemmas on `MajorWalk` are used again.
`FalseFindingsAreCaused` follows from the fact that a step adds a reason only if it
is true or its `Blame` is in `trouble`; `UntroubledIsExact` from `ExactInv`, that
with no trouble the findings are the true reasons among those already settled;
`MissingVersionsAreReported` from `MissingInv`. `MajorsAssumption` is needed where
a failed legacy probe could otherwise make the code read another go.mod than the
one that governs, and lose or invent a retraction that `Blame` would not explain.

From `ReplaceAssumption`: six theorems of `Replaces`. None of the properties is
inductive; `ReplacesInv` is their conjunction with `TypeInv` (which position of
which slice each action is at), `Coverage` (which modules the loop has covered so
far) and `ReportedInv` (what each check has reported once it is past).
`PrecedenceHolds` rests on the lemma `ChoiceIsRight`: `selectReplace` over the
merged list picks the entry in force, where entries that spell one tag
differently form one class (`InForceIsOneClass`), or the requirement is
`SpeltApart` and it picks the literal one. `NoChoiceIsSilent` rests on
`ChoiceIsConflict`: two replacements in force are a conflict among the directives.

From `ToolAssumption`: `ToolWalkIsShort`, `ToolSpec => []WalkStaysShort`.
`ToolInv` adds what the bound alone does not tell: the walk in progress has
asked at most `tried` prefixes (`Walking`), the directives ahead have cost
nothing (`Untouched`), and every package dealt with is in `seen`
(`Remembered`). All that ends a directive goes through one lemma, `GoingOn`.
`ToolsJudgedExactly` and `WrongOwnersAreCaused` use `JudgedInv`: each package in
`seen` has its verdict or an owner that did not answer, and there was nothing at
the prefixes a walk has gone past, but for the unanswered ones (`WalkedPast`).

From `RunAssumption`: four theorems of `AuditRun`, each with an invariant of its
own over what the run has read. `RunInv` (for `CleanIsDeserved`) keeps that
what is in memory was once on disk, and that an empty report means nothing was
wrong with it but for what the overlay took away. `QuietInv` (for
`NothingIsInvented`) keeps that every finding is deserved by *one* pair of
contents; `StillInv` (for `UndisturbedIsExact`) that the findings are those the
files deserve, as far as the checks have come; and `StandingInv` (for
`StandingIsReported`) that what is wrong with all the contents seen so far is
reported, as far as it is for a check already past to tell (`Told`).
What the code reports of one pair of contents is `Said`, which is what is wrong
less what is `Unsaid` (`SaidMeans`, `UnsaidIsSaid`).

From `ParserAssumption`, for files of any length over any set of lines:

- `ScannersStayInStep`, `Spec => []ScannersAgree`. The invariant needs one more
  fact, in `InStep`: a byte order mark, which makes the scanners see different
  first lines, is itself reported. `ReportsStay` (nothing reported is taken back)
  lets the step be proved from "nothing is reported *after* the line", which
  rules out the lines on which the scanners part.
- `RefusalIsExact`, `CollectionIsExact`, `ScannersReadAsWritten`, `OverlayIsExact`,
  `WorkReportsAreCaused`. The reference looks at the whole file, the scanners at a
  line, so the proof first says what the reference gives for a file one line
  longer (`BlockAfter`, `SaidAfter`, `ValidAfter`, `WrittenWithAfter`,
  `HeadsAfter`, `GoLineAfter`): blocks have one opener (`OpenerIs`), and a new line
  changes nothing of what the earlier ones say (`WrittenStays`). `ParserInv` then
  puts each scanner's variables next to it: `ScanInv` for `hasTopLevelDirective`
  and `goDirectiveVersion`; `ModInv`, that nothing is reported exactly while the
  file read so far is valid, and that then `ParseGoMod` knows the block it is in,
  the directives it must not see again and what it has kept; `WorkInv`, the same
  for a valid `go.work`, in which `ParseGoMod` takes every entry of a `use` block for
  a directive of its own, refuses it and loses nothing.

From `NameAssumption`, `CallAssumption` and `ReleaseAssumption`: the five
properties of `AuditCalls`, for every list of names, every limit, every set of
inputs. No step changes the input, so each is a statement about functions:

- `NearestFoundForEveryName`, `Spec => []NearestNameFound`. First that the rows
  fill a table of distances (`LevenshteinIsTable`), neighbouring cells of which
  differ by at most one (`NextCell`), so that names of different lengths are at
  least so far apart (`FarAsLengths`), which is what lets the code skip them. Then
  `LevenshteinCountsEdits`: one edit changes the distance by at most one
  (`EditCostsOne`, on `LeadStays`, which follows two tables side by side), so n edits
  lead no further than n (`ReachedIsNear`); and along the table each cell is reached by
  as many edits as it says (`NearIsReached`). With it the loop of the second pass,
  which keeps the nearest so far (`SecondPass`), has the nearest by edits at its end.
- `PrivateModulesExactly`, `Spec => []PrivateExactly`. `PathMatchFits` replaces the
  matcher by what it looks for, places for the letters and wildcards of the
  pattern one after the other (`CanFit`). A wildcard takes no slash, so a match falls
  apart at each slash (`CutAtSlash`) and the beginning matches exactly if its elements do
  (`ElementsFit`); `ElementsMarked` finds the elements between the slashes of a path by
  their rank, which is also how the code counts them.
- `QueriesAnsweredRightly`, `Spec => []QueriesAnswered`. The order of versions is one of
  four numbers (`BelowByNumbers`), the loop of `pick` keeps the nearest of the tags
  it has seen, and each of the four operators differs from the reading as a line of
  releases exactly where the code refuses it (`RefusedRightly`).
- `ForksDroppedRightly` and `GoVersionsJudgedExactly`, by cases.

Induction over data. The library's induction theorems take a predicate as a
parameter, which none of the provers here can instantiate. `ByInduction` says the
same of a *set* of numbers, which they can: a set of numbers that holds 0 and
with each number the next holds them all, since a number it lacks would have a
least one. With it a loop written as a recursive function of the number of turns
(`mergeReplaces`, `orphanReplacementTargets`, `Picked`) is shown to run to its end
and to keep its invariant (`MergedEntries`, `OrphansFound`, `PickedUpTo`). In
`AuditCallsProofs`, `LoopRuns` and `LoopsAgree` say once for all that a loop of n turns is
defined and is the only one, and `ByGrid` takes the induction to the tables of
`Levenshtein` and of `path.Match`.

Only model-checked: the liveness properties (fairness and ENABLED are out of the
prover's reach), `AlwaysReturns`, `AuditEnds` and the fairness part of
`ImplementsFairScan`. Every other property a passing run checks is a theorem.

## 7. What is not modelled

How a line of go.mod is cut into words: `GoModParser` starts from the words,
quoted strings and comments that `leadingQuotedString`, `firstField`,
`stripComment` and `stripBlockComments` find. Path escaping is a matter of
characters: a path it refuses is one that does not resolve. The curated lists of
`popular.go` and `genericBaseNames` are data: constants here. The wording and
layout of findings, flag parsing (exit code 2 before anything is read), and
`checkMalformedDirectives`, which turns what the parser recorded into text, have
no state. `path.Match` and `semver.Compare` are library functions, modelled from
how they are used: no character classes in patterns, no build metadata in
versions. A Go data race is not among the outcomes, for none is possible:
goroutines write distinct slots, and `Wait` orders the writes before the reads,
which is what `NoSlotReadEarly` states.
