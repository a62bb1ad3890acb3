# TLA+ models of the Go API view module indexer and the generated SDK examples

This directory holds TLA+ models of the source under `src/`. Each model is
checked with TLC.

- `src/src/go/cmd/module.go` holds `NewModule`. It indexes an Azure SDK Go
  module and resolves its type aliases across packages and modules.
- The generated example programs live under
  `src/tools/sdk-testgen/packages/autorest.gotest/test/integrationtest/output/`.
  They are the expected output of the autorest.gotest generator.

## 1. Inventory

### Components

| Component | Source | State it keeps | Operations |
|---|---|---|---|
| Module Indexer | `module.go` `NewModule` lines 37-72, `parseModFile` 144-151 | `m.packages` (import path → `*Pkg`); `sdkRoot` | read `go.mod` (fatal on error); compute `sdkRoot`; one `WalkDir` callback per directory: skip `testdata`, register a `Pkg`, ignore `ErrNoPackages`, or abort; `Index()` every package |
| Cross-Module Alias Resolver | `module.go` lines 73-141 | `externalPackages` cache (import path → `*Pkg`); each package's `p.c` content and `p.diagnostics` | for each `(alias, qn)` of each package: find the origin package, then hoist a token by the shape of the origin declaration, then append one diagnostic |
| Declaration Index (`Pkg`, `NewPkg`, `Index`) | not under `src/` (`cmd/pkg.go`) | `types` and `typeAliases` | parse a directory; `Index()` fills the two maps |
| Token/Diagnostic model | not under `src/` | tokens in `p.c`; `Diagnostic{Level, TargetID, Text}` | `addSimpleType`, `addInterface`, `addStruct` |
| Generated examples | 11 files under `integrationtest/output` | one program run: credential, client, poller or pager | get a credential; build a client (fallible in newer templates); then one of three things: a plain call, an LRO `Begin…` followed by `PollUntilDone`, or one of three pager loops. Every error ends in `log.Fatal` |
| Rendering, CLI, go.mod parser, filesystem primitives | outside `src/` | n/a | not modelled (spec §1 puts them out of scope) |

### How the components interact

`NewModule` runs on one goroutine and makes plain synchronous calls:

1. It calls `parseModFile`.
2. It walks the tree, calling `NewPkg` for each directory.
3. It calls `Index()` on every registered package.
4. It runs a nested loop over two Go maps.

While the loop runs, the resolver reads the `types` of packages that are
already indexed. It may also create, index and cache new `Pkg`s for packages
of other modules, which it finds through `sdkRoot`.

The shared mutable state is `m.packages`, `externalPackages`, and each
package's content and diagnostics.

The example programs have no concurrency. Their partners are the Azure service
and the azcore runtime: a request may fail, and a pager or poller hides a loop
of requests.

### What is hard

- **Map iteration order.** Go randomises the order of `range` over a map. The
  outer loop is over `m.packages` and the inner one over `p.typeAliases`. The
  cache fills in whatever order results. The result must not depend on that
  order.
- **A cache filled during the loop.** An alias resolved later may hit a
  package that an earlier alias parsed. Failed parses are not cached.
- **Partial failure.** One bad directory aborts the whole build, while an
  empty one is skipped. When resolving an alias there are four outcomes:
  - the origin package is unreachable, which gives a placeholder token;
  - the declaration is missing, which gives no token and no diagnostic;
  - the shape is unexpected, which gives a placeholder token;
  - otherwise the definition is hoisted.
- **String tests on paths.** Three decisions use raw substring tests on a
  whole path: the `testdata` skip, the `sdkRoot` cut and the Info/Warning
  decision. The `m.packages` key is `path.Dir` of the module path joined with
  `p.Name()`, and aliases are looked up by their import path. The two agree
  only when the module path ends in the directory's name.
- **Module boundaries.** The walk never looks for a `go.mod` below `dir`. A
  nested module (such as `sdk/azidentity/cache` inside `sdk/azidentity`) is
  indexed as part of the enclosing module. This is listed as a hazard without
  a property. The spec says to walk every directory, so nothing the spec
  states makes it wrong.
- **Pager semantics.** In the examples, the old azcore `Pager.NextPage`
  returns `false` both after the last page and on an error. Only `Err()` tells
  the two apart.

### What makes each component correct

- **Indexer.** The build fails iff `go.mod` fails or some non-skipped
  directory fails to parse. Otherwise `m.packages` is exactly the packages of
  the non-skipped, non-empty directories. No package is indexed twice.
- **Resolver.** Each alias gets the token and diagnostic that a fresh,
  order-free lookup gives. There is one diagnostic per token and none for a
  skipped alias. No package is indexed twice (spec §3, §8). Severity is
  Warning iff the origin is in another module (spec §3, §8).
- **Examples:**
  - every error ends in `log.Fatal`;
  - each fetched page is reported once;
  - a run with no errors reports every page;
  - the program ends.

## 2. Modules

| Module | Models | State ↔ code |
|---|---|---|
| `PkgIndex` | Declaration Index (from spec §4.1; marked `spec_modelled` in `PROJECT.json`) | `Decl[ip][t]` is the shape `Index()` records in `types`. `Alias[ip][t]` is the `typeAliases` entry. An un-indexed `Pkg` has empty maps (`IndexedTypes`, `IndexedAliases`) |
| `ModuleResolution` | the inputs `NewModule` meets, the path computations, and the loop-body helpers shared by the two specs below | Paths are sequences of path elements: `RootDir` (the `dir` argument), `ModPath` (the `go.mod` module path), `Segs[ip]` (each import path), `RepoSdk` (the checkout's `sdk` directory). `SdkRootDir` is lines 44-47 (`strings.Cut(dir, "sdk/")`, then `filepath.Join(before, "sdk")`). `Skipped` is line 53 (`strings.Contains` on the whole walked path). `PkgKey` is lines 50 and 58 (`path.Dir(module path) + "/" + p.Name()`). `RepoCut`/`SdkPath`/`ParsesAtSdkRoot` are lines 90-101. `tree[d]` is what `NewPkg` returns for directory `d` (`"pkg"`, `"empty"` = `ErrNoPackages`, `"bad"`). `extOK` is the set of sibling-module packages that parse in the checkout's sdk. `Hoist` is the `switch` on lines 114-131. `AliasDiags` is lines 132-138. `OriginalName` and `DiagLevel` are lines 105-112 |
| `NewModuleSpec` | the abstract specification: what `NewModule` promises, as one atomic `Build` or `Fail` step | the order-free result: `m.packages` of the walk (`WalkedPackages`, key → package), plus for every alias the token and diagnostic of a fresh lookup (`FreshSource`) |
| `NewModule` | `NewModule` step by step | `phase` (`start`, `walk`, `index`, `resolve`, `done`, `failed`); `walkPos` (the `WalkDir` position; `SkipDir` jumps past the subtree); `packages` (the map `m.packages`, a function from key to package); `pkgsLeft`/`cur`/`pending` (the two `range` loops); `cache` (`externalPackages`); `tokens`; `diags`; the history counters `parses` and `indexCount`. There is one action per callback or loop iteration: `ParseModFile`, `VisitDir`, `EndWalk`, `IndexPkg`, `EndIndex`, `NextPackage`, `ResolveAlias`, `EndPackage`, `EndResolve`. It is shown to implement `NewModuleSpec` (`RefinesNewModuleSpec`, an `INSTANCE … WITH` refinement mapping) |
| `MCNewModule` | model-checking instance | the fixture below |
| `GeneratedExample` | every generated Example function, reduced to its control shape (`*Examples` lists one shape per function, in file order) | `pc`, `exit`, `served`, `lastNext`, `pagerErr`, `consumed`; `errSeen` is a history flag. Actions: `GetCredential`, `NewClient`, `CallOperation`, `BeginOperation`, `PollUntilDone`, `PagerMore`, `PagerNextPage`, `CheckPageErr`, `ConsumePage`. The service's answers are nondeterministic |

In `NewModule`, a loop iteration is one atomic action. The program is
single-threaded, so nothing can interleave inside an iteration. The
nondeterminism the model explores is:

- which directories parse (`tree`, chosen in `Init`);
- which external packages parse (`extOK`, chosen in `Init`);
- whether `go.mod` parses;
- the order of both map iterations.

### Fixture (`MCNewModule`)

The module `github.com/Azure/azure-sdk-for-go/sdk/azmod` lives at
`/home/me/azure-sdk-for-go/sdk/azmod`. It has four directories in lexical walk
order: the root `dA`, then `bsub` (`dB`), `testdata` (`dT`) and `util` (`dC`).
Two of the external packages, `xC` (`sdk/xmod`) and `xD` (`sdk/ymod/inner`),
belong to sibling modules in the checkout's sdk. The third, `xE`
(`example.org/ext`), is outside the sdk.

Three variants of the paths (`MCNewModule.tla`) feed the new violation runs:

- the module path `…/sdk/azmod/v2`;
- a checkout under `/home/azure-sdk/…`;
- a checkout under `/home/apiview-testdata/…`.

The eight aliases cover every arm of the loop body:

- intra-module to a struct (`mB.T1 → mA.T1`);
- external to an interface (`mA.T2 → xC.T1`);
- a second alias into the same external package, to a defined type, which is
  a cache hit (`mB.T2 → xC.T2`);
- the "other" shape (`mA.T3 → xD.T1`);
- a missing declaration (`mC.T1 → xD.T2`);
- an alias to an alias (`mC.T2 → mB.T1`);
- into the skipped testdata package, reached through the sdk root
  (`mC.T3 → mT.T1`);
- outside the sdk, which gives the placeholder (`mB.T3 → xE.T1`).

`Init` picks whether `go.mod` parses, one of 3⁴ directory outcomes and one
of 4 subsets of parseable external packages. Every branch of the walk therefore happens: an empty root,
a failing sibling, and a missing origin. Two aliases name `xC` and two name
`xD`. This makes both the cache hit and the repeated failed parse reachable.

### Fairness

`NewModule` and each example run on one goroutine to completion. Hence
`WF_vars(Next)`. `NewModuleSpec` states its liveness as `Returns`, that is
`<>(status # "building")`. While it is building, exactly one of `Fail` and
`Build` is enabled, so `Returns` says the same as weak fairness. It also
spares TLC from evaluating `ENABLED Build`, which would compute the whole
result in every state.

For the examples, the model assumes that every request to the service returns
(successfully or with an error). This is stated in the module.
`PollUntilDone` under `context.Background()` has no deadline. Its termination
rests on that assumption; see the hazards in `PROJECT.json`.

## 3. Runs

| Run | Config | Expect | What it shows |
|---|---|---|---|
| `new_module` | `MCNewModule.cfg` | pass, 12,798 states | Seven properties hold (listed below) |
| `new_module_test_mode` | `MCNewModuleTestMode.cfg` | pass, 12,998 states | With `indexTestdata` set, as the tool's own tests run it, `testdata` packages are registered, so a `testdata` directory that fails to parse aborts the build. Aliases into them resolve from `m.packages`, and the refinement still holds |
| `new_module_reparse` | `MCNewModuleReparse.cfg` | violation | A failed external parse is not cached, so two aliases into the package parse it twice. Spec §8 says "parsed/indexed at most once" |
| `new_module_severity` | `MCNewModuleSeverity.cfg` | violation | A sibling module whose name contains the module's name (`…/sdk/azmodext`) gets an Info diagnostic |
| `new_module_major_version` | `MCNewModuleMajorVersion.cfg` | violation | For module path `…/azmod/v2` the keys are `…/azmod/azmod/…`, and the fallback path at the sdk root keeps the `/v2` element, which is not a directory. Aliases into the module's own packages become placeholders. The shortest trace shows this for the alias into `testdata` |
| `new_module_sdk_root` | `MCNewModuleSdkRoot.cfg` | violation | Under `/home/azure-sdk/…`, `strings.Cut(dir, "sdk/")` stops at `azure-sdk/`, `sdkRoot` is `/home/azure-/sdk`, and no sibling-module alias resolves |
| `new_module_testdata_root` | `MCNewModuleTestdataRoot.cfg` | violation | Under `/home/apiview-testdata/…` the root itself is skipped, and `NewModule` returns an empty Module without error |
| `generated_example` | `GeneratedExample.cfg` | pass | Each fetched page is ranged over once. A run without errors lists every page. Every example ends |
| `generated_example_fatal` | `GeneratedExampleFatal.cfg` | violation | The `for pager.NextPage(ctx) { if pager.Err() … }` template returns normally after a failed page request |

The seven properties of `new_module`:

- **`RefinesNewModuleSpec`:** for every input, every iteration order and the
  cache, the result equals the order-free abstract result, and the run always
  returns. The abstract `Fail` is allowed only when `go.mod` or a walked
  directory fails to parse. A build that fails when it should not, for
  example one that treats `ErrNoPackages` as fatal, breaks the refinement.
- **`IndexedAtMostOnce`:** no package is indexed twice.
- **`AliasCoverage`:** the spec's "alias coverage" and "shape fidelity" (§8),
  stated from the origins that really parse rather than from the loop's
  lookups. It does not use `Hoist`, so the type-switch arms are checked
  against an independent oracle:
  - an alias whose origin does not parse gets the placeholder;
  - a missing declaration gets no token;
  - otherwise the token has the declaration's shape;
  - exactly one diagnostic targets each hoisted token, and none targets a
    skipped alias.
- **`AliasHoistedFromParsedOrigin`:** once `NewModule` returns, every alias
  whose origin package parses (a directory of this module, or a sibling
  module's package in the checkout's sdk) is hoisted from the origin's
  declaration. It never gets the placeholder. Three computations must agree
  for this to hold: the `m.packages` key, the `sdkRoot` cut and the sdk-root
  path.
- **`OnlyFixturesSkipped`:** once `NewModule` returns, every directory that
  parses and has no `testdata` element below the module root is in
  `m.packages`.
- **`WarningIffForeignOrigin`:** every diagnostic is a Warning exactly when
  the alias's origin is outside the module. The code decides this with
  `strings.Cut(qn, m.Name)` over the whole import path (`NamesModule`). In the
  passing fixture the module name occurs only in the module's own paths. The
  `new_module_severity` run gives a foreign package an element named like the
  module.
- **`TypeOK`:** includes that the cache is disjoint from `m.packages`.

In `new_module_severity`, the foreign path contains `m.Name` the way the path
of sibling module `sdk/ai/azopenaiextensions` contains the name of module
`sdk/ai/azopenai`.

Each property of a passing run has a mutant in `PROJECT.json`: a plausible
code bug that TLC shows breaks it. For example:

- dropping the cache lookup breaks `IndexedAtMostOnce`;
- a cache hit that leaves `source` nil breaks the refinement;
- an `*ast.Ident` arm that shows `originalName`, as the default arm does,
  breaks `AliasCoverage`;
- `sdkRoot = before`, without `"sdk"` joined back, breaks
  `AliasHoistedFromParsedOrigin`;
- `filepath.SkipAll` in place of `SkipDir` breaks `OnlyFixturesSkipped`;
- deciding Info by the origin package's own name breaks
  `WarningIffForeignOrigin`;
- dropping `if !nextResult { break }` breaks `PagesConsumedOnce`;
- `continue` in place of `break` breaks `Terminates`.

Bounds:

- **`MaxPages = 2`.** Two pages are enough to make both the first request and
  a next-link request happen, and to make an error on either of them happen.
- **Three type names per package and four directories.** These hold the
  fixture above.
- **Path elements.** A path is a sequence of elements. A substring test that
  the code makes on a whole path is modelled per element: "contains
  `testdata`" is the set `TestdataElems`, "contains `m.Name`" is `ModNameElems`, and "ends in
  `sdk`" is the domain of `SdkStem`. A separator cannot be part of either pattern's match, except for
  the trailing `/` in `"sdk/"` and `"azure-sdk-for-go/sdk/"`, and the model
  handles that by requiring a following element. One case is not modelled: an
  element that merely ends in `azure-sdk-for-go` (for example
  `my-azure-sdk-for-go`). The model treats only that exact element as the
  repository.

## 4. Not modelled, and why

- **Parsing and `Index()` themselves.** `Pkg` is outside `src/`, so its result
  is a constant per import path. `p.Name()` (in `cmd/pkg.go`) is taken as
  `m.Name` joined with the directory's path below the module root. The spec
  says it is derived from the path and the module name.
- **A wrong `sdkRoot` that happens to exist.** The model takes every path
  below a wrong root to be missing.
- **The contents of tokens.** Members and rendering are out of scope. A token
  is its id, its kind and what it shows.
- **The azcore pager, the poller and the HTTP pipeline.** Only their contract
  as seen by the examples is modelled.
- **Nothing more of `module.go`.** Every statement of `NewModule` and
  `parseModFile` is mapped to a definition. What is left is the licence
  header, the imports and the declarations. The Declaration Index and the Token model remain "partly"
  modelled, because their code (`Pkg`, `NewPkg` and the content builders of
  `cmd/`) is not in this repository.

## 5. Plan for the next sittings

Done:

- **Sitting 1:** `PkgIndex`, `ModuleResolution`, `NewModuleSpec`,
  `NewModule`, `MCNewModule` and `GeneratedExample`.
- **Sitting 2:** paths as element sequences (the `sdkRoot` cut, the `testdata`
  test, the `m.packages` key, the sdk-root path, `SkipDir` over a subtree);
  the properties `AliasHoistedFromParsedOrigin` and `OnlyFixturesSkipped`;
  and the three new violation runs.
- **Sitting 3:** the Info/Warning test computed from the import path's
  elements (`NamesModule`); `WarningIffForeignOrigin` is now checked in the
  passing run, with a mutant; and the `new_module_test_mode` run.
- **Sitting 4:**
  - `AliasCoverage` replaces `DiagnosticsMatchTokens`, which only restated
    the `if t != nil` guard;
  - `modOK` guards the abstract `Fail`;
  - `OnlyFixturesSkipped` is dropped from the test-mode run, where it only
    restated the `!indexTestdata` guard;
  - the `GeneratedExample` type invariant is dropped, because no plausible
    code bug breaks it;
  - a nested-module run was tried and withdrawn: the spec's path-segment
    rule gives the same result.

Left:

1. `GeneratedExample` is complete as far as this repository goes. The
   `return` after `log.Fatalf` is dead code. The poll loop inside
   `PollUntilDone` is azcore's, outside `src/`.
