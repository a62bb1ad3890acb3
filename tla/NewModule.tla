------------------------------ MODULE NewModule ------------------------------
(***************************************************************************)
(* NewModule(dir) of src/go/cmd/module.go, step by step: parseModFile, the *)
(* filepath.WalkDir callback once per directory, the p.Index() loop, and   *)
(* the alias-resolution loop over m.packages and each p.typeAliases, with  *)
(* its externalPackages cache.  The program is single-threaded; what the   *)
(* model explores is what the filesystem holds (modOK, tree, extOK,      *)
(* chosen in Init) and the order Go's map iteration visits packages and    *)
(* aliases in.                                                             *)
(***************************************************************************)
EXTENDS ModuleResolution, Naturals

CONSTANT NoPkg   \* no package is being resolved

VARIABLES
  phase,       \* "start", "walk", "index", "resolve", "done", "failed"
  walkPos,     \* index into WalkOrder of the next directory WalkDir visits
  packages,    \* m.packages: key -> import path of the package registered
  pkgsLeft,    \* packages the current `range m.packages` loop has not visited
  cur,         \* p of the alias loop, or NoPkg between packages
  pending,     \* aliases of cur the `range p.typeAliases` loop has not visited
  cache,       \* keys of externalPackages
  tokens,      \* tokens hoisted into the packages' content (p.c)
  diags,       \* diags[k]: p.diagnostics of the package registered under k
  parses,      \* parses[ip]: NewPkg calls made to resolve aliases into ip
  indexCount   \* indexCount[ip]: Index() calls on a Pkg of import path ip

vars == <<modOK, tree, extOK, phase, walkPos, packages, pkgsLeft, cur, pending, cache,
          tokens, diags, parses, indexCount>>

Phases == {"start", "walk", "index", "resolve", "done", "failed"}

Indexed(ip) == indexCount[ip] > 0

\* m.packages[impPath] finds a package.
Registered(ip) == Segs[ip] \in DOMAIN packages

TypeOK ==
  /\ modOK \in BOOLEAN
  /\ tree \in [Dirs -> DirKinds]
  /\ extOK \subseteq InSdk
  /\ phase \in Phases
  /\ walkPos \in 1..Len(WalkOrder) + 1
  /\ packages \in [DOMAIN packages -> ModulePaths]
  /\ DOMAIN packages \subseteq {PkgKey(d) : d \in Dirs}
  /\ pkgsLeft \subseteq Range(packages)
  /\ cur \in Range(packages) \cup {NoPkg}
  /\ pending \subseteq TypeNames
  /\ cache \subseteq {ip \in InSdk : ~Registered(ip)}
  /\ tokens \subseteq [id : Range(packages) \X TypeNames, kind : {"simple", "interface", "struct"},
                       shows : TokenShows]
  /\ diags \in [ImportPaths -> Seq([level : {"info", "warning"},
                                    target : ImportPaths \X TypeNames,
                                    text : NameTexts])]
  /\ parses \in [ImportPaths -> Nat]
  /\ indexCount \in [ImportPaths -> Nat]

Init ==
  /\ modOK \in BOOLEAN
  /\ tree \in [Dirs -> DirKinds]
  /\ extOK \in SUBSET (InSdk \ ModulePaths)
  /\ phase = "start"
  /\ walkPos = 1
  /\ packages = <<>>
  /\ pkgsLeft = {}
  /\ cur = NoPkg
  /\ pending = {}
  /\ cache = {}
  /\ tokens = {}
  /\ diags = [ip \in ImportPaths |-> <<>>]
  /\ parses = [ip \in ImportPaths |-> 0]
  /\ indexCount = [ip \in ImportPaths |-> 0]

\* mf, err := parseModFile(dir): a missing or malformed go.mod is fatal.
ParseModFile ==
  /\ phase = "start"
  /\ phase' = IF modOK THEN "walk" ELSE "failed"
  /\ UNCHANGED <<modOK, tree, extOK, walkPos, packages, pkgsLeft, cur, pending, cache,
                 tokens, diags, parses, indexCount>>

\* Mutant: the callback returns filepath.SkipAll, which ends the walk.
SkipDirSkipAll(i) == Len(WalkOrder) + 1

\* filepath.SkipDir: WalkDir goes on with the first directory, in its lexical
\* order, that is not below WalkOrder[i].
SkipDir(i) ==
  Min({j \in i + 1..Len(WalkOrder) + 1 :
         j > Len(WalkOrder) \/ ~IsPrefix(DirPath(WalkOrder[i]), DirPath(WalkOrder[j]))})

\* One call of the WalkDir callback on directory WalkOrder[walkPos]: skip a
\* testdata subtree, ignore ErrNoPackages, register a Pkg, or abort the walk.
VisitDir ==
  /\ phase = "walk"
  /\ walkPos <= Len(WalkOrder)
  /\ LET d == WalkOrder[walkPos] IN
       \/ /\ Skipped(d)
          /\ walkPos' = SkipDir(walkPos)
          /\ UNCHANGED <<phase, packages>>
       \/ /\ ~Skipped(d) /\ tree[d] = "empty"
          /\ walkPos' = walkPos + 1
          /\ UNCHANGED <<phase, packages>>
       \/ /\ ~Skipped(d) /\ tree[d] = "pkg"
          /\ packages' = (PkgKey(d) :> DirPkg[d]) @@ packages
          /\ walkPos' = walkPos + 1
          /\ UNCHANGED phase
       \/ /\ ~Skipped(d) /\ tree[d] = "bad"
          /\ phase' = "failed"
          /\ UNCHANGED <<walkPos, packages>>
  /\ UNCHANGED <<modOK, tree, extOK, pkgsLeft, cur, pending, cache, tokens, diags,
                 parses, indexCount>>

\* WalkDir returns nil: start `for _, p := range m.packages { p.Index() }`.
EndWalk ==
  /\ phase = "walk"
  /\ walkPos = Len(WalkOrder) + 1
  /\ phase' = "index"
  /\ pkgsLeft' = Range(packages)
  /\ UNCHANGED <<modOK, tree, extOK, walkPos, packages, cur, pending, cache, tokens,
                 diags, parses, indexCount>>

IndexPkg(k) ==
  /\ phase = "index"
  /\ k \in pkgsLeft
  /\ pkgsLeft' = pkgsLeft \ {k}
  /\ indexCount' = [indexCount EXCEPT ![k] = @ + 1]
  /\ UNCHANGED <<modOK, tree, extOK, phase, walkPos, packages, cur, pending, cache,
                 tokens, diags, parses>>

\* The Index() loop is over: start `for _, p := range m.packages`.
EndIndex ==
  /\ phase = "index"
  /\ pkgsLeft = {}
  /\ phase' = "resolve"
  /\ pkgsLeft' = Range(packages)
  /\ UNCHANGED <<modOK, tree, extOK, walkPos, packages, cur, pending, cache, tokens,
                 diags, parses, indexCount>>

\* The outer loop takes p and starts `for alias, qn := range p.typeAliases`.
NextPackage(k) ==
  /\ phase = "resolve"
  /\ cur = NoPkg
  /\ k \in pkgsLeft
  /\ pkgsLeft' = pkgsLeft \ {k}
  /\ cur' = k
  /\ pending' = IndexedAliases(k, Indexed(k))
  /\ UNCHANGED <<modOK, tree, extOK, phase, walkPos, packages, cache, tokens, diags,
                 parses, indexCount>>

(***************************************************************************)
(* The lookup of the origin package of an alias into ip: the module's      *)
(* packages, then externalPackages, then NewPkg + Index() at the sdk root. *)
(***************************************************************************)

\* source, ok = externalPackages[impPath] finds the package.
CacheHit(ip) == ~Registered(ip) /\ ip \in cache

\* Mutant: the externalPackages lookup is left out.
ShouldParseNoCache(ip) == ~Registered(ip) /\ SdkRootDir # <<>> /\ ip \in InSdk

\* Neither map has ip, sdkRoot != "" and impPath is under "azure-sdk-for-go/sdk/".
ShouldParse(ip) ==
  /\ ~Registered(ip)
  /\ ~CacheHit(ip)
  /\ SdkRootDir # <<>>
  /\ ip \in InSdk

\* Mutant: every origin found is stored in externalPackages.
CacheAfterAlways(ip, parsed) == cache \cup {ip}

\* externalPackages[impPath] = pkg after a successful NewPkg + Index().
CacheAfter(ip, parsed) == IF parsed THEN cache \cup {ip} ELSE cache

\* Mutant: a cache hit sets ok but leaves source nil.
SourceIgnoringCache(ip, parsed) ==
  IF Registered(ip) THEN packages[Segs[ip]] ELSE IF parsed THEN ip ELSE NoSource

\* The origin found, or NoSource when source stays nil.
Source(ip, parsed) ==
  IF Registered(ip) THEN packages[Segs[ip]]
  ELSE IF CacheHit(ip) \/ parsed THEN ip ELSE NoSource

\* source.types: the origin's types, indexed in the loop or just now.
OriginTypes(src, parsed) ==
  IndexedTypes(src, src # NoSource /\ (Indexed(src) \/ parsed))

(***************************************************************************)
(* One iteration of the inner loop: find the origin of qn, caching a       *)
(* freshly parsed external package, hoist a token by the origin            *)
(* declaration's shape, and append one diagnostic if a token was hoisted.  *)
(***************************************************************************)
ResolveAlias(a) ==
  /\ phase = "resolve"
  /\ cur # NoPkg
  /\ a \in pending
  /\ LET qn       == Alias[cur][a]
         ip       == qn[1]
         tryParse == ShouldParse(ip)
         parsed   == tryParse /\ ParsesAtSdkRoot(ip)
         src      == Source(ip, parsed)
         hoisted  == Hoist(cur, a, qn, src, OriginTypes(src, parsed))
     IN /\ cache' = CacheAfter(ip, parsed)
        /\ parses' = IF tryParse THEN [parses EXCEPT ![ip] = @ + 1] ELSE parses
        /\ indexCount' = IF parsed THEN [indexCount EXCEPT ![ip] = @ + 1]
                         ELSE indexCount
        /\ tokens' = tokens \cup hoisted
        /\ diags' = [diags EXCEPT ![cur] = @ \o AliasDiags(cur, a, qn, hoisted)]
  /\ pending' = pending \ {a}
  /\ UNCHANGED <<modOK, tree, extOK, phase, walkPos, packages, pkgsLeft, cur>>

\* The inner loop over p.typeAliases is over.
EndPackage ==
  /\ phase = "resolve"
  /\ cur # NoPkg
  /\ pending = {}
  /\ cur' = NoPkg
  /\ UNCHANGED <<modOK, tree, extOK, phase, walkPos, packages, pkgsLeft, pending, cache,
                 tokens, diags, parses, indexCount>>

\* The outer loop is over: return &m, nil.
EndResolve ==
  /\ phase = "resolve"
  /\ cur = NoPkg
  /\ pkgsLeft = {}
  /\ phase' = "done"
  /\ UNCHANGED <<modOK, tree, extOK, walkPos, packages, pkgsLeft, cur, pending, cache,
                 tokens, diags, parses, indexCount>>

\* NewModule has returned; the behaviour stutters.
Returned ==
  /\ phase \in {"done", "failed"}
  /\ UNCHANGED vars

Next ==
  \/ ParseModFile
  \/ VisitDir
  \/ EndWalk
  \/ \E k \in ModulePaths : IndexPkg(k)
  \/ EndIndex
  \/ \E k \in ModulePaths : NextPackage(k)
  \/ \E a \in TypeNames : ResolveAlias(a)
  \/ EndPackage
  \/ EndResolve
  \/ Returned

\* NewModule runs on one goroutine to completion: every enabled step is taken.
Spec == Init /\ [][Next]_vars /\ WF_vars(Next)

(***************************************************************************)
(* Properties                                                              *)
(***************************************************************************)

\* The step-by-step NewModule, with its cache and whatever order Go's map
\* iteration takes, returns what NewModuleSpec promises: the same packages,
\* the tokens and the diagnostics a fresh lookup of every alias gives, and
\* it always returns.  The Module is visible only once NewModule returns.
Abs == INSTANCE NewModuleSpec WITH
  status   <- CASE phase = "done"   -> "built"
               [] phase = "failed" -> "failed"
               [] OTHER            -> "building",
  packages <- IF phase = "done" THEN packages ELSE <<>>,
  tokens   <- IF phase = "done" THEN tokens ELSE {},
  notes    <- IF phase = "done"
              THEN UNION {{<<k, dg>> : dg \in Range(diags[k])} : k \in ImportPaths}
              ELSE {}

RefinesNewModuleSpec == Abs!Spec

\* "A Package is never indexed twice": the Index() loop over m.packages and
\* the NewPkg + Index() of an external package on a cache miss together call
\* Index() at most once per import path, however many aliases name it.
IndexedAtMostOnce == \A ip \in ImportPaths : indexCount[ip] <= 1

\* "An external package reachable via two different aliases is parsed at most
\* once": NewPkg is called at most once per import path while resolving.
ExternalParsedAtMostOnce == \A ip \in ImportPaths : parses[ip] <= 1

\* "Warning signals the aliased type's origin lives outside the current
\* module": a diagnostic is a warning exactly when the alias's import path is
\* not one of the module's packages.
WarningIffForeignOrigin ==
  \A k \in ImportPaths : \A i \in DOMAIN diags[k] :
    LET dg == diags[k][i] IN
    (dg.level = "warning") <=> (Alias[dg.target[1]][dg.target[2]][1] \notin ModulePaths)

\* Where the origin of an alias really is: a directory of this module, or a
\* package of a sibling module in the checkout's sdk, that parses.
OriginParses(ip) ==
  \/ \E d \in Dirs : DirPkg[d] = ip /\ tree[d] = "pkg"
  \/ ip \in extOK

\* "If importPath matches an already-indexed Package in the Module, use it
\* directly ... else, if importPath can be mapped onto a sibling module's
\* path inside that root, construct and Index() a new Package" (spec 4.3):
\* once NewModule has returned, every alias whose origin package parses is
\* hoisted from the origin's declaration -- by the m.packages key, the
\* sdkRoot cut and the sdk-root path together -- never as the placeholder of
\* an unreachable origin.
AliasHoistedFromParsedOrigin ==
  phase = "done" =>
    \A k \in Range(packages), a \in TypeNames :
      LET qn == Alias[k][a] IN
      (qn # NoAlias /\ OriginParses(qn[1])) =>
        {t \in tokens : t.id = <<k, a>>} = Hoist(k, a, qn, qn[1], Decl[qn[1]])

\* "Alias coverage" and "shape fidelity" (spec 4.3, 8), stated from the
\* origins that really parse rather than from the loop's lookups: once
\* NewModule has returned, an alias whose origin package does not parse has
\* the placeholder simple type showing its name; one whose origin parses but
\* lacks the declaration has no token; otherwise the token has the
\* declaration's shape -- the origin's members for an interface or struct,
\* the identifier for a defined type -- and exactly one diagnostic targets
\* every token hoisted, none a skipped alias.
AliasCoverage ==
  phase = "done" =>
    \A k \in Range(packages), a \in TypeNames :
      LET qn  == Alias[k][a]
          def == Decl[qn[1]][qn[2]]
          placeholder == {Token(k, a, "simple", OriginalName(qn))}
          expected ==
            CASE ~OriginParses(qn[1]) -> placeholder
              [] def = NoDecl -> {}
              [] def.shape \in {"interface", "struct"} ->
                   {Token(k, a, def.shape, <<"members", qn>>)}
              [] def.shape = "ident" -> {Token(k, a, "simple", <<"ident", def.ident>>)}
              [] OTHER -> placeholder
          own == {t \in tokens : t.id = <<k, a>>}
          targeting == {i \in DOMAIN diags[k] : diags[k][i].target = <<k, a>>}
      IN qn # NoAlias => own = expected /\ Cardinality(targeting) = Cardinality(own)

\* "For every directory (excluding test-fixture directories unless test mode
\* is enabled), attempt to build a Declaration Index; on success, register
\* it" (spec 4.2): once NewModule has returned, the package of every
\* directory that parses and has no testdata element in its path below the
\* module root is in m.packages.
OnlyFixturesSkipped ==
  phase = "done" =>
    \A d \in Dirs :
      (tree[d] = "pkg" /\ (IndexTestdata \/ Range(Rel(d)) \cap TestdataElems = {}))
        => DirPkg[d] \in Range(packages)

=============================================================================
