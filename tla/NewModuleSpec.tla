---------------------------- MODULE NewModuleSpec ----------------------------
(***************************************************************************)
(* What NewModule (src/go/cmd/module.go) promises, as one atomic step:     *)
(* either the build fails, or it yields the packages of every indexable    *)
(* directory and, for every alias of every package, the token and the      *)
(* diagnostic obtained by resolving the alias against a fresh lookup: the  *)
(* module's own packages first, then the package at the sdk root.  No      *)
(* cache and no iteration order appear here; NewModule.tla is shown to     *)
(* implement this specification.                                           *)
(***************************************************************************)
EXTENDS ModuleResolution

VARIABLES
  status,    \* "building", "built" or "failed"
  packages,  \* m.packages of the returned Module: key -> package
  tokens,    \* tokens hoisted into the packages' content
  notes      \* <<package, diagnostic>> pairs of the packages' diagnostics

absVars == <<tree, extOK, status, packages, tokens, notes>>

(***************************************************************************)
(* The promised result.                                                    *)
(***************************************************************************)

WalkFails == \E d \in Dirs : ~Skipped(d) /\ tree[d] = "bad"

WalkedDirs == {d \in Dirs : ~Skipped(d) /\ tree[d] = "pkg"}

\* m.packages: each walked directory's package under its key.
WalkedPackages ==
  [key \in {PkgKey(d) : d \in WalkedDirs} |->
     DirPkg[CHOOSE d \in WalkedDirs : PkgKey(d) = key]]

\* The origin of an alias into ip, looked up afresh: m.packages by the
\* import path, then the package at the sdk root.
FreshSource(ip) ==
  IF Segs[ip] \in DOMAIN WalkedPackages THEN WalkedPackages[Segs[ip]]
  ELSE IF SdkRootDir # <<>> /\ ip \in InSdk /\ ParsesAtSdkRoot(ip) THEN ip
  ELSE NoSource

FreshTokens(k, a) ==
  LET qn  == Alias[k][a]
      src == FreshSource(qn[1])
  IN Hoist(k, a, qn, src, IndexedTypes(src, src # NoSource))

\* <<package, alias>> for every entry of every returned package's typeAliases.
AliasSlots ==
  {ka \in Range(WalkedPackages) \X TypeNames : Alias[ka[1]][ka[2]] # NoAlias}

ResultTokens == UNION {FreshTokens(ka[1], ka[2]) : ka \in AliasSlots}

ResultNotes ==
  UNION {LET k == ka[1]
             a == ka[2]
         IN {<<k, dg>> : dg \in Range(AliasDiags(k, a, Alias[k][a], FreshTokens(k, a)))} :
           ka \in AliasSlots}

Init ==
  /\ modOK \in BOOLEAN
  /\ tree \in [Dirs -> DirKinds]
  /\ extOK \in SUBSET (InSdk \ ModulePaths)
  /\ status = "building"
  /\ packages = <<>>
  /\ tokens = {}
  /\ notes = {}

\* A failing go.mod read or walk returns (nil, err); otherwise the Module.
Fail ==
  /\ status = "building"
  /\ ~modOK \/ WalkFails
  /\ status' = "failed"
  /\ UNCHANGED <<modOK, tree, extOK, packages, tokens, notes>>

Build ==
  /\ status = "building"
  /\ modOK /\ ~WalkFails
  /\ status' = "built"
  /\ packages' = WalkedPackages
  /\ tokens' = ResultTokens
  /\ notes' = ResultNotes
  /\ UNCHANGED <<modOK, tree, extOK>>

Next == Fail \/ Build

\* NewModule always returns.  While building, exactly one of Fail and Build
\* is enabled, so this is weak fairness of Next, stated without ENABLED.
Returns == <>(status # "building")

Spec == Init /\ [][Next]_absVars /\ Returns

=============================================================================
