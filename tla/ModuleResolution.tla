--------------------------- MODULE ModuleResolution ---------------------------
(***************************************************************************)
(* The inputs NewModule (src/go/cmd/module.go) meets -- the directories    *)
(* under the module root, the packages reachable at the sdk root -- and    *)
(* the parts of its alias loop body that do not depend on how the origin   *)
(* package was found.  Shared by NewModuleSpec and NewModule.              *)
(***************************************************************************)
EXTENDS PkgIndex, SequencesExt

CONSTANTS
  Dirs,          \* directories under the module root
  WalkOrder,     \* the (lexical) order filepath.WalkDir visits Dirs in
  DirPkg,        \* DirPkg[d]: import path of the package in directory d
  Segs,          \* Segs[ip]: the elements of import path ip
  ModPath,       \* the elements of mf.Module.Mod.Path
  RootDir,       \* the elements of dir, the path NewModule is given
  RepoSdk,       \* the elements of the checkout's azure-sdk-for-go/sdk
  SdkStem,       \* SdkStem[e]: for a path element e ending in "sdk", the
                 \* text before that "sdk"
  TestdataElems, \* path elements that contain "testdata"
  IndexTestdata, \* the indexTestdata test switch
  ModNameElems,  \* path elements that contain m.Name
  NoSource       \* source == nil

sdkDirName == "sdk"
repoDirName == "azure-sdk-for-go"

DirKinds == {"pkg", "empty", "bad"}  \* NewPkg: a Pkg, ErrNoPackages, other error

ModulePaths == Range(DirPkg)

\* The path of d below the module root, and the path WalkDir passes for d.
Rel(d) == SubSeq(Segs[DirPkg[d]], Len(ModPath) + 1, Len(Segs[DirPkg[d]]))
DirPath(d) == RootDir \o Rel(d)

\* m.Name = filepath.Base(dir)
ModName == Last(RootDir)

ASSUME WalkOrder \in Seq(Dirs) /\ Range(WalkOrder) = Dirs
ASSUME DirPkg \in [Dirs -> ImportPaths] /\ IsInjective(DirPkg)
ASSUME Segs \in [ImportPaths -> Seq(STRING)] /\ IsInjective(Segs)
ASSUME \A d \in Dirs : IsPrefix(ModPath, Segs[DirPkg[d]])
ASSUME RootDir # <<>> /\ ModPath # <<>> /\ IsPrefix(RepoSdk, RootDir)
ASSUME IndexTestdata \in BOOLEAN

VARIABLES
  modOK,     \* parseModFile(dir) succeeds
  tree,      \* tree[d]: what NewPkg returns for directory d
  extOK      \* packages of other modules that parse in the checkout's sdk

\* The WalkDir callback returns filepath.SkipDir for d:
\* !indexTestdata && strings.Contains(path, "testdata").
Skipped(d) == ~IndexTestdata /\ \E e \in Range(DirPath(d)) : e \in TestdataElems

\* The key m.packages[baseImportPath+p.Name()]: path.Dir of the module path,
\* then p.Name(), which is m.Name joined with d's path below the root.
PkgKey(d) == Front(ModPath) \o <<ModName>> \o Rel(d)

\* strings.Cut(dir, "sdk/"): the first element of dir that ends in "sdk"
\* and is followed by a separator, or 0.
SdkCut == SelectInSubSeq(RootDir, 1, Len(RootDir) - 1, LAMBDA e : e \in DOMAIN SdkStem)

SdkRootDir ==
  IF SdkCut = 0 THEN <<>>
  ELSE LET stem == SdkStem[RootDir[SdkCut]] IN
       SubSeq(RootDir, 1, SdkCut - 1) \o (IF stem = "" THEN <<>> ELSE <<stem>>)
         \o <<sdkDirName>>

\* strings.Cut(impPath, "azure-sdk-for-go/sdk/"): the position of the first
\* element of `after`, or 0 when not found.
RepoCut(s) ==
  LET at == {i \in 1..Len(s) - 2 : s[i] = repoDirName /\ s[i + 1] = sdkDirName}
  IN IF at = {} THEN 0 ELSE Min(at) + 2

InSdk == {ip \in ImportPaths : RepoCut(Segs[ip]) > 0}

\* filepath.Join(sdkRoot, after): the directory NewPkg parses for ip.
SdkPath(ip) == SdkRootDir \o SubSeq(Segs[ip], RepoCut(Segs[ip]), Len(Segs[ip]))

\* NewPkg(filepath.Join(sdkRoot, after), after) succeeds for ip: the path is
\* a directory of this module, or a package of another module in the
\* checkout's sdk; any other path does not exist.
ParsesAtSdkRoot(ip) ==
  IF \E d \in Dirs : DirPath(d) = SdkPath(ip)
  THEN \E d \in Dirs : DirPath(d) = SdkPath(ip) /\ tree[d] = "pkg"
  ELSE SdkRootDir = RepoSdk /\ ip \in extOK

\* strings.Cut(qn, m.Name) finds m.Name: an element of the import path
\* contains it (m.Name has no separator, and the type name after the last
\* "." is an exported identifier the lower-case m.Name does not occur in).
NamesModule(ip) == \E e \in Range(Segs[ip]) : e \in ModNameElems

\* originalName is qn with the module prefix cut, or the full qn when m.Name
\* does not occur in it.
OriginalName(qn) ==
  IF NamesModule(qn[1]) THEN <<"local", qn>> ELSE <<"full", qn>>

\* Mutant: the level compares m.Name with the origin package's own name.
DiagLevelByPackage(qn) == IF Last(Segs[qn[1]]) \in ModNameElems THEN "info" ELSE "warning"

\* level is Info when m.Name occurs in qn, Warning otherwise.
DiagLevel(qn) == IF NamesModule(qn[1]) THEN "info" ELSE "warning"

\* What a token shows: the (possibly cut) qualified name of a simple type,
\* the origin whose members it copies, or the identifier a type is defined as.
NameTexts == {<<tag, qn>> : tag \in {"local", "full"}, qn \in QualifiedNames}
TokenShows == NameTexts \cup {<<"members", qn>> : qn \in QualifiedNames}
                        \cup {<<"ident", i>> : i \in Idents}

Token(k, a, kind, shows) == [id |-> <<k, a>>, kind |-> kind, shows |-> shows]

\* Mutant: the *ast.Ident arm shows originalName, as the default arm does.
HoistIdentAsOriginal(k, a, qn, source, types) ==
  LET def == types[qn[2]] IN
  IF source = NoSource THEN {Token(k, a, "simple", OriginalName(qn))}
  ELSE IF def = NoDecl THEN {}
  ELSE IF def.shape = "interface" THEN {Token(k, a, "interface", <<"members", qn>>)}
  ELSE IF def.shape = "struct" THEN {Token(k, a, "struct", <<"members", qn>>)}
  ELSE {Token(k, a, "simple", OriginalName(qn))}

\* The token the alias a of package k hoists, as a set of at most one:
\* source is the origin's import path or NoSource, types its `types` map.
Hoist(k, a, qn, source, types) ==
  LET def == types[qn[2]] IN
  IF source = NoSource THEN {Token(k, a, "simple", OriginalName(qn))}
  ELSE IF def = NoDecl THEN {}
  ELSE IF def.shape = "interface" THEN {Token(k, a, "interface", <<"members", qn>>)}
  ELSE IF def.shape = "struct" THEN {Token(k, a, "struct", <<"members", qn>>)}
  ELSE IF def.shape = "ident" THEN {Token(k, a, "simple", <<"ident", def.ident>>)}
  ELSE {Token(k, a, "simple", OriginalName(qn))}

\* The diagnostics appended for the alias: one per hoisted token.
AliasDiags(k, a, qn, hoisted) ==
  IF hoisted = {} THEN <<>>
  ELSE <<[level |-> DiagLevel(qn), target |-> <<k, a>>, text |-> OriginalName(qn)]>>

=============================================================================
