---------------------------- MODULE MCNewModule ----------------------------
(***************************************************************************)
(* A module of four directories -- the root package dA, packages dB and    *)
(* dC, a testdata package dT -- and three packages of other modules (xC,  *)
(* xD in sibling sdk modules, xE outside the sdk).  The aliases           *)
(* cover every arm of the alias loop: an intra-module struct, an external  *)
(* interface and a second alias into the same external package (a cache   *)
(* hit), a defined type, an "other" shape, a missing declaration, an alias *)
(* to an alias, an alias into the skipped testdata package, and a package  *)
(* outside the sdk.  Init picks what NewPkg returns for each directory and *)
(* which external packages parse.                                          *)
(***************************************************************************)
EXTENDS NewModule, TLC

CONSTANTS dA, dB, dC, dT, mA, mB, mC, mT, xC, xD, xE, T1, T2, T3, str

MCDirs == {dA, dB, dC, dT}
\* WalkDir's lexical order: azmod, azmod/bsub, azmod/testdata, azmod/util.
MCWalkOrder == <<dA, dB, dT, dC>>
MCDirPkg == [d \in MCDirs |-> CASE d = dA -> mA [] d = dB -> mB
                                 [] d = dC -> mC [] d = dT -> mT]
MCImportPaths == {mA, mB, mC, mT, xC, xD, xE}
MCTypeNames == {T1, T2, T3}

\* github.com/Azure/azure-sdk-for-go/sdk/azmod, and its /v2 major version.
MCSdkImport == <<"github.com", "Azure", "azure-sdk-for-go", "sdk">>
MCModPath == MCSdkImport \o <<"azmod">>
MCModPathV2 == MCModPath \o <<"v2">>

\* The import paths when the module path is mp and xC is at xc: the
\* module's own packages, two packages of sibling sdk modules, and one
\* outside the sdk.
MCSegsOf(mp, xc) ==
  [ip \in MCImportPaths |->
     CASE ip = mA -> mp
       [] ip = mB -> mp \o <<"bsub">>
       [] ip = mT -> mp \o <<"testdata">>
       [] ip = mC -> mp \o <<"util">>
       [] ip = xC -> xc
       [] ip = xD -> MCSdkImport \o <<"ymod", "inner">>
       [] ip = xE -> <<"example.org", "ext">>]
MCSegs == MCSegsOf(MCModPath, MCSdkImport \o <<"xmod">>)
MCSegsV2 == MCSegsOf(MCModPathV2, MCSdkImport \o <<"xmod">>)
\* xC is a sibling module whose name contains the module's, as module
\* sdk/ai/azopenai sees sdk/ai/azopenaiextensions.
MCSegsSubstring == MCSegsOf(MCModPath, MCSdkImport \o <<"azmodext">>)

\* The checkout's sdk directory, and the module root below it.  Variants: a
\* checkout under a directory whose name ends in "sdk", and one under a
\* directory whose name contains "testdata".
MCRepoSdk == <<"home", "me", "azure-sdk-for-go", "sdk">>
MCRepoSdkAzureSdk == <<"home", "azure-sdk", "azure-sdk-for-go", "sdk">>
MCRepoSdkTestdata == <<"home", "apiview-testdata", "azure-sdk-for-go", "sdk">>
MCRootDir == MCRepoSdk \o <<"azmod">>
MCRootDirAzureSdk == MCRepoSdkAzureSdk \o <<"azmod">>
MCRootDirTestdata == MCRepoSdkTestdata \o <<"azmod">>
MCSdkStem == "sdk" :> ""
MCSdkStemAzureSdk == ("sdk" :> "") @@ ("azure-sdk" :> "azure-")
MCTestdataElems == {"testdata", "apiview-testdata"}

MCModNameElems == {"azmod", "azmodext"}

DeclOf(ip, t) ==
  CASE <<ip, t>> = <<mA, T1>> -> [shape |-> "struct"]
    [] <<ip, t>> = <<mT, T1>> -> [shape |-> "interface"]
    [] <<ip, t>> = <<xC, T1>> -> [shape |-> "interface"]
    [] <<ip, t>> = <<xC, T2>> -> [shape |-> "ident", ident |-> str]
    [] <<ip, t>> = <<xD, T1>> -> [shape |-> "other"]
    [] <<ip, t>> = <<xE, T1>> -> [shape |-> "struct"]
    [] OTHER -> NoDecl

AliasOf(ip, t) ==
  CASE <<ip, t>> = <<mA, T2>> -> <<xC, T1>>
    [] <<ip, t>> = <<mA, T3>> -> <<xD, T1>>
    [] <<ip, t>> = <<mB, T1>> -> <<mA, T1>>
    [] <<ip, t>> = <<mB, T2>> -> <<xC, T2>>
    [] <<ip, t>> = <<mB, T3>> -> <<xE, T1>>
    [] <<ip, t>> = <<mC, T1>> -> <<xD, T2>>
    [] <<ip, t>> = <<mC, T2>> -> <<mB, T1>>
    [] <<ip, t>> = <<mC, T3>> -> <<mT, T1>>
    [] OTHER -> NoAlias

MCDecl == [ip \in MCImportPaths |-> [t \in MCTypeNames |-> DeclOf(ip, t)]]
MCAlias == [ip \in MCImportPaths |-> [t \in MCTypeNames |-> AliasOf(ip, t)]]

=============================================================================
