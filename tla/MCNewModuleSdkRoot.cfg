CONSTANTS
  dA = dA  dB = dB  dC = dC  dT = dT
  mA = mA  mB = mB  mC = mC  mT = mT  xC = xC  xD = xD  xE = xE
  T1 = T1  T2 = T2  T3 = T3  str = str
  NoDecl = NoDecl  NoAlias = NoAlias  NoSource = NoSource  NoPkg = NoPkg
  Dirs <- MCDirs
  WalkOrder <- MCWalkOrder
  DirPkg <- MCDirPkg
  Segs <- MCSegs
  ModPath <- MCModPath
  RootDir <- MCRootDirAzureSdk
  RepoSdk <- MCRepoSdkAzureSdk
  SdkStem <- MCSdkStemAzureSdk
  TestdataElems <- MCTestdataElems
  ImportPaths <- MCImportPaths
  TypeNames <- MCTypeNames
  Idents = {str}
  Decl <- MCDecl
  Alias <- MCAlias
  IndexTestdata = FALSE
  ModNameElems <- MCModNameElems
SPECIFICATION Spec
INVARIANT
  AliasHoistedFromParsedOrigin
