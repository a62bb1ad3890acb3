------------------------------ MODULE PkgIndex ------------------------------
(***************************************************************************)
(* The Declaration Index (Pkg) of the API view tool: what Pkg.Index()      *)
(* leaves in a package's `types` and `typeAliases` maps.  The parser and   *)
(* Pkg.Index() live outside src/ (cmd/pkg.go); the shapes below follow     *)
(* spec section 4.1.  Every package is identified by its import path; the  *)
(* declarations of a directory are the same whether it is reached by the  *)
(* module walk or through the sdk root, so they are constants per path.    *)
(***************************************************************************)
EXTENDS FiniteSets

CONSTANTS
  ImportPaths,  \* import paths of every package that can be named
  TypeNames,    \* declared type names (identifiers)
  Idents,       \* names a defined type can be defined as (`type X string`)
  Decl,         \* Decl[ip][t]: shape of type t declared in ip, or NoDecl
  Alias,        \* Alias[ip][t]: <<import path, type>> aliased by t, or NoAlias
  NoDecl,
  NoAlias

(* The syntactic shape of a declaration's right-hand side: the arms of the *)
(* type switch in NewModule plus the "anything else" arm.                  *)
DeclShapes ==
  [shape : {"interface", "struct", "other"}] \cup [shape : {"ident"}, ident : Idents]

QualifiedNames == ImportPaths \X TypeNames

ASSUME Decl \in [ImportPaths -> [TypeNames -> DeclShapes \cup {NoDecl}]]
ASSUME Alias \in [ImportPaths -> [TypeNames -> QualifiedNames \cup {NoAlias}]]
\* Go rejects a package declaring one name twice: a name is a type or an alias.
ASSUME \A ip \in ImportPaths, t \in TypeNames :
         Decl[ip][t] = NoDecl \/ Alias[ip][t] = NoAlias

(* Pkg.Index(): a package's `types` map once indexed; a Pkg that was never *)
(* indexed has empty maps.                                                 *)
IndexedTypes(ip, isIndexed) ==
  IF isIndexed THEN Decl[ip] ELSE [t \in TypeNames |-> NoDecl]

(* Pkg.Index(): the keys of a package's `typeAliases` map.                 *)
IndexedAliases(ip, isIndexed) ==
  IF isIndexed THEN {t \in TypeNames : Alias[ip][t] # NoAlias} ELSE {}

=============================================================================
