---------------------------- MODULE PackageForms ----------------------------
(***************************************************************************)
(* The record of one package as its handlers write it: the API changes any *)
(* fields alone (updatePackageAPIHandler of server/api_packages.go), the   *)
(* web interface all of them (packageFEAPIHandler of                       *)
(* server/feapi_packages.go), and both validate what they are given before *)
(* packageRecord.save validates the record; and the answer to "go get"     *)
(* (packageResolverHandler of server/handlers_packages.go).                *)
(*                                                                         *)
(* Permissions and paths are in PackagesStore; a repository root is its    *)
(* scheme, "" for none.                                                    *)
(***************************************************************************)
CONSTANT Absent     \* of a field that a request leaves out

\* The values told apart: other schemes and systems go the way of these.
Systems == {"git", "svn"}
Schemes == {"https", "ssh", "svn"}
RefTypes == {"branch", "tag"}
RefNames == {"b", "t"}

ASSUME AbsentAssumption == Absent \notin Systems \cup Schemes \cup RefTypes \cup RefNames \cup {""}

VARIABLES
    package,        \* the record, or NoPackageForm
    cleared         \* history: its RefName was emptied alone

formsVars == <<package, cleared>>

Fields == {"vcs", "root", "refType", "refName"}
NoPackageForm == [f \in Fields |-> ""]

FormsInit ==
    /\ package = NoPackageForm
    /\ cleared = FALSE

\* packages.VCSSchemes
VCSSchemes == [git |-> {"https", "ssh"}, svn |-> {"https", "svn"}]

Given(v) == v \notin {Absent, ""}
SchemeFits(vcs, root) == vcs \in Systems /\ root \in VCSSchemes[vcs]

\* updatePackageAPIHandler: what it refuses of a request before the service.
APIAccepts(o) ==
    /\ package = NoPackageForm => Given(o.vcs) /\ Given(o.root)
    /\ o.root # Absent /\ Given(o.vcs) => SchemeFits(o.vcs, o.root)
    /\ Given(o.refType) => Given(o.refName)
    /\ o.vcs # Absent /\ Given(o.refName) =>
           o.vcs = "git" /\ o.root \in {"https", Absent}

\* packageFEAPIHandler: every field is there.
FormAccepts(o) ==
    /\ Given(o.vcs) /\ Given(o.root) /\ SchemeFits(o.vcs, o.root)
    /\ Given(o.refType) => Given(o.refName)
    /\ Given(o.refName) => o.vcs = "git" /\ o.root = "https"

\* packageRecord.update
Updated(o) == [f \in Fields |-> IF o[f] = Absent THEN package[f] ELSE o[f]]

\* Mutant: the reference is not looked at again.
SavedUnchecked(r) ==
    /\ r.vcs # "" /\ r.root # "" /\ SchemeFits(r.vcs, r.root)
    /\ package' = r

\* packageRecord.save of the whole record.
Saved(r) ==
    /\ r.vcs # "" /\ r.root # "" /\ SchemeFits(r.vcs, r.root)
    /\ r.refName # "" => r.vcs = "git" /\ r.root = "https"
    /\ package' = r

----------------------------------------------------------------------------
PackageAPI(o) ==
    /\ APIAccepts(o)
    /\ Saved(Updated(o))
    /\ cleared' = /\ package'.refType # "" /\ package'.refName = ""
                  /\ cleared \/ (o.refName = "" /\ o.refType = Absent)

PackageForm(o) ==
    /\ FormAccepts(o)
    /\ Saved(o)
    /\ cleared' = FALSE

DeletePackageForm ==
    /\ package # NoPackageForm
    /\ package' = NoPackageForm
    /\ cleared' = FALSE

FormsNext ==
    \/ \E o \in [vcs : Systems \cup {"", Absent}, root : Schemes \cup {"", Absent},
                 refType : RefTypes \cup {"", Absent}, refName : RefNames \cup {"", Absent}] :
           PackageAPI(o)
    \/ \E o \in [vcs : Systems \cup {""}, root : Schemes \cup {""},
                 refType : RefTypes \cup {""}, refName : RefNames \cup {""}] : PackageForm(o)
    \/ DeletePackageForm

FormsSpec == FormsInit /\ [][FormsNext]_formsVars

----------------------------------------------------------------------------
\* packageResolverHandler: with a reference type the repository to fetch from is
\* this server itself.
SentToSelf == package.refType # ""

\* packageGitInfoRefsHandler and packageGitUploadPackHandler pass requests for a
\* Git repository on by http, and rewrite the references with the chosen name.
ServedBySelf == package.vcs = "git" /\ package.root = "https" /\ package.refName # ""

(***************************************************************************)
(* Whoever is sent to this server for a package finds it served: in any    *)
(* sequence of partial updates a record with a reference type stays a Git  *)
(* repository by http with a reference name, unless the name was emptied   *)
(* by itself, which neither validation looks at.                          *)
(***************************************************************************)
SentToSelfIsServed == SentToSelf /\ ~cleared => ServedBySelf
=============================================================================
