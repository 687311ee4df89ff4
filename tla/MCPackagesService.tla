------------------------- MODULE MCPackagesService -------------------------
(***************************************************************************)
(* PackagesService on small instances.                                     *)
(***************************************************************************)
EXTENDS PackagesService

PlainCanonical == [n \in FQDNs |-> n]

\* "/a", "/a " and "/a /".
plain == <<"a">>
spaced == <<"a ">>
slashed == <<"a ", "">>

ServicePaths == {plain, spaced}
ServicePathNames == {plain, spaced, slashed}
TrimmedPath == [n \in ServicePathNames |-> IF n = slashed THEN spaced ELSE plain]
=============================================================================
