-------------------------- MODULE MCPackagesStore --------------------------
(***************************************************************************)
(* PackagesStore on small instances.  Identifiers are model values of the  *)
(* cfg files; spellings, paths and their canonical forms are given here.   *)
(***************************************************************************)
EXTENDS PackagesStore, TLC

CONSTANTS
    f1,     \* one of the FQDNs
    Shout,  \* f1 in capital letters
    Blank   \* a name of spaces

MCNames == FQDNs \cup {Shout, Blank}

MCCanonical == [n \in MCNames |-> IF n = Blank THEN Nil
                                  ELSE IF n = Shout THEN f1 ELSE n]

\* /a and /a/b.
NestedPaths == {<<"a">>, <<"a", "b">>}

\* "/a ", and "/a /" which is stored as "/a " and becomes "/a" when saved again.
SpacedPaths == NestedPaths \cup {<<"a ">>}
SpacedPathNames == SpacedPaths \cup {<<"a ", "">>}

SpacedCanonicalPath ==
    [n \in SpacedPathNames |-> IF n = <<"a ", "">> THEN <<"a ">>
                               ELSE IF n = <<"a ">> THEN <<"a">> ELSE n]

PlainCanonical == [n \in FQDNs |-> n]

OnePath == {<<"a">>}
OneCanonicalPath == [n \in OnePath |-> n]

NoCanonicalPath == [n \in {} |-> Nil]

Symmetry == Permutations(Users) \cup Permutations(DomainIDs)
                                \cup Permutations(PackageIDs)
=============================================================================
