----------------------------- MODULE MCAccounts -----------------------------
(***************************************************************************)
(* Accounts on small instances.  The run explores the union of four parts  *)
(* of the state space, each with what matters to it at full size and the   *)
(* rest small.                                                             *)
(***************************************************************************)
EXTENDS Accounts, FiniteSets, TLC

CONSTANTS
    e1, e2,             \* Emails
    e1spaced, e2spaced  \* the same, with spaces around them

SpacesTrimmed ==
    [s \in Spellings |-> IF s = e1spaced THEN e1 ELSE IF s = e2spaced THEN e2 ELSE s]

PasswordsUsed == {history.last[id] : id \in UserIDs} \ {Nil}
Busy == {r \in Requests : requests[r] # Idle}
DomainsUsed == \E d \in Domains : owner[d] # Nil
StepsTaken == {requests[r].step : r \in Requests}
Rows == {s \in Sessions : sessions[s] # Nil}
NoResets == \A t \in Tokens : ~Requested(t)
NoNames == ~history.aliased /\ \A id \in UserIDs : users[id].username = Nil

\* Requested, superseded, expired and confirmed addresses, in their spellings.
AddressesPart ==
    /\ Cardinality(PasswordsUsed) <= 1 /\ Cardinality(Busy) <= 1 /\ ~DomainsUsed
    /\ StepsTaken \subseteq {"idle", "session", "delete", "delete-logout"}
    /\ NoResets /\ NoNames /\ Cardinality(Rows) <= 1

\* User names, ids among them.
NamesPart ==
    /\ now = 1 /\ Cardinality(PasswordsUsed) <= 1 /\ Cardinality(Busy) <= 1 /\ ~DomainsUsed
    /\ StepsTaken \subseteq {"idle", "session", "delete", "delete-logout"}
    /\ NoResets /\ Cardinality(drawn \cap Tokens) <= 2 /\ Cardinality(Rows) <= 1

\* One account, its passwords and its reset tokens.
PasswordsPart ==
    /\ ~DomainsUsed /\ StepsTaken \cap (Giving \cup Deleting) = {}
    /\ Cardinality(drawn \cap UserIDs) <= 1
    /\ NoNames /\ Cardinality(Rows) <= 1 /\ history.padded = {}

\* Two accounts, two requests at a time and a domain.
DomainsPart ==
    /\ now = 1 /\ Cardinality(PasswordsUsed) <= 1 /\ Cardinality(drawn \cap Tokens) <= 2
    /\ NoResets /\ NoNames /\ history.padded = {}
    /\ StepsTaken \cap {"password-authenticate", "password"} = {}

Bound == AddressesPart \/ NamesPart \/ PasswordsPart \/ DomainsPart

\* The other address, spelt the same way.
OtherAddress == (e1 :> e2) @@ (e2 :> e1) @@ (e1spaced :> e2spaced) @@ (e2spaced :> e1spaced)

\* User names, of which some are ids, are not interchangeable.
Symmetry ==
    {OtherAddress} \cup Permutations(UserIDs) \cup Permutations(Passwords) \cup Permutations(Tokens)
        \cup Permutations(Sessions) \cup Permutations(Domains)
        \cup Permutations(Requests)
=============================================================================
