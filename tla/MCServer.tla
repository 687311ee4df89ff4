------------------------------ MODULE MCServer ------------------------------
(***************************************************************************)
(* The parts of the server about domains, packages and their changelog     *)
(* side by side: they share no state, so a behaviour is one of them alone. *)
(***************************************************************************)
EXTENDS GitReferences, PackageForms, DomainPages, ChangelogPages, DomainHandlers, TLC

VARIABLE part

allVars == <<gitVars, formsVars, pagesVars, changelogVars, handlersVars, part>>

ServerInit ==
    /\ part \in {"references", "forms", "pages", "changelog", "handlers"}
    /\ IF part = "references" THEN GitInit
       ELSE upstream = <<>> /\ chosen = [type |-> "none", name |-> "master"] /\ answer = Unanswered
    /\ IF part = "pages" THEN PagesInit
       ELSE /\ listing = [k \in DomainKeys |-> NoEntry] /\ gone = {} /\ page = NoPage
            /\ stayed = {} /\ was = FALSE /\ disturbed = FALSE
    /\ FormsInit /\ ChangelogInit /\ HandlersInit

GitPart ==
    /\ part = "references" /\ GitNext
    /\ UNCHANGED <<formsVars, pagesVars, changelogVars, handlersVars, part>>

FormsPart ==
    /\ part = "forms" /\ FormsNext
    /\ UNCHANGED <<gitVars, pagesVars, changelogVars, handlersVars, part>>

\* What others do after the answer of a page does not matter to it.
PagesPart ==
    /\ part = "pages" /\ page.step \in {"none", "walk"} /\ PagesNext
    /\ UNCHANGED <<gitVars, formsVars, changelogVars, handlersVars, part>>

ChangelogPart ==
    /\ part = "changelog" /\ ChangelogNext
    /\ UNCHANGED <<gitVars, formsVars, pagesVars, handlersVars, part>>

HandlersPart ==
    /\ part = "handlers" /\ HandlersNext
    /\ UNCHANGED <<gitVars, formsVars, pagesVars, changelogVars, part>>

ServerNext == GitPart \/ FormsPart \/ PagesPart \/ ChangelogPart \/ HandlersPart

ServerSpec == ServerInit /\ [][ServerNext]_allVars

\* Domain ids (Domains and DomainIds have the same), persons and requests are
\* interchangeable, and so are the names that need a token.
Interchangeable ==
    Permutations(DomainIds) \cup Permutations(Persons)
    \cup Permutations(Requests) \cup Permutations(Names \ Trusted)
=============================================================================
