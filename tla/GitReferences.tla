---------------------------- MODULE GitReferences ---------------------------
(***************************************************************************)
(* A package with a changed reference is fetched through the server, which *)
(* asks the repository for its references and rewrites the answer          *)
(* (packageGitInfoRefsHandler and writeAlteredGitInfoRef of                *)
(* server/handlers_packages.go), so that "go get" finds the chosen branch  *)
(* or tag as HEAD and as branch master.                                    *)
(*                                                                         *)
(* An answer is a sequence of lines, each with the kind and name of a      *)
(* reference and a hash, in the order git sends them: HEAD first, then     *)
(* branches, then tags, the line of what an annotated tag points to behind *)
(* the line of the tag.                                                    *)
(***************************************************************************)
EXTENDS Naturals, FiniteSets, Sequences, SequencesExt

CONSTANTS
    Branches,       \* besides master
    Tags,
    Hashes

ASSUME GitReferencesAssumption == IsFiniteSet(Branches) /\ IsFiniteSet(Tags)

Master == [kind |-> "branch", name |-> "master"]
HeadLine == [kind |-> "head", name |-> "HEAD"]

References ==
    {HeadLine, Master} \cup [kind : {"branch"}, name : Branches]
    \cup [kind : {"tag", "peeled"}, name : Tags]

\* The order git sends them in: HEAD, the branches, the tags, whatever their names
\* are, and behind an annotated tag what it points to.
Rank == [head |-> 0, branch |-> 1, tag |-> 2, peeled |-> 2]

InOrder(sent) ==
    /\ \A i, j \in DOMAIN sent :
           i < j => sent[i] # sent[j] /\ Rank[sent[i].kind] <= Rank[sent[j].kind]
    /\ \A j \in DOMAIN sent : sent[j].kind = "peeled" =>
           j > 1 /\ sent[j - 1] = [kind |-> "tag", name |-> sent[j].name]

VARIABLES
    upstream,       \* what the repository answers: a sequence of lines
    chosen,         \* RefType, "none" without one, and RefName of the package
    answer          \* what the server answers

gitVars == <<upstream, chosen, answer>>

Unanswered == [status |-> 0, lines |-> <<>>, symref |-> "none"]
Status(code) == [status |-> code, lines |-> <<>>, symref |-> "none"]

GitInit ==
    /\ \E known \in SUBSET References :
           \E sent \in [1 .. Cardinality(known) -> known], hash \in [known -> Hashes] :
               /\ InOrder(sent)
               /\ upstream = [i \in DOMAIN sent |-> [ref |-> sent[i], hash |-> hash[sent[i]]]]
    /\ chosen \in [type : {"branch", "tag", "none"}, name : Branches \cup Tags \cup {"master"}]
    /\ answer = Unanswered

----------------------------------------------------------------------------
\* Where the scan of the lines ends: at the line of what the chosen tag points to.
LastScanned ==
    IF chosen.type = "tag" /\ \E i \in DOMAIN upstream :
           upstream[i].ref = [kind |-> "peeled", name |-> chosen.name]
    THEN SelectInSeq(upstream, LAMBDA l : l.ref = [kind |-> "peeled", name |-> chosen.name])
    ELSE Len(upstream)

\* The index of a line among those scanned, 0 when it is not there.
LineOf(ref) == SelectInSeq(SubSeq(upstream, 1, LastScanned), LAMBDA l : l.ref = ref)

HashAt(i) == IF i = 0 THEN {} ELSE {upstream[i].hash}

\* Mutant: the line of the tag counts, not what the tag points to.
ChosenHashUnpeeled ==
    IF chosen.name = "master" /\ chosen.type = "branch" THEN {}
    ELSE HashAt(LineOf([kind |-> chosen.type, name |-> chosen.name]))

\* The hash of the chosen reference, if it is found: the line of branch master is
\* passed over before it is compared with the chosen one.
ChosenHash ==
    IF chosen.type = "branch" /\ chosen.name = "master" THEN {}
    ELSE IF chosen.type = "tag" /\ LineOf([kind |-> "peeled", name |-> chosen.name]) # 0
         THEN HashAt(LineOf([kind |-> "peeled", name |-> chosen.name]))
    ELSE HashAt(LineOf([kind |-> chosen.type, name |-> chosen.name]))

\* writeAlteredGitInfoRef: the lines before HEAD, HEAD and master with the hash,
\* the lines after HEAD without master.  HEAD names master as its branch when a
\* branch was chosen, and none otherwise: the old "symref" becomes "oldref".
\* Without a reference type this is an error.
Altered ==
    LET head == LineOf(HeadLine)
        master == LineOf(Master)
        n == Len(upstream)
    IN  IF chosen.type = "none" THEN Status(500)
        ELSE IF head = 0 \/ ChosenHash = {} THEN Status(404)
        ELSE LET h == CHOOSE x \in ChosenHash : TRUE
             IN  [status |-> 200,
                  symref |-> IF chosen.type = "branch" THEN "master" ELSE "none",
                  lines |-> SubSeq(upstream, 1, head - 1)
                      \o <<[ref |-> HeadLine, hash |-> h], [ref |-> Master, hash |-> h]>>
                      \o IF master = 0 THEN SubSeq(upstream, head + 1, n)
                         ELSE SubSeq(upstream, head + 1, master - 1)
                              \o SubSeq(upstream, master + 1, n)]

\* packageGitInfoRefsHandler: another status of the repository is passed on.
InfoRefs ==
    /\ answer = Unanswered
    /\ answer' \in {Altered, Status(401), Status(500)}
    /\ UNCHANGED <<upstream, chosen>>

GitNext == InfoRefs

GitSpec == GitInit /\ [][GitNext]_gitVars

----------------------------------------------------------------------------
(***************************************************************************)
(* Properties                                                              *)
(***************************************************************************)

HashIn(lines, ref) == {lines[i].hash : i \in {j \in DOMAIN lines : lines[j].ref = ref}}

\* What the chosen reference stands for: a tag for what it points to.
Target ==
    LET peeled == HashIn(upstream, [kind |-> "peeled", name |-> chosen.name])
    IN  IF chosen.type = "tag" /\ peeled # {} THEN peeled
        ELSE HashIn(upstream, [kind |-> chosen.type, name |-> chosen.name])

(***************************************************************************)
(* In a rewritten answer HEAD and master are what the chosen branch or tag *)
(* stands for in the repository, every other reference is what it was, and *)
(* no reference is there twice; only a reference that the repository has   *)
(* not, the branch master, and a repository without HEAD are not found.    *)
(***************************************************************************)
RewrittenTruly ==
    /\ answer.status = 200 =>
           /\ \A r \in {HeadLine, Master} : HashIn(answer.lines, r) = Target
           /\ \A r \in References \ {HeadLine, Master} :
                  HashIn(answer.lines, r) = HashIn(upstream, r)
           /\ \A i, j \in DOMAIN answer.lines :
                  answer.lines[i].ref = answer.lines[j].ref => i = j
           /\ answer.symref # "none" => answer.symref = "master"
    /\ answer.status = 404 =>
           \/ Target = {} \/ HashIn(upstream, HeadLine) = {}
           \/ chosen.type = "branch" /\ chosen.name = "master"
=============================================================================
