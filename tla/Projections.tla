----------------------------- MODULE Projections -----------------------------
(***************************************************************************)
(* The files that are derived from reviewed sources, and the commands that *)
(* derive and check them: the schema bundles and the client of the         *)
(* protocol (scripts/generate-protocol.mjs, check-protocol-drift.mjs) and  *)
(* the documentation site with its machine corpus (integrations/           *)
(* sumi-docs-publisher.mjs, scripts/verify-docs-dist.mjs).  A checkout has *)
(* one shell, which runs one command at a time; a command can be stopped   *)
(* between any two of its writes, the next one starts from what is left,   *)
(* and the maintainers edit sources, and sometimes projections, meanwhile. *)
(***************************************************************************)
EXTENDS Naturals

CONSTANTS
  Documents, \* the documents in the publisher's options
  Paths,     \* machine paths the options can give them
  MaxEdits,  \* bound on the revisions of a source
  NoDocument

ASSUME EditAssumption == MaxEdits \in Nat
ASSUME NoDocumentAssumption == NoDocument \notin Documents

VARIABLES
  sources, \* revision of every source
  trees,   \* the projections of the protocol: committed, and a check's own
  machine, \* the publisher's options: the machine path of every document
  pages,   \* the documents with a page on the site
  corpus,  \* the document at every machine path of the site
  index,   \* which of openapi.json, manifest and routes are in the corpus
  torn,    \* a build has begun to empty the site and not ended that (history)
  job,     \* the command that runs
  calm     \* nobody has edited anything since it was started

site == <<pages, corpus, index, torn>>
derivedVars == <<sources, trees, machine, site, job, calm>>

Sources == {"openapi", "events"}
Projected == {"openapi.bundle", "events.bundle", "client", "event.types"}
Bundles == {"openapi.bundle", "events.bundle"}
SourceOf == [f \in Projected |->
  IF f \in {"openapi.bundle", "client"} THEN "openapi" ELSE "events"]
Index == {"openapi.json", "manifest", "routes"}

Revisions == 0 .. MaxEdits
Missing == MaxEdits + 1
Patched == MaxEdits + 2
Contents == Revisions \cup {Missing, Patched}

NoTree == [f \in Projected |-> Missing]

Commands == {"generate", "check", "publish", "verify"}
NoCorpus == [p \in Paths |-> NoDocument]
NoJob == [command |-> "none", step |-> "none", read |-> [s \in Sources |-> Missing], left |-> {}]

\* Mutant: two documents can be given one path.
AcceptsAll(paths) == TRUE

\* normalizePublisherOptions: machine paths are unique.
Accepted(paths) == \A d, e \in Documents : paths[d] = paths[e] => d = e

DerivedInit ==
  /\ sources = [s \in Sources |-> 0]
  /\ trees = [t \in {"committed", "temporary"} |->
                IF t = "committed" THEN [f \in Projected |-> 0] ELSE NoTree]
  /\ machine \in {paths \in [Documents -> Paths] : Accepted(paths)}
  /\ pages = {}
  /\ corpus = NoCorpus
  /\ index = {}
  /\ torn = FALSE
  /\ job = NoJob
  /\ calm = TRUE

-----------------------------------------------------------------------------
(* The maintainers and the shell *)

EditSource(s) ==
  /\ sources[s] < MaxEdits
  /\ sources' = [sources EXCEPT ![s] = @ + 1]
  /\ calm' = FALSE
  /\ UNCHANGED <<trees, machine, site, job>>

\* A projection is patched by hand, or lost in a merge.
EditProjection(f) ==
  /\ \E c \in {Patched, Missing} : trees' = [trees EXCEPT !["committed"][f] = c]
  /\ calm' = FALSE
  /\ UNCHANGED <<sources, machine, site, job>>

FirstStep(command) ==
  CASE command \in {"generate", "check"} -> "read"
    [] command = "publish" -> "empty"
    [] command = "verify" -> "verify"

Start(command) ==
  /\ job = NoJob
  /\ job' = [NoJob EXCEPT !.command = command, !.step = FirstStep(command)]
  /\ calm' = TRUE
  /\ trees' = [trees EXCEPT !["temporary"] = NoTree]
  /\ UNCHANGED <<sources, machine, site>>

\* It is over, has thrown, or is killed.
Stop ==
  /\ job # NoJob
  /\ job' = NoJob
  /\ UNCHANGED <<sources, trees, machine, site, calm>>

-----------------------------------------------------------------------------
(* generate-protocol, for the checkout or for the check's own directory *)

\* PROTOCOL_OUTPUT_ROOT.
Tree(command) == IF command = "check" THEN "temporary" ELSE "committed"

tree == trees[Tree(job.command)]

StepTo(step) == job' = [job EXCEPT !.step = step]
Write(files, step) ==
  /\ trees' = [trees EXCEPT ![Tree(job.command)] = files]
  /\ StepTo(step)
  /\ UNCHANGED <<sources, machine, site, calm>>

\* The sources are read in any order, and then looked at.
ReadSource(s) ==
  /\ job.step = "read" /\ job.read[s] = Missing
  /\ job' = [job EXCEPT !.read[s] = sources[s],
               !.step = IF \A o \in Sources \ {s} : job.read[o] # Missing
                        THEN "clear" ELSE "read"]
  /\ UNCHANGED <<sources, trees, machine, site, calm>>

ClearSchemas ==
  /\ job.step = "clear"
  /\ Write([f \in Projected |-> IF f \in Bundles THEN Missing ELSE tree[f]], "openapi.bundle")

WriteBundle ==
  \/ /\ job.step = "openapi.bundle"
     /\ Write([tree EXCEPT !["openapi.bundle"] = job.read["openapi"]], "events.bundle")
  \/ /\ job.step = "events.bundle"
     /\ Write([tree EXCEPT !["events.bundle"] = job.read["events"]], "client")

\* The generator makes the client from the bundle as it is now; whether it
\* first empties its directory is the generator's affair.
GenerateClient ==
  /\ job.step = "client" /\ tree["openapi.bundle"] # Missing
  /\ \E types \in {tree["event.types"], Missing} :
       Write([tree EXCEPT !["client"] = tree["openapi.bundle"], !["event.types"] = types],
             "event.types")

WriteEventTypes ==
  /\ job.step = "event.types"
  /\ Write([tree EXCEPT !["event.types"] = job.read["events"]],
           IF job.command = "check" THEN "compare" ELSE "done")

\* Mutant: only the schema bundles are compared.
BundlesDiffer == {f \in Bundles : trees["committed"][f] # trees["temporary"][f]}

\* The file lists and the contents of both projected directories.
Differences == {f \in Projected : trees["committed"][f] # trees["temporary"][f]}

\* check-protocol-drift passes only without a difference.
Compare ==
  /\ job.step = "compare"
  /\ job' = [job EXCEPT !.step = IF Differences = {} THEN "pass" ELSE "drift"]
  /\ UNCHANGED <<sources, trees, machine, site, calm>>

-----------------------------------------------------------------------------
(* astro build with the publisher, and verify-docs-dist *)

\* Astro empties its output directory, one file after another,
RemoveFile ==
  /\ job.step = "empty"
  /\ \/ /\ \E d \in pages : pages' = pages \ {d}
        /\ UNCHANGED <<corpus, index>>
     \/ /\ \E p \in Paths : corpus[p] # NoDocument /\ corpus' = [corpus EXCEPT ![p] = NoDocument]
        /\ UNCHANGED <<pages, index>>
     \/ /\ \E i \in index : index' = index \ {i}
        /\ UNCHANGED <<pages, corpus>>
  /\ torn' = TRUE
  /\ UNCHANGED <<sources, trees, machine, job, calm>>

SiteEmptied ==
  /\ job.step = "empty" /\ pages = {} /\ corpus = NoCorpus /\ index = {}
  /\ torn' = FALSE
  /\ job' = [job EXCEPT !.step = "render", !.left = Documents]
  /\ UNCHANGED <<sources, trees, machine, pages, corpus, index, calm>>

\* The documents are worked off one after another.
DoneWith(d, step) ==
  job' = IF job.left = {d} THEN [job EXCEPT !.step = step, !.left = Documents]
         ELSE [job EXCEPT !.left = @ \ {d}]

\* renders the pages,
RenderPage(d) ==
  /\ job.step = "render" /\ d \in job.left
  /\ pages' = pages \cup {d}
  /\ DoneWith(d, "copy")
  /\ UNCHANGED <<sources, trees, machine, corpus, index, torn, calm>>

\* and the publisher copies one document after another,
CopyDocument(d) ==
  /\ job.step = "copy" /\ d \in job.left
  /\ corpus' = [corpus EXCEPT ![machine[d]] = d]
  /\ DoneWith(d, "openapi")
  /\ UNCHANGED <<sources, trees, machine, pages, index, torn, calm>>

WriteOpenapi ==
  /\ job.step = "openapi"
  /\ index' = index \cup {"openapi.json"}
  /\ StepTo("index")
  /\ UNCHANGED <<sources, trees, machine, pages, corpus, torn, calm>>

\* Mutant: the index is written while the documents are copied.
CanWriteIndexAlways == job.step \in {"copy", "openapi", "index"}

\* The index is last.
CanWriteIndex == job.step = "index"

\* Manifest and routes are written at once, and either can be there first.
WriteIndex(i) ==
  /\ CanWriteIndex
  /\ i \in {"manifest", "routes"} \ index
  /\ index' = index \cup {i}
  /\ UNCHANGED <<sources, trees, machine, pages, corpus, torn, job, calm>>

\* Mutant: the routes are taken for granted.
FilesVerifiedWithoutRoutes == {"openapi.json", "manifest"}

\* What of the index verify-docs-dist opens.
FilesVerified == Index

\* Every path in the manifest and every page its route names is opened too.
Verifies ==
  /\ FilesVerified \subseteq index
  /\ \A d \in Documents : corpus[machine[d]] # NoDocument /\ d \in pages

VerifySite ==
  /\ job.step = "verify"
  /\ StepTo(IF Verifies THEN "pass" ELSE "fail")
  /\ UNCHANGED <<sources, trees, machine, site, calm>>

Command ==
  \/ \E s \in Sources : ReadSource(s)
  \/ ClearSchemas \/ WriteBundle \/ GenerateClient \/ WriteEventTypes \/ Compare
  \/ RemoveFile \/ SiteEmptied \/ WriteOpenapi \/ VerifySite
  \/ \E d \in Documents : RenderPage(d) \/ CopyDocument(d)
  \/ \E i \in Index : WriteIndex(i)

DerivedNext ==
  \/ \E s \in Sources : EditSource(s)
  \/ \E f \in Projected : EditProjection(f)
  \/ \E c \in Commands : Start(c)
  \/ Command \/ Stop

DerivedSpec == DerivedInit /\ [][DerivedNext]_derivedVars

-----------------------------------------------------------------------------
(* Properties *)

DerivedTypeOK ==
  /\ sources \in [Sources -> Revisions]
  /\ trees \in [{"committed", "temporary"} -> [Projected -> Contents]]
  /\ machine \in [Documents -> Paths]
  /\ pages \subseteq Documents
  /\ corpus \in [Paths -> Documents \cup {NoDocument}]
  /\ index \subseteq Index
  /\ torn \in BOOLEAN
  /\ job.command \in Commands \cup {"none"}
  /\ job.left \subseteq Documents
  /\ calm \in BOOLEAN

\* A drift check that nobody disturbs passes exactly when every committed
\* projection is what the sources generate now: whatever a generation that
\* was stopped halfway, a patch or an edit has left behind, it is neither
\* missed nor made up.
DriftCheckIsExact ==
  job.command = "check" /\ job.step \in {"pass", "drift"} /\ calm =>
    (job.step = "pass" <=>
       \A f \in Projected : trees["committed"][f] = sources[SourceOf[f]])

\* Once a build has emptied the site, there is no manifest before every document
\* it names is there, each at a path of its own, with its page and the
\* specification: however builds are stopped while they write, no reader of the
\* corpus is sent to a missing document.  That does not hold while a build
\* empties the site, or after one was stopped at that: the manifest may be the
\* last to go.  But no such site passes verification, and one that passes has
\* its whole index as well.
CorpusIsWhole ==
  LET verified == job.command = "verify" /\ job.step = "pass"
  IN /\ ("manifest" \in index /\ ~torn) \/ verified =>
          /\ \A d \in Documents : corpus[machine[d]] = d /\ d \in pages
          /\ "openapi.json" \in index
     /\ verified => index = Index
=============================================================================
