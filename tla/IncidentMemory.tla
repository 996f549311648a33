---------------------------- MODULE IncidentMemory ----------------------------
(***************************************************************************)
(* What is derived from the dataset's files: the Chroma collection that    *)
(* dataset_tools/chroma_store.py builds, the matches rag/retriever.py      *)
(* hands to a diagnosis, and the experiments the detectors are trained on. *)
(* Indexing, retrieval, training and builds are separate processes that    *)
(* share the files and the collection and take no locks.                   *)
(***************************************************************************)
EXTENDS IncidentDataset

CONSTANTS
    NResults         \* n_results of a query

ASSUME MemoryAssumption == NResults \in Nat \ {0}

VARIABLES
    collection,   \* the incidents in the collection, each under its number
    indexer,      \* where build_collection is
    loaded,       \* the Memory incidents it has read
    alarmed,      \* an EvaluationLeakageError was raised
    undisturbed,  \* history: it has emptied the collection, and nothing was built since
    retriever,    \* where retrieve_similar_incidents is
    matches,      \* what the collection has answered
    leaked,       \* history: a real incident was retrieved while in the Evaluation file
    trained       \* the real incidents whose baseline the detectors have learnt

indexVars == <<collection, indexer, loaded, alarmed, undisturbed>>
retrieverVars == <<retriever, matches, leaked>>
vars == <<datasetVars, indexVars, retrieverVars, trained>>

Init ==
    /\ DatasetInit
    /\ collection = {} /\ indexer = "idle" /\ loaded = {}
    /\ alarmed = FALSE /\ undisturbed = FALSE
    /\ retriever = "idle" /\ matches = {} /\ leaked = FALSE /\ trained = {}

-----------------------------------------------------------------------------
\* The dataset goes its way.

Evolve ==
    /\ \/ (\E t \in FaultTypes : AddReal(t)) /\ UNCHANGED undisturbed
       \/ Build /\ undisturbed' = FALSE
    /\ UNCHANGED <<collection, indexer, loaded, alarmed, retrieverVars, trained>>

-----------------------------------------------------------------------------
\* build_collection.

IndexStep == UNCHANGED <<datasetVars, retrieverVars, trained>>

\* Mutant of EmptyCollection: the collection is reset only when it is empty.
EmptyNothing ==
    /\ indexer = "idle" /\ indexer' = "load"
    /\ collection' = collection /\ undisturbed' = (builder = "idle")
    /\ IndexStep /\ UNCHANGED <<loaded, alarmed>>

\* delete_collection, of which any exception is swallowed; get_or_create_collection.
EmptyCollection ==
    /\ indexer = "idle" /\ indexer' = "load"
    /\ \/ collection' = {} /\ undisturbed' = (builder = "idle")
       \/ collection' = collection /\ undisturbed' = FALSE
    /\ IndexStep /\ UNCHANGED <<loaded, alarmed>>

Leave == indexer' = "idle" /\ loaded' = {} /\ undisturbed' = FALSE

\* A torn line raises JSONDecodeError, and no line at all RuntimeError.
LoadMemory ==
    /\ indexer = "load"
    /\ IF memoryFile.torn \/ memoryFile.lines = {}
       THEN Leave
       ELSE /\ indexer' = "check" /\ loaded' = memoryFile.lines
            /\ UNCHANGED undisturbed
    /\ IndexStep /\ UNCHANGED <<collection, alarmed>>

\* The numbers of S that are also numbers of the Evaluation file.
Overlap(S) == Ids(S) \cap Ids(evaluationFile.lines)

\* A torn Evaluation file ends the program; so does EvaluationLeakageError.
CheckFails(S) ==
    /\ evaluationFile.torn \/ Overlap(S) # {}
    /\ alarmed' = (alarmed \/ ~ evaluationFile.torn)
    /\ Leave

CheckPasses(S) == ~ evaluationFile.torn /\ Overlap(S) = {} /\ UNCHANGED alarmed

CheckOverlap ==
    /\ indexer = "check"
    /\ \/ CheckFails(loaded)
       \/ CheckPasses(loaded) /\ indexer' = "add" /\ UNCHANGED <<loaded, undisturbed>>
    /\ IndexStep /\ UNCHANGED collection

\* collection.add passes over numbers that the collection has already.
AddToCollection ==
    /\ indexer = "add" /\ indexer' = "verify"
    /\ collection' = collection \cup {x \in loaded : x.id \notin Ids(collection)}
    /\ IndexStep /\ UNCHANGED <<loaded, alarmed, undisturbed>>

\* _assert_no_evaluation_leakage.
VerifyCollection ==
    /\ indexer = "verify"
    /\ CheckFails(collection) \/ (CheckPasses(collection) /\ Leave)
    /\ IndexStep /\ UNCHANGED collection

KillIndex ==
    /\ indexer # "idle" /\ kills < MaxKills
    /\ Leave /\ kills' = kills + 1
    /\ UNCHANGED <<reals, builder, snapshot, memoryFile, evaluationFile,
                   retrieverVars, trained, collection, alarmed>>

Index == EmptyCollection \/ LoadMemory \/ CheckOverlap \/ AddToCollection
            \/ VerifyCollection \/ KillIndex

-----------------------------------------------------------------------------
\* retrieve_similar_incidents.

RetrieveStep == UNCHANGED <<datasetVars, indexVars, trained>>

Nearest == {M \in SUBSET collection :
                \/ Cardinality(M) = NResults
                \/ Cardinality(M) < NResults /\ M = collection}

\* query_similar.  If it fails or finds nothing, nothing is retrieved.
Query ==
    /\ retriever = "idle" /\ retriever' = "matched"
    /\ matches' \in Nearest \ {{}}
    /\ RetrieveStep /\ UNCHANGED leaked

Retrieved == {x \in matches : x.id \notin Ids(evaluationFile.lines)}

\* The numbers of the matches are compared with the Evaluation file as it is
\* now; a torn line in it ends the whole workflow.
FilterMatches ==
    /\ retriever = "matched" /\ retriever' = "idle" /\ matches' = {}
    /\ \/ evaluationFile.torn /\ UNCHANGED leaked
       \/ /\ ~ evaluationFile.torn
          /\ leaked' = (leaked \/ \E x \in Retrieved, y \in evaluationFile.lines : Same(x, y))
    /\ RetrieveStep

Retrieve == Query \/ FilterMatches

-----------------------------------------------------------------------------
\* load_memory_eligible_baseline_records: baselines of real Memory incidents;
\* without any there is no training.
Train ==
    /\ ~ memoryFile.torn
    /\ \E x \in memoryFile.lines : x.source = "real"
    /\ trained' = {x \in memoryFile.lines : x.source = "real"}
    /\ UNCHANGED <<datasetVars, indexVars, retrieverVars>>

Next == Evolve \/ Index \/ Retrieve \/ Train

Spec == Init /\ [][Next]_vars

-----------------------------------------------------------------------------
TypeOK ==
    /\ DatasetTypeOK
    /\ collection \in SUBSET IncidentType /\ loaded \in SUBSET IncidentType
    /\ indexer \in {"idle", "load", "check", "add", "verify"}
    /\ alarmed \in BOOLEAN /\ undisturbed \in BOOLEAN
    /\ retriever \in {"idle", "matched"} /\ matches \in SUBSET IncidentType
    /\ leaked \in BOOLEAN /\ trained \in SUBSET IncidentType

WithinTarget == \A t \in FaultTypes : reals[t] <= Target

\* The promise of chroma_store.py:3-10 and feature_extractor.py:13-18, for real
\* incidents: none that is in the Evaluation file was retrieved, is in the
\* collection or has trained a detector, however many builds, kills and failed
\* deletions lie between the files and what was derived from them.  It takes that
\* no fault type has outgrown its target: up to then a real incident keeps its
\* side in every build.
RealsDoNotLeak ==
    WithinTarget =>
        /\ \A x \in collection \cup trained, y \in evaluationFile.lines : ~ Same(x, y)
        /\ ~ leaked

\* An EvaluationLeakageError (chroma_store.py:78-86) implies that a type has outgrown its
\* target: until then the numbers of Memory and of Evaluation keep their sides, also over
\* builds that are killed or under way.  (After that, it need not have a true cause.)
AlarmMeansOutgrown == alarmed => ~ WithinTarget

\* An indexing that has emptied the collection and met no build leaves the Memory
\* file in it, no less and no more (chroma_store.py:60-95).
FreshCollectionIsMemory ==
    indexer = "verify" /\ undisturbed => collection = memoryFile.lines

\* rag/retriever.py:7-12: a stale collection on disk cannot leak an Evaluation
\* incident into a live investigation.  Stated of real incidents, which are the same
\* in every build, and of moments when no build is under way: what passes the filter
\* is not in the Evaluation file.
StaleDoesNotLeak ==
    retriever = "matched" /\ builder = "idle" /\ ~ evaluationFile.torn =>
        \A x \in Retrieved, y \in evaluationFile.lines : ~ Same(x, y)
=============================================================================
