------------------------- MODULE IncidentMemoryProofs -------------------------
(***************************************************************************)
(* What holds of the files and of what is derived from them for any fault  *)
(* types, target, shuffle, number of experiments and killed processes.     *)
(***************************************************************************)
EXTENDS IncidentMemory, Induction, FiniteSetTheorems, FunctionTheorems, TLAPS

USE DatasetAssumption

-----------------------------------------------------------------------------
\* Real incidents.

\* The side a real incident is on in every build, up to the target.
Remembered(x) == x.index \in Chosen(x.type, Target)

OnMemorySide(S) == \A x \in S : x.source = "real" => Remembered(x)
OnEvaluationSide(S) == \A x \in S : x.source = "real" => ~ Remembered(x)

KeepSides ==
    /\ OnMemorySide(memoryFile.lines) /\ OnMemorySide(loaded)
    /\ OnMemorySide(collection) /\ OnMemorySide(matches) /\ OnMemorySide(trained)
    /\ OnEvaluationSide(evaluationFile.lines)
    /\ ~ leaked

Counted ==
    /\ reals \in [FaultTypes -> Nat] /\ snapshot \in [FaultTypes -> Nat]
    /\ \A t \in FaultTypes : snapshot[t] <= reals[t]

SidesInv == Counted /\ (WithinTarget => KeepSides)

LEMMA TypesOfIncidents ==
    ASSUME NEW n, NEW x \in Incidents(n)
    PROVE  x.type \in FaultTypes
  BY DEF Incidents, IncidentsOf, Incident

\* As long as nothing is above the target, a type has exactly as many incidents as
\* the target says, the real ones first, and so each its place.
LEMMA BuildsAgree ==
    ASSUME NEW n \in [FaultTypes -> Nat], \A t \in FaultTypes : n[t] <= Target
    PROVE  OnMemorySide(Memory(n)) /\ OnEvaluationSide(Evaluation(n))
<1>1. ASSUME NEW x \in Incidents(n), x.source = "real"
      PROVE  InMemory(n, x) <=> Remembered(x)
  <2>1. x.type \in FaultTypes
    BY TypesOfIncidents
  <2>2. n[x.type] \in Nat /\ n[x.type] <= Target
    BY <2>1
  <2>3. Total(n[x.type]) = Target
    BY <2>2 DEF Total, Needed
  <2> QED BY <1>1, <2>3 DEF InMemory, Place, Remembered
<1> QED BY <1>1 DEF OnMemorySide, OnEvaluationSide, Memory, Evaluation

LEMMA PartialIsSubset ==
    ASSUME NEW S, NEW file \in Partial(S) PROVE file.lines \subseteq S
  BY DEF Partial, File

\* A step of a build leaves a file alone or puts lines of its own side into it.
LEMMA BuildWrites ==
    ASSUME Build
    PROVE  /\ reals' = reals /\ snapshot' \in {reals, snapshot, NoReals}
           /\ memoryFile' = memoryFile \/ memoryFile' \in Partial(Memory(snapshot))
           /\ evaluationFile' = evaluationFile \/ evaluationFile' \in Partial(Evaluation(snapshot))
<1>1. \A S : NoFile \in Partial(S) /\ File(S, FALSE) \in Partial(S)
  BY DEF Partial, NoFile
<1>2. \A file, S : Grown(file, S) \subseteq Partial(S)
  BY DEF Grown
<1> HIDE DEF NoFile
<1>3. CASE BeginBuild
  BY <1>1, <1>3 DEF BeginBuild
<1>4. CASE WriteOn
  BY <1>2, <1>4 DEF WriteOn
<1>5. CASE EndMemory
  BY <1>1, <1>5 DEF EndMemory
<1>6. CASE EndEvaluation
  BY <1>1, <1>6 DEF EndEvaluation
<1>7. CASE KillBuild
  BY <1>7 DEF KillBuild
<1> QED BY <1>3, <1>4, <1>5, <1>6, <1>7 DEF Build

LEMMA AddRealSides ==
    ASSUME SidesInv, NEW t \in FaultTypes, AddReal(t), UNCHANGED <<indexVars, retrieverVars,
           trained>>
    PROVE  SidesInv'
<1> USE DEF SidesInv, AddReal, indexVars, retrieverVars
<1>1. reals[t] \in Nat
  BY DEF Counted
<1>2. Counted'
  BY <1>1 DEF Counted
<1>3. WithinTarget' => WithinTarget
  BY <1>1, <1>2 DEF WithinTarget, Counted
<1> QED BY <1>2, <1>3 DEF KeepSides

\* A build writes what it has found at its beginning, although reals go on growing.
LEMMA BuildSides ==
    ASSUME SidesInv, Build, UNCHANGED <<collection, loaded, retrieverVars, trained>>
    PROVE  SidesInv'
<1>1. Counted /\ reals' = reals
  BY BuildWrites DEF SidesInv
<1>2. Counted'
  BY <1>1, BuildWrites DEF Counted, NoReals
<1>3. ASSUME WithinTarget PROVE KeepSides'
  <2>1. KeepSides
    BY <1>3 DEF SidesInv
  <2>2. OnMemorySide(Memory(snapshot)) /\ OnEvaluationSide(Evaluation(snapshot))
    <3>1. /\ \A t \in FaultTypes : reals[t] <= Target /\ snapshot[t] <= reals[t]
          /\ \A t \in FaultTypes : reals[t] \in Nat /\ snapshot[t] \in Nat
      BY <1>1, <1>3 DEF WithinTarget, Counted
    <3>2. \A t \in FaultTypes : snapshot[t] <= Target
      BY <3>1
    <3> QED BY <1>1, <3>1, <3>2, BuildsAgree DEF Counted
  <2>3. OnMemorySide(memoryFile'.lines)
    <3>1. memoryFile' = memoryFile \/ memoryFile'.lines \subseteq Memory(snapshot)
      BY BuildWrites, PartialIsSubset
    <3> QED BY <2>1, <2>2, <3>1 DEF KeepSides, OnMemorySide
  <2>4. OnEvaluationSide(evaluationFile'.lines)
    <3>1. \/ evaluationFile' = evaluationFile
          \/ evaluationFile'.lines \subseteq Evaluation(snapshot)
      BY BuildWrites, PartialIsSubset
    <3> QED BY <2>1, <2>2, <3>1 DEF KeepSides, OnEvaluationSide
  <2> QED BY <2>1, <2>3, <2>4 DEF KeepSides, retrieverVars
<1>4. WithinTarget' => WithinTarget
  BY <1>1 DEF WithinTarget
<1> QED BY <1>2, <1>3, <1>4 DEF SidesInv

LEMMA SameFiles ==
    ASSUME SidesInv, UNCHANGED <<reals, snapshot, memoryFile, evaluationFile>>,
           KeepSides => KeepSides'
    PROVE  SidesInv'
  BY DEF SidesInv, Counted, WithinTarget

LEMMA IndexSides == ASSUME SidesInv, Index PROVE SidesInv'
<1>1. UNCHANGED <<reals, snapshot, memoryFile, evaluationFile, retrieverVars, trained>>
  BY DEF Index, EmptyCollection, LoadMemory, CheckOverlap, AddToCollection,
         VerifyCollection, KillIndex, IndexStep, datasetVars
<1>2. loaded' \in {{}, loaded, memoryFile.lines}
  BY DEF Index, EmptyCollection, LoadMemory, CheckOverlap, AddToCollection,
         VerifyCollection, KillIndex, CheckFails, Leave
<1>3. collection' \subseteq collection \cup loaded
  BY DEF Index, EmptyCollection, LoadMemory, CheckOverlap, AddToCollection,
         VerifyCollection, KillIndex
<1>4. KeepSides => KeepSides'
  BY <1>1, <1>2, <1>3 DEF KeepSides, OnMemorySide, OnEvaluationSide, retrieverVars
<1> QED BY <1>1, <1>4, SameFiles

\* An incident of the collection is not the same as one of the Evaluation file.
LEMMA RetrieveSides == ASSUME SidesInv, Retrieve PROVE SidesInv'
<1>1. UNCHANGED <<reals, snapshot, memoryFile, evaluationFile, collection, loaded, trained>>
  BY DEF Retrieve, Query, FilterMatches, RetrieveStep, datasetVars, indexVars
<1>2. ASSUME KeepSides PROVE KeepSides'
  <2>1. OnMemorySide(matches')
    BY <1>2 DEF Retrieve, Query, FilterMatches, Nearest, KeepSides, OnMemorySide
  <2>2. ~ leaked'
    <3>1. \A x \in Retrieved, y \in evaluationFile.lines : ~ Same(x, y)
      BY <1>2 DEF Retrieved, KeepSides, OnMemorySide, OnEvaluationSide, Same,
                        Remembered
    <3> QED BY <1>2, <3>1 DEF Retrieve, Query, FilterMatches, KeepSides
  <2> QED BY <1>1, <1>2, <2>1, <2>2 DEF KeepSides
<1> QED BY <1>1, <1>2, SameFiles

LEMMA SidesStep == SidesInv /\ [Next]_vars => SidesInv'
<1> SUFFICES ASSUME SidesInv, [Next]_vars PROVE SidesInv'
  OBVIOUS
<1>1. CASE Evolve
  <2>1. CASE Build
    BY <1>1, <2>1, BuildSides DEF Evolve
  <2>2. ASSUME NEW t \in FaultTypes, AddReal(t), UNCHANGED undisturbed PROVE SidesInv'
    BY <1>1, <2>2, AddRealSides DEF Evolve, indexVars
  <2> QED BY <1>1, <2>1, <2>2 DEF Evolve
<1>2. CASE Index
  BY <1>2, IndexSides
<1>3. CASE Retrieve
  BY <1>3, RetrieveSides
<1>4. CASE Train
  BY <1>4, SameFiles DEF Train, datasetVars, indexVars, retrieverVars, KeepSides, OnMemorySide
<1>5. CASE UNCHANGED vars
  BY <1>5, SameFiles DEF vars, datasetVars, indexVars, retrieverVars, KeepSides
<1> QED BY <1>1, <1>2, <1>3, <1>4, <1>5 DEF Next

\* Up to the target, no real incident of the Evaluation file is in the collection,
\* was retrieved or has trained a detector (chroma_store.py:3-10, feature_extractor.py:
\* 13-18), for any shuffle and however builds, indexings, retrievals, trainings and
\* kills interleave.
THEOREM NoRealLeaks == Spec => []RealsDoNotLeak
<1>1. Init => SidesInv
  BY DEF Init, DatasetInit, NoReals, NoFile, File, SidesInv, Counted, KeepSides,
         OnMemorySide, OnEvaluationSide
<1>2. SidesInv => RealsDoNotLeak
  BY DEF SidesInv, KeepSides, OnMemorySide, OnEvaluationSide, Remembered, RealsDoNotLeak,
         Same
<1>3. Spec => []SidesInv
  BY <1>1, SidesStep, PTL DEF Spec
<1> QED BY <1>2, <1>3, PTL

-----------------------------------------------------------------------------
\* What an indexing that nobody disturbs has so far.

FreshInv ==
    undisturbed =>
        /\ indexer \in {"load", "check", "add"} => collection = {}
        /\ indexer \in {"check", "add"} => loaded = memoryFile.lines
        /\ indexer = "verify" => collection = memoryFile.lines

LEMMA FreshStep == FreshInv /\ [Next]_vars => FreshInv'
<1> SUFFICES ASSUME FreshInv, [Next]_vars PROVE FreshInv'
  OBVIOUS
<1> USE DEF FreshInv
<1>1. CASE Evolve
  BY <1>1 DEF Evolve, AddReal
<1>2. CASE Index
  <2> USE DEF IndexStep, datasetVars, Leave
  <2>1. CASE EmptyCollection \/ KillIndex
    BY <2>1 DEF EmptyCollection, KillIndex
  <2>2. CASE LoadMemory
    BY <2>2 DEF LoadMemory
  <2>3. CASE CheckOverlap \/ VerifyCollection
    BY <2>3 DEF CheckOverlap, VerifyCollection, CheckFails, CheckPasses
  <2>4. CASE AddToCollection
    BY <2>4 DEF AddToCollection, Ids
  <2> QED BY <1>2, <2>1, <2>2, <2>3, <2>4 DEF Index
<1>3. CASE Retrieve \/ Train \/ UNCHANGED vars
  BY <1>3 DEF Retrieve, Query, FilterMatches, RetrieveStep, Train, vars, datasetVars,
              indexVars
<1> QED BY <1>1, <1>2, <1>3 DEF Next

\* An indexing that has emptied the collection and is not overtaken by a build leaves
\* the whole Memory file in it and nothing else (chroma_store.py:60-95).
THEOREM CollectionIsMemory == Spec => []FreshCollectionIsMemory
<1>1. Init => FreshInv
  BY DEF Init, FreshInv
<1>2. FreshInv => FreshCollectionIsMemory
  BY DEF FreshInv, FreshCollectionIsMemory
<1> QED BY <1>1, <1>2, FreshStep, PTL DEF Spec
-----------------------------------------------------------------------------
\* Numbers.

\* How far the count is after each type.
Counts(n) == RunningSum([u \in FaultTypes |-> Total(n[u])], Types)

\* How many incidents of each type an experiment may have left.
Realities == [FaultTypes -> Nat]

LEMMA TotalType ==
    ASSUME NEW n \in Realities, NEW t \in FaultTypes
    PROVE  Needed(n[t]) \in Nat /\ Total(n[t]) \in Nat /\ Total(n[t]) = n[t] + Needed(n[t])
  BY DEF Realities, Needed, Total

LEMMA CountsStep ==
    ASSUME NEW n \in Realities
    PROVE  /\ Counts(n) \in [0..Types -> Nat] /\ Counts(n)[0] = 0
           /\ \A t \in FaultTypes : Counts(n)[t] = Counts(n)[t - 1] + Total(n[t])
<1> DEFINE v == [u \in FaultTypes |-> Total(n[u])]
<1>1. v \in [1..Types -> Nat] /\ \A t \in FaultTypes : v[t] = Total(n[t])
  BY TotalType DEF FaultTypes
<1> HIDE DEF v
<1>2. /\ RunningSum(v, Types) \in [0..Types -> Nat] /\ RunningSum(v, Types)[0] = 0
      /\ \A t \in 1..Types : RunningSum(v, Types)[t] = RunningSum(v, Types)[t - 1] + v[t]
  BY <1>1, RunningSumStep
<1>3. Counts(n) = RunningSum(v, Types)
  BY DEF Counts, v
<1> QED BY <1>1, <1>2, <1>3 DEF FaultTypes

\* Each type has the numbers after its offset, before those of the types after it.
LEMMA OffsetStep ==
    ASSUME NEW n \in Realities, NEW t \in FaultTypes
    PROVE  /\ Offset(n, t) \in Nat
           /\ Counts(n)[t] = Offset(n, t) + Total(n[t])
           /\ \A u \in FaultTypes : t < u => Offset(n, t) + Total(n[t]) <= Offset(n, u)
<1>1. /\ t \in 1..Types /\ t - 1 \in 0..Types /\ Offset(n, t) = Counts(n)[t - 1]
      /\ \A u \in FaultTypes : Offset(n, u) = Counts(n)[u - 1] /\ u - 1 \in 0..Types
  BY DEF FaultTypes, Offset, Counts
<1>2. Offset(n, t) \in Nat /\ Counts(n)[t] = Offset(n, t) + Total(n[t])
  BY <1>1, CountsStep
<1>3. ASSUME NEW u \in FaultTypes, t < u PROVE Counts(n)[t] <= Counts(n)[u - 1]
  <2> DEFINE v == [w \in FaultTypes |-> Total(n[w])]
  <2>1. v \in [1..Types -> Nat] /\ Counts(n) = RunningSum(v, Types)
    BY TotalType DEF FaultTypes, Counts
  <2>2. t \in 0..Types /\ u - 1 \in 0..Types /\ t <= u - 1
    BY <1>3 DEF FaultTypes
  <2> HIDE DEF v
  <2> QED BY <2>1, <2>2, RunningSumGrows
<1> QED BY <1>1, <1>2, <1>3

PlaceOf(n, x) == Place(n[x.type], x.source, x.index)

LEMMA IncidentShape ==
    ASSUME NEW n \in Realities, NEW x \in Incidents(n)
    PROVE  /\ x.type \in FaultTypes /\ x.source \in {"real", "synthetic"} /\ x.index \in Nat
           /\ x.source = "real" => x.index \in 1..n[x.type]
           /\ x.source = "synthetic" => x.index \in 1..Needed(n[x.type])
           /\ x = Incident(n, x.type, x.source, x.index)
           /\ x.id = Offset(n, x.type) + PlaceOf(n, x)
           /\ PlaceOf(n, x) \in 1..Total(n[x.type])
<1>1. PICK t \in FaultTypes : x \in IncidentsOf(n, t)
  BY DEF Incidents
<1>2. n[t] \in Nat /\ Needed(n[t]) \in Nat /\ Total(n[t]) = n[t] + Needed(n[t])
  BY TotalType DEF Realities
<1>3. \/ \E i \in 1..n[t] : x = Incident(n, t, "real", i)
      \/ \E i \in 1..Needed(n[t]) : x = Incident(n, t, "synthetic", i)
  BY <1>1 DEF IncidentsOf
<1>4. ASSUME NEW i \in 1..n[t], x = Incident(n, t, "real", i)
      PROVE  /\ x.type = t /\ x.source = "real" /\ x.index = i
             /\ x.id = Offset(n, t) + i
  BY <1>4 DEF Incident, Place
<1>5. ASSUME NEW i \in 1..Needed(n[t]), x = Incident(n, t, "synthetic", i)
      PROVE  /\ x.type = t /\ x.source = "synthetic" /\ x.index = i
             /\ x.id = Offset(n, t) + (n[t] + i)
  BY <1>5 DEF Incident, Place
<1> QED BY <1>2, <1>3, <1>4, <1>5 DEF PlaceOf, Place

LEMMA PlaceHasIncident ==
    ASSUME NEW n \in Realities, NEW t \in FaultTypes, NEW k \in 1..Total(n[t])
    PROVE  \E x \in Incidents(n) : x.type = t /\ PlaceOf(n, x) = k /\ x.id = Offset(n, t) + k
<1>1. n[t] \in Nat /\ Needed(n[t]) \in Nat /\ Total(n[t]) = n[t] + Needed(n[t])
  BY TotalType DEF Realities
<1>2. CASE k <= n[t]
  <2>1. Incident(n, t, "real", k) \in Incidents(n)
    BY <1>1, <1>2 DEF Incidents, IncidentsOf
  <2> QED BY <2>1 DEF Incident, PlaceOf, Place
<1>3. CASE k > n[t]
  <2>1. k - n[t] \in 1..Needed(n[t]) /\ n[t] + (k - n[t]) = k
    BY <1>1, <1>3
  <2>2. Incident(n, t, "synthetic", k - n[t]) \in Incidents(n)
    BY <2>1 DEF Incidents, IncidentsOf
  <2> QED BY <2>1, <2>2 DEF Incident, PlaceOf, Place
<1> QED BY <1>1, <1>2, <1>3

\* Two incidents of a type do not share a place.
LEMMA PlacesDiffer ==
    ASSUME NEW n \in Realities, NEW x \in Incidents(n), NEW y \in Incidents(n),
           x.type = y.type, PlaceOf(n, x) = PlaceOf(n, y)
    PROVE  x = y
<1>1. n[x.type] \in Nat
  BY IncidentShape DEF Realities
<1>2. /\ x.source \in {"real", "synthetic"} /\ y.source \in {"real", "synthetic"}
      /\ x.index \in Nat /\ y.index \in Nat
      /\ x.source = "real" => x.index \in 1..n[x.type]
      /\ y.source = "real" => y.index \in 1..n[x.type]
      /\ x.source = "synthetic" => x.index >= 1
      /\ y.source = "synthetic" => y.index >= 1
  <2>1. Needed(n[x.type]) \in Nat
    BY IncidentShape, TotalType
  <2> QED BY <2>1, IncidentShape
<1>3. x.source = y.source /\ x.index = y.index
  BY <1>1, <1>2 DEF PlaceOf, Place
<1> QED BY <1>3, IncidentShape

\* Numbers in the range of a type tell type and place.
LEMMA NumberTellsPlace ==
    ASSUME NEW n \in Realities, NEW t \in FaultTypes, NEW u \in FaultTypes,
           NEW i \in 1..Total(n[t]), NEW j \in 1..Total(n[u]),
           Offset(n, t) + i = Offset(n, u) + j
    PROVE  t = u /\ i = j
<1>1. /\ Offset(n, t) \in Nat /\ Offset(n, u) \in Nat
      /\ Total(n[t]) \in Nat /\ Total(n[u]) \in Nat
      /\ t < u => Offset(n, t) + Total(n[t]) <= Offset(n, u)
      /\ u < t => Offset(n, u) + Total(n[u]) <= Offset(n, t)
  BY OffsetStep, TotalType
<1>2. t \in Nat /\ u \in Nat
  BY DEF FaultTypes
<1>3. ~ (t < u) /\ ~ (u < t)
  BY <1>1
<1>4. t = u
  BY <1>2, <1>3
<1> QED BY <1>1, <1>4

\* assign_incident_ids (build_dataset.py): no two incidents of a build share a number,
\* although the types have different sizes and are counted on one after the other.
THEOREM NumbersAreUnique ==
    ASSUME NEW n \in Realities, NEW x \in Incidents(n), NEW y \in Incidents(n), x.id = y.id
    PROVE  x = y
<1>1. x.type = y.type /\ PlaceOf(n, x) = PlaceOf(n, y)
  BY IncidentShape, NumberTellsPlace
<1> QED BY <1>1, PlacesDiffer

\* And none is left out: the numbers are 1 up to how many incidents there are.
THEOREM NumbersAreConsecutive ==
    ASSUME NEW n \in Realities
    PROVE  Ids(Incidents(n)) = 1..Counts(n)[Types]
<1>1. Counts(n) \in [0..Types -> Nat] /\ Counts(n)[0] = 0 /\ Types \in 0..Types
  BY CountsStep
<1>2. ASSUME NEW x \in Incidents(n) PROVE x.id \in 1..Counts(n)[Types]
  <2>1. /\ x.type \in FaultTypes /\ x.id = Offset(n, x.type) + PlaceOf(n, x)
        /\ PlaceOf(n, x) \in 1..Total(n[x.type])
    BY IncidentShape
  <2>2. /\ Offset(n, x.type) \in Nat /\ Total(n[x.type]) \in Nat
        /\ Counts(n)[x.type] = Offset(n, x.type) + Total(n[x.type])
    BY <2>1, OffsetStep, TotalType
  <2>3. Counts(n)[x.type] <= Counts(n)[Types]
    <3> DEFINE v == [w \in FaultTypes |-> Total(n[w])]
    <3>1. v \in [1..Types -> Nat] /\ Counts(n) = RunningSum(v, Types)
      BY TotalType DEF FaultTypes, Counts
    <3>2. x.type \in 0..Types /\ x.type <= Types
      BY <2>1 DEF FaultTypes
    <3> HIDE DEF v
    <3> QED BY <1>1, <3>1, <3>2, RunningSumGrows
  <2>4. Counts(n)[Types] \in Nat
    BY <1>1
  <2> QED BY <2>1, <2>2, <2>3, <2>4
<1>3. ASSUME NEW k \in 1..Counts(n)[Types] PROVE k \in Ids(Incidents(n))
  <2> DEFINE Within(t) == Counts(n)[t - 1] < k /\ k <= Counts(n)[t]
             Found(t) == k <= Counts(n)[t] => \E u \in 1..t : Within(u)
             S == {t \in Nat : t <= Types => Found(t)}
  <2>1. Found(0)
    BY <1>1
  <2>2. ASSUME NEW t \in Nat, t + 1 <= Types, Found(t) PROVE Found(t + 1)
    <3>1. t \in 0..Types /\ t + 1 \in 0..Types /\ (t + 1) - 1 = t
      BY <2>2
    <3>2. CASE k <= Counts(n)[t]
      BY <2>2, <3>2
    <3>3. CASE ~ (k <= Counts(n)[t])
      <4>1. Counts(n)[t] < k
        BY <1>1, <3>1, <3>3
      <4>2. k <= Counts(n)[t + 1] => Within(t + 1)
        BY <3>1, <4>1
      <4> QED BY <4>2
    <3> QED BY <3>2, <3>3
  <2> HIDE DEF Found
  <2>3. 0 \in S /\ \A t \in Nat : t \in S => t + 1 \in S
    BY <2>1, <2>2
  <2> HIDE DEF S
  <2>4. Types \in S
    BY <2>3, SetInduction
  <2>5. PICK u \in 1..Types : Within(u)
    BY <2>4 DEF S, Found
  <2>6. u \in FaultTypes /\ Offset(n, u) = Counts(n)[u - 1] /\ Offset(n, u) \in Nat
    BY OffsetStep DEF FaultTypes, Offset, Counts
  <2>7. k - Offset(n, u) \in 1..Total(n[u]) /\ Offset(n, u) + (k - Offset(n, u)) = k
    <3>1. Counts(n)[u] = Offset(n, u) + Total(n[u]) /\ Total(n[u]) \in Nat
      BY <2>6, OffsetStep, TotalType
    <3> QED BY <1>1, <2>5, <2>6, <3>1
  <2>8. \E x \in Incidents(n) : x.id = k
    BY <2>6, <2>7, PlaceHasIncident
  <2> QED BY <2>8 DEF Ids
<1> QED BY <1>2, <1>3 DEF Ids

\* stratified_split (split.py): of each type the Memory file of a build gets the share
\* of 20/68, rounded, whatever mixture of real and synthetic incidents it has.
THEOREM SplitIsStratified ==
    ASSUME NEW n \in Realities, NEW t \in FaultTypes, n[t] <= MaxReals[t]
    PROVE  Cardinality({x \in Memory(n) : x.type = t}) = (10 * Total(n[t]) + 17) \div 34
<1> DEFINE M == {x \in Memory(n) : x.type = t}
           C == Chosen(t, Total(n[t]))
           f == [x \in M |-> PlaceOf(n, x)]
<1>1. Total(n[t]) \in 0..(Target + MaxReals[t])
  <2>1. n[t] \in Nat /\ MaxReals[t] \in Nat
    BY DEF Realities
  <2> QED BY <2>1 DEF Total, Needed
<1>2. C \subseteq 1..Total(n[t]) /\ Cardinality(C) = (10 * Total(n[t]) + 17) \div 34
  BY <1>1, ShareAssumption
<1>3. IsFiniteSet(C)
  <2>1. IsFiniteSet(1..Total(n[t]))
    BY <1>1, FS_Interval
  <2> QED BY <1>2, <2>1, FS_Subset
<1>4. \A x \in M : x \in Incidents(n) /\ f[x] \in C
  BY DEF Memory, InMemory, PlaceOf
<1>5. \A x, y \in M : f[x] = f[y] => x = y
  BY <1>4, PlacesDiffer
<1>6. ASSUME NEW k \in C PROVE \E x \in M : f[x] = k
  <2>1. PICK x \in Incidents(n) : x.type = t /\ PlaceOf(n, x) = k
    BY <1>2, PlaceHasIncident
  <2>2. x \in M
    BY <2>1 DEF Memory, InMemory, PlaceOf
  <2> QED BY <2>1, <2>2
<1>7. f \in Bijection(M, C)
  <2>1. f \in [M -> C]
    BY <1>4
  <2> HIDE DEF M, C, f
  <2> QED BY <1>5, <1>6, <2>1 DEF Bijection, Injection, Surjection, IsInjective
<1>8. IsFiniteSet(M) /\ Cardinality(M) = Cardinality(C)
  <2>1. ExistsBijection(M, C)
    BY <1>7 DEF ExistsBijection
  <2>2. ExistsBijection(C, M)
    <3> HIDE DEF M, C
    <3> QED BY <2>1, Fun_ExistsBijSymmetric
  <2> HIDE DEF M, C
  <2> QED BY <1>3, <2>2, FS_Bijection
<1> QED BY <1>2, <1>8

-----------------------------------------------------------------------------
\* Alarms.

\* Up to the target each number is on the same side in every build, although it may
\* belong to a real incident in one and to a synthetic one in the other.
LEMMA NumbersKeepSides ==
    ASSUME NEW n \in Realities, \A t \in FaultTypes : n[t] <= Target
    PROVE  /\ Ids(Memory(n)) \subseteq Ids(Memory(NoReals))
           /\ Ids(Evaluation(n)) \subseteq Ids(Evaluation(NoReals))
<1>1. NoReals \in Realities /\ \A t \in FaultTypes : NoReals[t] = 0
  BY DEF NoReals, Realities
<1>2. \A t \in FaultTypes : Total(n[t]) = Target /\ Total(NoReals[t]) = Target
  BY <1>1 DEF Total, Needed, Realities
<1>3. \A t \in FaultTypes : Offset(n, t) = Offset(NoReals, t)
  <2>1. [u \in FaultTypes |-> Total(n[u])] = [u \in FaultTypes |-> Total(NoReals[u])]
    BY <1>2
  <2> QED BY <2>1 DEF Offset
<1>4. ASSUME NEW x \in Incidents(n)
      PROVE  \E y \in Incidents(NoReals) :
                 y.id = x.id /\ (InMemory(n, x) <=> InMemory(NoReals, y))
  <2>1. /\ x.type \in FaultTypes /\ x.id = Offset(n, x.type) + PlaceOf(n, x)
        /\ PlaceOf(n, x) \in 1..Total(n[x.type])
    BY IncidentShape
  <2>2. PICK y \in Incidents(NoReals) :
            /\ y.type = x.type /\ PlaceOf(NoReals, y) = PlaceOf(n, x)
            /\ y.id = Offset(NoReals, x.type) + PlaceOf(n, x)
    BY <1>1, <1>2, <2>1, PlaceHasIncident
  <2>3. y.id = x.id
    BY <1>3, <2>1, <2>2
  <2>4. Total(n[x.type]) = Total(NoReals[x.type])
    BY <1>2, <2>1
  <2>5. InMemory(n, x) <=> InMemory(NoReals, y)
    BY <2>2, <2>4 DEF InMemory, PlaceOf
  <2> QED BY <2>3, <2>5
<1> QED BY <1>4 DEF Ids, Memory, Evaluation

MemoryNumbers == Ids(Memory(NoReals))
EvaluationNumbers == Ids(Evaluation(NoReals))

LEMMA SidesShareNoNumber == MemoryNumbers \cap EvaluationNumbers = {}
<1>1. NoReals \in Realities
  BY DEF NoReals, Realities
<1> QED BY <1>1, NumbersAreUnique
        DEF MemoryNumbers, EvaluationNumbers, Ids, Memory, Evaluation

KeepNumbers ==
    /\ Ids(memoryFile.lines) \subseteq MemoryNumbers /\ Ids(loaded) \subseteq MemoryNumbers
    /\ Ids(collection) \subseteq MemoryNumbers
    /\ Ids(evaluationFile.lines) \subseteq EvaluationNumbers
    /\ ~ alarmed

NumbersInv == WithinTarget => KeepNumbers

LEMMA NumbersBuild ==
    ASSUME Counted, NumbersInv, Build, UNCHANGED <<collection, loaded, alarmed>>
    PROVE  NumbersInv'
<1>1. reals' = reals
  BY BuildWrites
<1> SUFFICES ASSUME WithinTarget PROVE KeepNumbers'
  BY <1>1 DEF NumbersInv, WithinTarget
<1>2. KeepNumbers
  BY DEF NumbersInv
<1>3. /\ Ids(Memory(snapshot)) \subseteq MemoryNumbers
      /\ Ids(Evaluation(snapshot)) \subseteq EvaluationNumbers
  <2>1. /\ reals \in Realities /\ snapshot \in Realities
        /\ \A t \in FaultTypes : reals[t] <= Target /\ snapshot[t] <= reals[t]
        /\ \A t \in FaultTypes : reals[t] \in Nat /\ snapshot[t] \in Nat
    BY DEF Counted, WithinTarget, Realities
  <2>2. \A t \in FaultTypes : snapshot[t] <= Target
    BY <2>1
  <2> QED BY <2>1, <2>2, NumbersKeepSides DEF MemoryNumbers, EvaluationNumbers
<1>4. Ids(memoryFile'.lines) \subseteq MemoryNumbers
  <2>1. memoryFile' = memoryFile \/ memoryFile'.lines \subseteq Memory(snapshot)
    BY BuildWrites, PartialIsSubset
  <2> QED BY <1>2, <1>3, <2>1 DEF KeepNumbers, Ids
<1>5. Ids(evaluationFile'.lines) \subseteq EvaluationNumbers
  <2>1. \/ evaluationFile' = evaluationFile
        \/ evaluationFile'.lines \subseteq Evaluation(snapshot)
    BY BuildWrites, PartialIsSubset
  <2> QED BY <1>2, <1>3, <2>1 DEF KeepNumbers, Ids
<1> QED BY <1>2, <1>4, <1>5 DEF KeepNumbers

\* Memory and Evaluation never overlap, and so no check of the indexer fails but on a
\* torn file.
LEMMA NumbersIndex == ASSUME NumbersInv, Index PROVE NumbersInv'
<1>1. UNCHANGED <<reals, memoryFile, evaluationFile>>
  BY DEF Index, EmptyCollection, LoadMemory, CheckOverlap, AddToCollection,
         VerifyCollection, KillIndex, IndexStep, datasetVars
<1> SUFFICES ASSUME WithinTarget PROVE KeepNumbers'
  BY <1>1 DEF NumbersInv, WithinTarget
<1>2. KeepNumbers
  BY DEF NumbersInv
<1>3. loaded' \in {{}, loaded, memoryFile.lines}
  BY DEF Index, EmptyCollection, LoadMemory, CheckOverlap, AddToCollection,
         VerifyCollection, KillIndex, CheckFails, Leave
<1>4. collection' \subseteq collection \cup loaded
  BY DEF Index, EmptyCollection, LoadMemory, CheckOverlap, AddToCollection,
         VerifyCollection, KillIndex
<1>5. Overlap(loaded) = {} /\ Overlap(collection) = {}
  BY <1>2, SidesShareNoNumber DEF Overlap, KeepNumbers
<1>6. ~ alarmed'
  <2>1. CASE CheckOverlap \/ VerifyCollection
    BY <1>2, <1>5, <2>1 DEF CheckOverlap, VerifyCollection, CheckFails, CheckPasses,
                            KeepNumbers
  <2>2. CASE ~ (CheckOverlap \/ VerifyCollection)
    BY <1>2, <2>2 DEF Index, EmptyCollection, LoadMemory, AddToCollection, KillIndex,
                      KeepNumbers
  <2> QED BY <2>1, <2>2
<1>7. Ids(loaded') \subseteq MemoryNumbers /\ Ids(collection') \subseteq MemoryNumbers
  BY <1>2, <1>3, <1>4 DEF KeepNumbers, Ids
<1> QED BY <1>1, <1>2, <1>6, <1>7 DEF KeepNumbers

LEMMA NumbersStep == SidesInv /\ NumbersInv /\ [Next]_vars => NumbersInv'
<1> SUFFICES ASSUME SidesInv, NumbersInv, [Next]_vars PROVE NumbersInv'
  OBVIOUS
<1>1. CASE Evolve
  <2>1. CASE Build
    BY <1>1, <2>1, NumbersBuild DEF Evolve, SidesInv
  <2>2. ASSUME NEW t \in FaultTypes, AddReal(t) PROVE NumbersInv'
    <3>1. reals[t] \in Nat /\ reals' = [reals EXCEPT ![t] = @ + 1]
      BY <2>2 DEF SidesInv, Counted, AddReal
    <3>2. WithinTarget' => WithinTarget
      BY <3>1 DEF WithinTarget, SidesInv, Counted
    <3> QED BY <1>1, <2>2, <3>2 DEF NumbersInv, KeepNumbers, Evolve, AddReal
  <2> QED BY <1>1, <2>1, <2>2 DEF Evolve
<1>2. CASE Index
  BY <1>2, NumbersIndex
<1>3. CASE Retrieve \/ Train \/ UNCHANGED vars
  BY <1>3 DEF Retrieve, Query, FilterMatches, RetrieveStep, Train, vars, datasetVars,
              indexVars, NumbersInv, KeepNumbers, WithinTarget
<1> QED BY <1>1, <1>2, <1>3 DEF Next

\* An EvaluationLeakageError (chroma_store.py:78-86) implies that a type has more real
\* incidents than the target: before that, builds that were killed, or ran while the
\* collection was indexed, do not raise it.
THEOREM AlarmsAreTrue == Spec => []AlarmMeansOutgrown
<1>1. Init => SidesInv /\ NumbersInv
  BY DEF Init, DatasetInit, NoReals, NoFile, File, SidesInv, Counted, KeepSides,
         OnMemorySide, OnEvaluationSide, NumbersInv, KeepNumbers, Ids
<1>2. NumbersInv => AlarmMeansOutgrown
  BY DEF NumbersInv, KeepNumbers, AlarmMeansOutgrown
<1>3. Spec => [](SidesInv /\ NumbersInv)
  BY <1>1, SidesStep, NumbersStep, PTL DEF Spec
<1> QED BY <1>2, <1>3, PTL

-----------------------------------------------------------------------------
\* Types.

LEMMA IncidentsHaveType ==
    ASSUME NEW n \in Realities
    PROVE  /\ \A S \in SUBSET Incidents(n) : S \in SUBSET IncidentType
           /\ Memory(n) \subseteq Incidents(n) /\ Evaluation(n) \subseteq Incidents(n)
<1>1. ASSUME NEW x \in Incidents(n) PROVE x \in IncidentType
  <2>1. /\ x.type \in FaultTypes /\ x.source \in {"real", "synthetic"} /\ x.index \in Nat
        /\ x = Incident(n, x.type, x.source, x.index)
        /\ x.id = Offset(n, x.type) + PlaceOf(n, x)
        /\ PlaceOf(n, x) \in 1..Total(n[x.type])
    BY IncidentShape
  <2>2. x.id \in Nat
    BY <2>1, OffsetStep
  <2>3. x = [id |-> x.id, type |-> x.type, source |-> x.source, index |-> x.index]
    BY <2>1 DEF Incident
  <2> QED BY <2>1, <2>2, <2>3 DEF IncidentType
<1> QED BY <1>1 DEF Memory, Evaluation

LEMMA FilesHaveType ==
    ASSUME NEW n \in Realities
    PROVE  Partial(Memory(n)) \subseteq FileType /\ Partial(Evaluation(n)) \subseteq FileType
<1>1. ASSUME NEW S \in SUBSET Incidents(n) PROVE File(S, FALSE) \in FileType
  BY <1>1, IncidentsHaveType DEF File, FileType
<1>2. ASSUME NEW S \in SUBSET Incidents(n) PROVE Partial(S) \subseteq FileType
  <2>1. \A L \in SUBSET S : L \in SUBSET Incidents(n)
    OBVIOUS
  <2>2. File({}, TRUE) \in FileType
    BY DEF File, FileType
  <2> QED BY <1>1, <2>1, <2>2 DEF Partial
<1> QED BY <1>2, IncidentsHaveType

LEMMA TypeInit == Init => TypeOK
<1> SUFFICES ASSUME Init PROVE TypeOK
  OBVIOUS
<1> USE DEF Init, DatasetInit
<1>1. DatasetTypeOK
  BY DEF DatasetTypeOK, NoReals, NoFile, File, FileType
<1>2. alarmed \in BOOLEAN /\ undisturbed \in BOOLEAN /\ leaked \in BOOLEAN
  BY Zenon
<1> QED BY <1>1, <1>2 DEF TypeOK

LEMMA TypeBuild == ASSUME DatasetTypeOK, Build PROVE DatasetTypeOK'
<1>1. /\ reals \in Realities /\ snapshot \in Realities
      /\ reals \in [FaultTypes -> Nat] /\ NoReals \in [FaultTypes -> Nat]
      /\ \A t \in FaultTypes : NoReals[t] = 0
      /\ \A t \in FaultTypes : snapshot[t] <= reals[t] /\ reals[t] <= MaxReals[t]
      /\ \A t \in FaultTypes : reals[t] \in Nat
  BY DEF DatasetTypeOK, Realities, NoReals
<1>2. memoryFile' \in FileType /\ evaluationFile' \in FileType
  BY <1>1, BuildWrites, FilesHaveType DEF DatasetTypeOK
<1>3. reals' = reals /\ snapshot' \in {reals, snapshot, NoReals}
  BY BuildWrites
<1>4. /\ snapshot' \in [FaultTypes -> Nat]
      /\ \A t \in FaultTypes : snapshot'[t] <= reals[t]
  BY <1>1, <1>3 DEF DatasetTypeOK
<1>5. builder' \in {"idle", "memory", "evaluation"}
  BY DEF Build, BeginBuild, WriteOn, EndMemory, EndEvaluation, KillBuild
<1>6. kills' \in 0..MaxKills
  <2>1. kills' = kills \/ (kills < MaxKills /\ kills' = kills + 1)
    BY DEF Build, BeginBuild, WriteOn, EndMemory, EndEvaluation, KillBuild
  <2> QED BY <2>1, DatasetAssumption DEF DatasetTypeOK
<1> QED BY <1>1, <1>2, <1>3, <1>4, <1>5, <1>6 DEF DatasetTypeOK

LEMMA TypeStep == TypeOK /\ [Next]_vars => TypeOK'
<1> SUFFICES ASSUME TypeOK, [Next]_vars PROVE TypeOK'
  OBVIOUS
<1>1. alarmed' \in BOOLEAN /\ undisturbed' \in BOOLEAN /\ leaked' \in BOOLEAN
  BY Zenon DEF TypeOK, Next, Evolve, Index, EmptyCollection, LoadMemory, CheckOverlap,
               CheckFails, CheckPasses, AddToCollection, VerifyCollection, KillIndex, Leave,
               Retrieve, Query, FilterMatches, RetrieveStep, Train, IndexStep, vars,
               indexVars, retrieverVars
<1> USE <1>1
<1>2. CASE Evolve
  <2>1. DatasetTypeOK'
    <3>1. CASE Build
      BY <3>1, TypeBuild DEF TypeOK
    <3>2. ASSUME NEW t \in FaultTypes, AddReal(t) PROVE DatasetTypeOK'
      BY <3>2 DEF AddReal, TypeOK, DatasetTypeOK
    <3> QED BY <1>2, <3>1, <3>2 DEF Evolve
  <2> QED BY <1>2, <2>1 DEF Evolve, retrieverVars, TypeOK
<1>3. CASE Index
  <2>1. /\ UNCHANGED <<reals, builder, snapshot, memoryFile, evaluationFile>>
        /\ UNCHANGED <<retriever, matches, leaked, trained>> /\ kills' \in 0..MaxKills
    BY <1>3 DEF Index, EmptyCollection, LoadMemory, CheckOverlap, AddToCollection,
         VerifyCollection, KillIndex, IndexStep, datasetVars, retrieverVars, TypeOK,
         DatasetTypeOK
  <2>2. DatasetTypeOK'
    BY <2>1 DEF TypeOK, DatasetTypeOK
  <2>3. loaded' \in {{}, loaded, memoryFile.lines}
    BY <1>3 DEF Index, EmptyCollection, LoadMemory, CheckOverlap, AddToCollection,
           VerifyCollection, KillIndex, CheckFails, Leave
  <2>4. collection' \subseteq collection \cup loaded
    BY <1>3 DEF Index, EmptyCollection, LoadMemory, CheckOverlap, AddToCollection,
           VerifyCollection, KillIndex
  <2>5. indexer' \in {"idle", "load", "check", "add", "verify"}
    BY <1>3 DEF Index, EmptyCollection, LoadMemory, CheckOverlap, AddToCollection,
           VerifyCollection, KillIndex, CheckFails, Leave
  <2>6. memoryFile.lines \in SUBSET IncidentType
    BY DEF TypeOK, DatasetTypeOK, FileType
  <2> QED BY <2>1, <2>2, <2>3, <2>4, <2>5, <2>6 DEF TypeOK
<1>4. CASE Retrieve
  <2>1. /\ UNCHANGED <<datasetVars, indexVars, trained>>
        /\ retriever' \in {"idle", "matched"}
    BY <1>4 DEF Retrieve, Query, FilterMatches, RetrieveStep
  <2>2. matches' \in SUBSET IncidentType
    BY <1>4 DEF Retrieve, Query, FilterMatches, Nearest, TypeOK
  <2>3. DatasetTypeOK'
    BY <2>1 DEF datasetVars, TypeOK, DatasetTypeOK
  <2> QED BY <2>1, <2>2, <2>3 DEF indexVars, TypeOK
<1>5. CASE Train
  <2>1. trained' \in SUBSET IncidentType
    BY <1>5 DEF Train, TypeOK, DatasetTypeOK, FileType
  <2>2. DatasetTypeOK'
    BY <1>5 DEF Train, datasetVars, TypeOK, DatasetTypeOK
  <2> QED BY <1>5, <2>1, <2>2 DEF Train, indexVars, retrieverVars, TypeOK
<1>6. CASE UNCHANGED vars
  <2>1. DatasetTypeOK'
    BY <1>6 DEF vars, datasetVars, TypeOK, DatasetTypeOK
  <2> QED BY <1>6, <2>1 DEF vars, indexVars, retrieverVars, TypeOK
<1> QED BY <1>2, <1>3, <1>4, <1>5, <1>6 DEF Next

\* Every variable keeps its type: in particular whatever is in a file, the collection or
\* a retrieval is an incident of a known type and source with a number.
THEOREM TypeCorrect == Spec => []TypeOK
  BY TypeInit, TypeStep, PTL DEF Spec
=============================================================================
