--------------------- MODULE TriangulationRegistry_proofs ---------------------
(***************************************************************************)
(* Proofs about TriangulationRegistry, for any sets of data sets, cell     *)
(* arrays, points and grids and for any bound of the time.                 *)
(***************************************************************************)
EXTENDS TriangulationRegistry, TLAPS

(* Erasing entries from the registry.                                      *)
LEMMA RestrictFacts ==
    ASSUME NEW f, NEW S
    PROVE  /\ DOMAIN Restrict(f, S) = S
           /\ \A x \in S : Restrict(f, S)[x] = f[x]
  BY DEF Restrict

(* A step of the pipeline that neither deletes an object nor unregisters.  *)
Grows == /\ registry' = registry /\ observed' = observed
         /\ answer' = Silent
         /\ \A k \in Key : Exists(k) => Exists(k)'

(* A step that deletes the objects in gone, and no others.                 *)
Deletes(gone) == /\ gone \subseteq Key
                 /\ Execute(gone)
                 /\ answer' = Silent
                 /\ \A k \in Key \ gone : Exists(k) => Exists(k)'

(* A request that replaces the entry of d, or keeps all.                   *)
Requests(d) ==
    /\ UNCHANGED pipelineVars
    /\ \/ UNCHANGED <<registry, observed>>
       \/ registry' = Remaining(d) /\ UNCHANGED observed
       \/ \E g \in Grid :
             /\ DOMAIN registry' = DOMAIN Remaining(d) \cup {GetKey(d)}
             /\ \A k \in DOMAIN registry' \ {GetKey(d)} :
                   registry'[k] = registry[k]
             /\ registry'[GetKey(d)] = NewEntry(d, g)
             /\ observed' = observed \cup {GetKey(d)}
             /\ Alive(d)

(* The key of a live data set is an object that exists.                    *)
LEMMA KeyExists ==
    ASSUME TypeOK, NEW d \in DataSet, Alive(d)
    PROVE  /\ GetKey(d) \in Key
           /\ Exists(GetKey(d))
           /\ GetKey(d) \in Cells <=> IsPointSet(d)
           /\ IsImage(d) => GetKey(d) = d
           /\ IsPointSet(d) => GetKey(d) = cellsOf[d]
  <1>1. CASE IsImage(d)
    BY <1>1, AddressAssumption DEF TypeOK, GetKey, Exists, Key, IsImage,
                                   IsPointSet
  <1>2. CASE ~IsImage(d)
    <2>1. cellsOf[d] \in Cells /\ IsPointSet(d)
      BY <1>2 DEF Alive, TypeOK, IsPointSet
    <2> QED BY <1>2, <2>1 DEF GetKey, Exists, Key, InUse
  <1> QED BY <1>1, <1>2

(***************************************************************************)
(* Types.                                                                  *)
(***************************************************************************)

(* A new entry is one for the kind of data set that asked for it.          *)
LEMMA EntryTyped ==
    ASSUME TypeOK, NEW d \in DataSet, Alive(d), NEW g \in Grid
    PROVE  NewEntry(d, g) \in Entry
  <1>1. CASE IsImage(d)
    <2>1. image[d] \in Grid
      BY <1>1 DEF TypeOK, IsImage
    <2> QED BY <1>1, <2>1 DEF NewEntry, Entry
  <1>2. CASE ~IsImage(d)
    <2>1. cellsOf[d] \in Cells
      BY <1>2 DEF Alive, TypeOK, IsPointSet
    <2>2. mtime[cellsOf[d]] \in Int /\ conn[cellsOf[d]] \in Conn
      BY <2>1 DEF TypeOK
    <2> QED BY <1>2, <2>2 DEF NewEntry, Entry, TypeOK
  <1> QED BY <1>1, <1>2

(* The three kinds of steps keep the types of the registry.                *)
LEMMA RegistryTyped ==
    ASSUME TypeOK
    PROVE  /\ \A gone : Deletes(gone) =>
                /\ DOMAIN registry' \subseteq Key /\ observed' \subseteq Key
                /\ \A k \in DOMAIN registry' : registry'[k] \in Entry
           /\ \A d \in DataSet : Requests(d) =>
                /\ DOMAIN registry' \subseteq Key /\ observed' \subseteq Key
                /\ \A k \in DOMAIN registry' : registry'[k] \in Entry
  <1>1. ASSUME NEW gone, Deletes(gone)
        PROVE  /\ DOMAIN registry' \subseteq Key /\ observed' \subseteq Key
               /\ \A k \in DOMAIN registry' : registry'[k] \in Entry
    BY <1>1, RestrictFacts DEF Deletes, Execute, TypeOK
  <1>2. ASSUME NEW d \in DataSet, Requests(d)
        PROVE  /\ DOMAIN registry' \subseteq Key /\ observed' \subseteq Key
               /\ \A k \in DOMAIN registry' : registry'[k] \in Entry
    <2>1. /\ DOMAIN Remaining(d) = DOMAIN registry \ {GetKey(d)}
          /\ \A k \in DOMAIN Remaining(d) : Remaining(d)[k] = registry[k]
      BY RestrictFacts DEF Remaining
    <2>2. CASE UNCHANGED <<registry, observed>>
      BY <2>2 DEF TypeOK
    <2>3. CASE registry' = Remaining(d) /\ UNCHANGED observed
      BY <2>1, <2>3 DEF TypeOK
    <2>4. CASE \E g \in Grid :
             /\ DOMAIN registry' = DOMAIN Remaining(d) \cup {GetKey(d)}
             /\ \A k \in DOMAIN registry' \ {GetKey(d)} :
                   registry'[k] = registry[k]
             /\ registry'[GetKey(d)] = NewEntry(d, g)
             /\ observed' = observed \cup {GetKey(d)}
             /\ Alive(d)
      BY <2>1, <2>4, EntryTyped, KeyExists DEF TypeOK
    <2> QED BY <1>2, <2>2, <2>3, <2>4 DEF Requests
  <1> QED BY <1>1, <1>2

(* What each step of the pipeline does to the objects.                     *)
LEMMA PipelineSteps ==
    ASSUME TypeOK
    PROVE  /\ \A d \in DataSet, g \in Grid :
                NewImage(d, g) \/ SetGrid(d, g) => Grows
           /\ \A d \in DataSet, c \in Cells, p \in Points, x \in Conn :
                NewPointSet(d, c, p, x) => Grows
           /\ \A d, e \in DataSet : ShallowCopy(d, e) => Grows
           /\ \A d \in DataSet, p \in Points : SetPoints(d, p) => Grows
           /\ \A c \in Cells, x \in Conn : ModifyCells(c, x) => Grows
           /\ \A d \in DataSet, c \in Cells, x \in Conn :
                SetCells(d, c, x) => Deletes(OwnCells(d))
           /\ \A d \in DataSet : Delete(d) => Deletes({d} \cup OwnCells(d))
  <1> USE NullAssumption, AddressAssumption
  <1>1. ASSUME NEW d \in DataSet, NEW g \in Grid, NewImage(d, g) \/ SetGrid(d, g)
        PROVE  Grows
    BY <1>1 DEF NewImage, SetGrid, Grows, TypeOK, Exists, InUse, IsImage, Key
  <1>2. ASSUME NEW d \in DataSet, NEW c \in Cells, NEW p \in Points,
               NEW x \in Conn, NewPointSet(d, c, p, x)
        PROVE  Grows
    BY <1>2 DEF NewPointSet, Grows, TypeOK, Exists, InUse, IsImage, Key,
                Alive, IsPointSet
  <1>3. ASSUME NEW d \in DataSet, NEW e \in DataSet, ShallowCopy(d, e)
        PROVE  Grows
    BY <1>3 DEF ShallowCopy, Grows, TypeOK, Exists, InUse, IsImage, Key,
                Alive, IsPointSet
  <1>4. ASSUME NEW d \in DataSet, NEW p \in Points, SetPoints(d, p)
        PROVE  Grows
    BY <1>4 DEF SetPoints, Grows, TypeOK, Exists, InUse, IsImage, Key
  <1>5. ASSUME NEW c \in Cells, NEW x \in Conn, ModifyCells(c, x)
        PROVE  Grows
    BY <1>5 DEF ModifyCells, Grows, TypeOK, Exists, InUse, IsImage, Key
  <1>6. ASSUME NEW d \in DataSet, NEW c \in Cells, NEW x \in Conn,
               SetCells(d, c, x)
        PROVE  Deletes(OwnCells(d))
    BY <1>6 DEF SetCells, Deletes, OwnCells, TypeOK, Exists, InUse, IsImage, Key
  <1>7. ASSUME NEW d \in DataSet, Delete(d)
        PROVE  Deletes({d} \cup OwnCells(d))
    BY <1>7 DEF Delete, Deletes, OwnCells, TypeOK, Exists, InUse, IsImage, Key
  <1> QED BY <1>1, <1>2, <1>3, <1>4, <1>5, <1>6, <1>7

(* What a request does to the registry.                                    *)
LEMMA RequestSteps ==
    ASSUME TypeOK, NEW d \in DataSet, GetTriangulation(d)
    PROVE  Requests(d)
  <1>1. CASE Retrieve(d)
    BY <1>1 DEF Retrieve, Requests
  <1>2. CASE RetrieveEquivalent(d) \/ Fail(d)
    BY <1>2 DEF RetrieveEquivalent, Fail, Requests
  <1>3. ASSUME NEW g \in Grid, Create(d, g) PROVE Requests(d)
    <2>1. /\ DOMAIN Remaining(d) = DOMAIN registry \ {GetKey(d)}
          /\ \A k \in DOMAIN Remaining(d) : Remaining(d)[k] = registry[k]
      BY RestrictFacts DEF Remaining
    <2>2. /\ DOMAIN registry' = DOMAIN Remaining(d) \cup {GetKey(d)}
          /\ \A k \in DOMAIN registry' \ {GetKey(d)} :
                registry'[k] = registry[k]
          /\ registry'[GetKey(d)] = NewEntry(d, g)
          /\ observed' = observed \cup {GetKey(d)}
          /\ Alive(d) /\ UNCHANGED pipelineVars
      BY <1>3 DEF Create
    <2> QED BY <2>2 DEF Requests
  <1> QED BY <1>1, <1>2, <1>3 DEF GetTriangulation

(* Every step keeps the types.                                             *)
LEMMA TypesNext == TypeOK /\ [Next]_vars => TypeOK'
  <1> SUFFICES ASSUME TypeOK, [Next]_vars PROVE TypeOK'
    OBVIOUS
  <1> USE NullAssumption
  <1>1. ASSUME NEW d \in DataSet, NEW g \in Grid, NewImage(d, g) \/ SetGrid(d, g)
        PROVE  TypeOK'
    BY <1>1 DEF NewImage, SetGrid, TypeOK, IsImage, IsPointSet, Alive
  <1>2. ASSUME NEW d \in DataSet, NEW c \in Cells, NEW p \in Points,
               NEW x \in Conn, NewPointSet(d, c, p, x)
        PROVE  TypeOK'
    BY <1>2 DEF NewPointSet, Fill, TypeOK, IsImage, IsPointSet, Alive
  <1>3. ASSUME NEW d \in DataSet, NEW e \in DataSet, ShallowCopy(d, e)
        PROVE  TypeOK'
    BY <1>3 DEF ShallowCopy, TypeOK, IsImage, IsPointSet, Alive
  <1>4. ASSUME NEW d \in DataSet, NEW p \in Points, SetPoints(d, p)
        PROVE  TypeOK'
    BY <1>4 DEF SetPoints, TypeOK, IsImage, IsPointSet
  <1>5. ASSUME NEW c \in Cells, NEW x \in Conn, ModifyCells(c, x)
        PROVE  TypeOK'
    BY <1>5 DEF ModifyCells, Fill, TypeOK, IsImage, IsPointSet
  <1>6. ASSUME NEW d \in DataSet, NEW c \in Cells, NEW x \in Conn,
               SetCells(d, c, x)
        PROVE  TypeOK'
    <2>1. Deletes(OwnCells(d))
      BY <1>6, PipelineSteps
    <2>2. /\ DOMAIN registry' \subseteq Key /\ observed' \subseteq Key
          /\ \A k \in DOMAIN registry' : registry'[k] \in Entry
      BY <2>1, RegistryTyped
    <2> QED BY <1>6, <2>2 DEF SetCells, Fill, TypeOK, IsImage, IsPointSet
  <1>7. ASSUME NEW d \in DataSet, Delete(d) PROVE TypeOK'
    <2>1. Deletes({d} \cup OwnCells(d))
      BY <1>7, PipelineSteps
    <2>2. /\ DOMAIN registry' \subseteq Key /\ observed' \subseteq Key
          /\ \A k \in DOMAIN registry' : registry'[k] \in Entry
      BY <2>1, RegistryTyped
    <2> QED BY <1>7, <2>2 DEF Delete, TypeOK, IsImage, IsPointSet
  <1>8. ASSUME NEW d \in DataSet, GetTriangulation(d) PROVE TypeOK'
    <2>1. Requests(d)
      BY <1>8, RequestSteps
    <2>2. /\ DOMAIN registry' \subseteq Key /\ observed' \subseteq Key
          /\ \A k \in DOMAIN registry' : registry'[k] \in Entry
      BY <2>1, RegistryTyped
    <2> QED BY <2>1, <2>2 DEF Requests, pipelineVars, TypeOK, IsImage, IsPointSet
  <1>9. CASE UNCHANGED vars
    BY <1>9 DEF vars, pipelineVars, TypeOK, IsImage, IsPointSet
  <1> QED
    BY <1>1, <1>2, <1>3, <1>4, <1>5, <1>6, <1>7, <1>8, <1>9 DEF Next, Pipeline

(* The initial state has its types.                                        *)
LEMMA TypesInit == Init => TypeOK
  BY DEF Init, TypeOK, IsImage, IsPointSet

(* Types of the registry, its entries and the data sets it is asked for.   *)
THEOREM RegistryTypes == Spec => []TypeOK
  BY TypesInit, TypesNext, PTL DEF Spec

(***************************************************************************)
(* No entry survives its key.                                              *)
(***************************************************************************)

(* Every step erases the entries of the objects it deletes.                *)
LEMMA KeysNext == TypeOK /\ KeysAlive /\ [Next]_vars => KeysAlive'
  <1> SUFFICES ASSUME TypeOK, KeysAlive, [Next]_vars PROVE KeysAlive'
    OBVIOUS
  <1>1. CASE Grows
    BY <1>1 DEF Grows, KeysAlive, TypeOK
  <1>2. ASSUME NEW gone, Deletes(gone) PROVE KeysAlive'
    BY <1>2, RestrictFacts DEF Deletes, Execute, KeysAlive, TypeOK
  <1>3. ASSUME NEW d \in DataSet, Requests(d) PROVE KeysAlive'
    <2>1. \A k \in Key : Exists(k)' <=> Exists(k)
      BY <1>3 DEF Requests, pipelineVars, Exists, InUse, IsImage
    <2>2. DOMAIN Remaining(d) = DOMAIN registry \ {GetKey(d)}
      BY RestrictFacts DEF Remaining
    <2>3. CASE UNCHANGED <<registry, observed>>
      BY <2>1, <2>3 DEF KeysAlive, TypeOK
    <2>4. CASE registry' = Remaining(d) /\ UNCHANGED observed
      BY <2>1, <2>2, <2>4 DEF KeysAlive, TypeOK
    <2>5. CASE /\ DOMAIN registry' = DOMAIN Remaining(d) \cup {GetKey(d)}
               /\ observed' = observed \cup {GetKey(d)}
               /\ Alive(d)
      BY <2>1, <2>2, <2>5, KeyExists DEF KeysAlive, TypeOK
    <2> QED BY <1>3, <2>3, <2>4, <2>5 DEF Requests
  <1>4. CASE UNCHANGED vars
    BY <1>4 DEF vars, pipelineVars, KeysAlive, TypeOK, Exists, InUse, IsImage
  <1>5. CASE Pipeline
    BY <1>1, <1>2, <1>5, PipelineSteps DEF Pipeline
  <1>6. ASSUME NEW d \in DataSet, GetTriangulation(d) PROVE KeysAlive'
    BY <1>3, <1>6, RequestSteps
  <1> QED BY <1>4, <1>5, <1>6 DEF Next

(* There is no entry at the start.                                         *)
LEMMA KeysInit == Init => KeysAlive
  BY DEF Init, KeysAlive

(* No entry survives its key, and every key is observed.                   *)
THEOREM RegistryKeys == Spec => []KeysAlive
  BY TypesInit, TypesNext, KeysInit, KeysNext, PTL DEF Spec

(* A current triangulation is kept until its object is deleted.            *)
LEMMA KeptNext ==
    ASSUME TypeOK, KeysAlive, [Next]_vars, NEW k \in DOMAIN registry
    PROVE  \/ k \in DOMAIN registry' /\ registry'[k] = registry[k]
           \/ Outdated(k)
           \/ ~Exists(k)'
  <1> DEFINE Kept == \/ k \in DOMAIN registry' /\ registry'[k] = registry[k]
                     \/ Outdated(k)
                     \/ ~Exists(k)'
  <1>1. CASE Grows
    BY <1>1 DEF Grows
  <1>2. ASSUME NEW d \in DataSet, Delete(d) PROVE Kept
    <2>1. k \in {d} \cup OwnCells(d) => ~Exists(k)'
      BY <1>2, AddressAssumption, NullAssumption
      DEF Delete, OwnCells, Exists, InUse, IsImage, TypeOK, Key
    <2> QED BY <1>2, <2>1, RestrictFacts DEF Delete, Execute
  <1>3. ASSUME NEW d \in DataSet, NEW c \in Cells, NEW x \in Conn,
               SetCells(d, c, x)
        PROVE  Kept
    <2>1. k \in OwnCells(d) => ~Exists(k)'
      BY <1>3, NullAssumption
      DEF SetCells, OwnCells, Exists, InUse, TypeOK, Key
    <2> QED BY <1>3, <2>1, RestrictFacts DEF SetCells, Execute
  <1>4. ASSUME NEW d \in DataSet, GetTriangulation(d) PROVE Kept
    <2>1. Requests(d)
      BY <1>4, RequestSteps
    <2>2. /\ DOMAIN Remaining(d) = DOMAIN registry \ {GetKey(d)}
          /\ \A l \in DOMAIN Remaining(d) : Remaining(d)[l] = registry[l]
      BY RestrictFacts DEF Remaining
    <2>3. CASE k # GetKey(d)
      BY <2>1, <2>2, <2>3 DEF Requests
    <2>4. CASE k = GetKey(d) /\ Retrievable(d)
      BY <1>4, <2>4 DEF GetTriangulation, Retrieve, RetrieveEquivalent, Create,
                        MustCreate, Fail
    <2>5. CASE k = GetKey(d) /\ ~Retrievable(d)
      <3>1. ~IsValid(registry[k], d) /\ k \in Key
        BY <2>5 DEF Retrievable, HasEntry, TypeOK
      <3>2. CASE IsPointSet(d)
        BY <2>5, <3>1, <3>2, KeyExists DEF IsValid, Outdated, Alive
      <3>3. CASE ~IsPointSet(d)
        <4>1. k \in DataSet /\ k \notin Cells /\ k = d
          BY <2>5, <3>1, <3>3, AddressAssumption, NullAssumption
          DEF GetKey, IsImage, IsPointSet, Key
        <4> QED BY <3>1, <3>3, <4>1 DEF IsValid, Outdated
      <3> QED BY <3>2, <3>3
    <2> QED BY <2>3, <2>4, <2>5
  <1>5. CASE UNCHANGED vars
    BY <1>5 DEF vars
  <1> QED BY <1>1, <1>2, <1>3, <1>4, <1>5, PipelineSteps DEF Next, Pipeline

(* A triangulation other filters share is not built again behind them.     *)
THEOREM RegistryKeeps == Spec => KeptWhileCurrent
  <1>1. TypeOK /\ KeysAlive /\ [Next]_vars =>
          [\A k \in DOMAIN registry :
              \/ k \in DOMAIN registry' /\ registry'[k] = registry[k]
              \/ Outdated(k)
              \/ ~Exists(k)']_vars
    BY KeptNext
  <1> QED
    BY <1>1, RegistryTypes, RegistryKeys, PTL DEF Spec, KeptWhileCurrent

(***************************************************************************)
(* What a request gives is current.                                        *)
(***************************************************************************)
(* No cell array is newer than the clock, so that a change gives it a time *)
(* it never had.                                                           *)
TimesOK == \A c \in Cells : mtime[c] <= now

(* An entry is keyed by the image it was built from, or has seen every     *)
(* change of its cell array up to the time it was built.                   *)
EntriesOK ==
    \A k \in DOMAIN registry :
        IF k \in Cells
        THEN /\ registry[k].cellModTime <= mtime[k]
             /\ registry[k].cellModTime = mtime[k] => registry[k].conn = conn[k]
        ELSE registry[k].owner = k /\ registry[k].conn = Null

(* The owner of the triangulation of a cell array is a point set.          *)
OwnersOK == \A k \in DOMAIN registry \cap Cells : IsPointSet(registry[k].owner)

Sound == TypeOK /\ KeysAlive /\ TimesOK /\ EntriesOK

(* Steps of the pipeline make no entries and give no answer.               *)
Shrinks == /\ \A k \in DOMAIN registry' :
                 k \in DOMAIN registry /\ registry'[k] = registry[k]
           /\ answer' = Silent

(* Between requests entries can only go, and nothing is answered.          *)
LEMMA PipelineShrinks == TypeOK /\ Pipeline => Shrinks
  <1>1. Grows => Shrinks
    BY DEF Grows, Shrinks
  <1>2. ASSUME NEW gone, Deletes(gone) PROVE Shrinks
    BY <1>2, RestrictFacts DEF Deletes, Execute, Shrinks
  <1> QED BY <1>1, <1>2, PipelineSteps DEF Pipeline

(* A step of the pipeline leaves a cell array alone or gives it a new time.*)
LEMMA PipelineTimes ==
    ASSUME TypeOK, TimesOK, Pipeline
    PROVE  /\ TimesOK'
           /\ \A c \in Cells :
                \/ mtime'[c] > mtime[c]
                \/ (mtime'[c] = mtime[c] /\ conn'[c] = conn[c])
  <1> DEFINE Fine ==
        /\ TimesOK'
        /\ \A c \in Cells :
             \/ mtime'[c] > mtime[c]
             \/ (mtime'[c] = mtime[c] /\ conn'[c] = conn[c])
  <1>1. ASSUME NEW c \in Cells, NEW x \in Conn, Fill(c, x) PROVE Fine
    BY <1>1 DEF Fill, TimesOK, TypeOK
  <1>2. CASE UNCHANGED <<conn, mtime, now>>
    BY <1>2 DEF TimesOK
  <1> QED BY <1>1, <1>2 DEF Pipeline, NewImage, SetGrid, NewPointSet, SetCells,
                            ModifyCells, ShallowCopy, SetPoints, Delete

(* Every step keeps the times of the entries right.                        *)
LEMMA SoundNext == Sound /\ [Next]_vars => Sound'
  <1> SUFFICES ASSUME Sound, [Next]_vars PROVE TimesOK' /\ EntriesOK'
    BY TypesNext, KeysNext DEF Sound
  <1> USE DEF Sound
  <1>1. CASE Pipeline
    <2>1. TimesOK' /\ Shrinks
      BY <1>1, PipelineTimes, PipelineShrinks
    <2>2. ASSUME NEW k \in DOMAIN registry', k \in Cells
          PROVE  /\ registry'[k].cellModTime <= mtime'[k]
                 /\ registry'[k].cellModTime = mtime'[k] =>
                       registry'[k].conn = conn'[k]
      <3>1. registry'[k] = registry[k] /\ k \in DOMAIN registry
        BY <2>1 DEF Shrinks
      <3>2. /\ registry[k].cellModTime \in Int
            /\ mtime[k] \in Int /\ mtime'[k] \in Int
        BY <2>2, <3>1, TypesNext DEF TypeOK, Entry
      <3> QED BY <1>1, <2>2, <3>1, <3>2, PipelineTimes DEF EntriesOK
    <2>3. ASSUME NEW k \in DOMAIN registry', k \notin Cells
          PROVE  registry'[k].owner = k /\ registry'[k].conn = Null
      BY <2>1, <2>3 DEF Shrinks, EntriesOK
    <2> QED BY <2>1, <2>2, <2>3 DEF EntriesOK
  <1>2. ASSUME NEW d \in DataSet, GetTriangulation(d)
        PROVE  TimesOK' /\ EntriesOK'
    <2>1. Requests(d)
      BY <1>2, RequestSteps
    <2>2. TimesOK'
      BY <2>1 DEF Requests, pipelineVars, TimesOK
    <2>3. UNCHANGED <<mtime, conn>>
      BY <2>1 DEF Requests, pipelineVars
    <2>4. CASE UNCHANGED registry
      BY <2>2, <2>3, <2>4 DEF EntriesOK
    <2>5. CASE registry' = Remaining(d)
      BY <2>2, <2>3, <2>5, RestrictFacts DEF Remaining, EntriesOK
    <2>6. ASSUME NEW g \in Grid, Alive(d),
                 DOMAIN registry' = DOMAIN Remaining(d) \cup {GetKey(d)},
                 \A k \in DOMAIN registry' \ {GetKey(d)} :
                    registry'[k] = registry[k],
                 registry'[GetKey(d)] = NewEntry(d, g)
          PROVE  EntriesOK'
      <3>1. \A k \in DOMAIN registry' \ {GetKey(d)} : k \in DOMAIN registry
        BY <2>6, RestrictFacts DEF Remaining
      <3>2. CASE IsImage(d)
        <4>1. GetKey(d) = d /\ d \notin Cells
          BY <3>2, AddressAssumption DEF GetKey
        <4> QED BY <2>3, <2>6, <3>1, <3>2, <4>1 DEF EntriesOK, NewEntry
      <3>3. CASE ~IsImage(d)
        <4>1. GetKey(d) = cellsOf[d] /\ cellsOf[d] \in Cells
          BY <2>6, <3>3 DEF GetKey, Alive, IsPointSet, TypeOK
        <4>2. mtime[cellsOf[d]] \in Int
          BY <4>1 DEF TypeOK
        <4> QED BY <2>3, <2>6, <3>1, <3>3, <4>1, <4>2 DEF EntriesOK, NewEntry
      <3> QED BY <3>2, <3>3
    <2> QED BY <2>1, <2>2, <2>4, <2>5, <2>6 DEF Requests
  <1>3. CASE UNCHANGED vars
    BY <1>3 DEF vars, pipelineVars, TimesOK, EntriesOK
  <1> QED BY <1>1, <1>2, <1>3 DEF Next

(* The empty registry is sound.                                            *)
LEMMA SoundInit == Init => Sound
  BY TypesInit, KeysInit DEF Init, Sound, TimesOK, EntriesOK

(* The registry is sound in every state.                                   *)
LEMMA RegistrySound == Spec => []Sound
  BY SoundInit, SoundNext, PTL DEF Spec

(* An image asks the other images before it is given a triangulation.      *)
LEMMA UniqueNext == Sound /\ UniqueGrids /\ [Next]_vars => UniqueGrids'
  <1> SUFFICES ASSUME Sound, UniqueGrids, [Next]_vars PROVE UniqueGrids'
    OBVIOUS
  <1>1. CASE Pipeline
    BY <1>1, PipelineShrinks DEF Sound, Shrinks, UniqueGrids
  <1>2. ASSUME NEW d \in DataSet, GetTriangulation(d) PROVE UniqueGrids'
    <2>1. CASE Retrieve(d)
      BY <2>1 DEF Retrieve, UniqueGrids
    <2>2. CASE RetrieveEquivalent(d) \/ Fail(d)
      BY <2>2, RestrictFacts DEF RetrieveEquivalent, Fail, Remaining, UniqueGrids
    <2>3. ASSUME NEW g \in Grid, Create(d, g) PROVE UniqueGrids'
      <3>1. /\ DOMAIN registry' = DOMAIN Remaining(d) \cup {GetKey(d)}
            /\ registry'[GetKey(d)] = NewEntry(d, g)
            /\ \A k \in DOMAIN registry' \ {GetKey(d)} :
                  registry'[k] = registry[k]
            /\ DOMAIN Remaining(d) = DOMAIN registry \ {GetKey(d)}
            /\ \A k \in DOMAIN Remaining(d) : Remaining(d)[k] = registry[k]
            /\ Alive(d) /\ MustCreate(d)
        BY <2>3, RestrictFacts DEF Create, Remaining
      <3>2. CASE IsImage(d)
        <4>1. ~IsPointSet(d) /\ GetKey(d) = d
          BY <3>2 DEF Sound, TypeOK, GetKey
        <4>2. ASSUME NEW k \in (DOMAIN registry' \cap DataSet) \ {d}
              PROVE  registry'[k].grid # image[d]
          <5>1. k \in DOMAIN Remaining(d) /\ registry'[k] = registry[k]
            BY <3>1, <4>1, <4>2
          <5>2. k \notin Cells /\ k \in DOMAIN registry
            BY <3>1, <5>1, <4>2, AddressAssumption
          <5>3. registry[k].owner = k /\ IsImage(k)
            BY <5>2 DEF Sound, EntriesOK, KeysAlive, Exists
          <5>4. ~IsValid(registry[k], d)
            BY <3>1, <3>2, <5>1, <5>3 DEF MustCreate, Equivalents
          <5> QED BY <4>1, <5>1, <5>4 DEF IsValid
        <4>3. registry'[d].grid = image[d]
          BY <3>1, <3>2, <4>1 DEF NewEntry
        <4> QED BY <3>1, <4>1, <4>2, <4>3 DEF UniqueGrids
      <3>3. CASE ~IsImage(d)
        <4>1. GetKey(d) \notin DataSet
          BY <3>1, <3>3, AddressAssumption
          DEF GetKey, Alive, IsPointSet, Sound, TypeOK
        <4> QED BY <3>1, <4>1 DEF UniqueGrids
      <3> QED BY <3>2, <3>3
    <2> QED BY <1>2, <2>1, <2>2, <2>3 DEF GetTriangulation
  <1>3. CASE UNCHANGED vars
    BY <1>3 DEF vars, UniqueGrids
  <1> QED BY <1>1, <1>2, <1>3 DEF Next

(* Images of the same grid share one triangulation.                        *)
THEOREM RegistryUniqueGrids == Spec => []UniqueGrids
  <1>1. Init => UniqueGrids
    BY DEF Init, UniqueGrids
  <1> QED BY <1>1, RegistrySound, UniqueNext, PTL DEF Spec

(* The owner of an entry is not deleted before it, or its address would    *)
(* later be taken for that of an image.                                    *)
LEMMA OwnersNext ==
    ASSUME ~Outlived
    PROVE  Sound /\ OwnersOK /\ [Next]_vars => OwnersOK'
  <1> SUFFICES ASSUME Sound, OwnersOK, [Next]_vars PROVE OwnersOK'
    OBVIOUS
  <1> USE NullAssumption DEF IsPointSet
  <1>1. CASE Pipeline
    <2>1. Shrinks
      BY <1>1, PipelineShrinks DEF Sound
    <2>2. \A k \in DOMAIN registry' \cap Cells :
             /\ k \in DOMAIN registry \cap Cells
             /\ registry'[k] = registry[k]
             /\ registry[k].owner \in DataSet
      BY <2>1 DEF Shrinks, Sound, TypeOK, Entry
    <2>3. CASE \A e \in DataSet : cellsOf[e] # Null => cellsOf'[e] # Null
      BY <2>2, <2>3 DEF OwnersOK
    <2>4. ASSUME NEW d \in DataSet, Delete(d) PROVE OwnersOK'
      <3>1. \A e \in DataSet \ {d} : cellsOf'[e] = cellsOf[e]
        BY <2>4 DEF Delete, Sound, TypeOK
      <3>2. ASSUME NEW k \in DOMAIN registry' \cap Cells
            PROVE  registry[k].owner # d
        <4>1. k \notin {d} \cup OwnCells(d)
          BY <2>2, <2>4, <3>2, RestrictFacts
          DEF Delete, Execute, Sound, KeysAlive
        <4> QED BY <2>2, <2>4, <4>1 DEF Delete
      <3> QED BY <2>2, <3>1, <3>2 DEF OwnersOK
    <2>5. \A d \in DataSet, g \in Grid :
             NewImage(d, g) \/ SetGrid(d, g) => OwnersOK'
      BY <2>3 DEF NewImage, SetGrid
    <2>6. \A d \in DataSet, c \in Cells, p \in Points, x \in Conn :
             NewPointSet(d, c, p, x) => OwnersOK'
      BY <2>3 DEF NewPointSet, Sound, TypeOK
    <2>7. \A d, e \in DataSet : ShallowCopy(d, e) => OwnersOK'
      BY <2>3 DEF ShallowCopy, Sound, TypeOK
    <2>8. \A d \in DataSet, p \in Points : SetPoints(d, p) => OwnersOK'
      BY <2>3 DEF SetPoints
    <2>9. \A d \in DataSet, c \in Cells, x \in Conn :
             SetCells(d, c, x) \/ ModifyCells(c, x) => OwnersOK'
      BY <2>3 DEF SetCells, ModifyCells, Sound, TypeOK
    <2> QED BY <1>1, <2>4, <2>5, <2>6, <2>7, <2>8, <2>9 DEF Pipeline
  <1>2. ASSUME NEW d \in DataSet, GetTriangulation(d) PROVE OwnersOK'
    <2>1. Requests(d) /\ UNCHANGED cellsOf
      BY <1>2, RequestSteps DEF Sound, Requests, pipelineVars
    <2>2. CASE UNCHANGED registry
      BY <2>1, <2>2 DEF OwnersOK
    <2>3. CASE registry' = Remaining(d)
      BY <2>1, <2>3, RestrictFacts DEF Remaining, OwnersOK
    <2>4. ASSUME NEW g \in Grid, Alive(d),
                 DOMAIN registry' = DOMAIN Remaining(d) \cup {GetKey(d)},
                 \A k \in DOMAIN registry' \ {GetKey(d)} :
                    registry'[k] = registry[k],
                 registry'[GetKey(d)] = NewEntry(d, g)
          PROVE  OwnersOK'
      <3>1. \A k \in DOMAIN registry' \ {GetKey(d)} : k \in DOMAIN registry
        BY <2>4, RestrictFacts DEF Remaining
      <3>2. GetKey(d) \in Cells => IsPointSet(d)
        BY <2>4, KeyExists DEF Sound
      <3>3. NewEntry(d, g).owner = d
        BY DEF NewEntry
      <3> QED BY <2>1, <2>4, <3>1, <3>2, <3>3 DEF OwnersOK
    <2> QED BY <2>1, <2>2, <2>3, <2>4 DEF Requests
  <1>3. CASE UNCHANGED vars
    BY <1>3 DEF vars, pipelineVars, OwnersOK
  <1> QED BY <1>1, <1>2, <1>3 DEF Next

(* Every answer is current, given entries that are.                        *)
LEMMA AnswerNext ==
    Sound /\ OwnersOK /\ AnswerCurrent /\ [Next]_vars => AnswerCurrent'
  <1> SUFFICES ASSUME Sound, OwnersOK, AnswerCurrent, [Next]_vars
               PROVE  AnswerCurrent'
    OBVIOUS
  <1>1. CASE Pipeline
    BY <1>1, PipelineShrinks DEF Sound, Shrinks, Silent, AnswerCurrent
  <1>2. ASSUME NEW d \in DataSet, GetTriangulation(d) PROVE AnswerCurrent'
    <2>1. UNCHANGED <<image, cellsOf, conn>>
      BY <1>2, RequestSteps DEF Sound, Requests, pipelineVars
    <2>2. ASSUME NEW entry, Answer(d, "given", entry),
                 IF IsImage(d) THEN entry.grid = image[d] /\ entry.conn = Null
                 ELSE entry.conn = conn[cellsOf[d]]
          PROVE  AnswerCurrent'
      BY <2>1, <2>2 DEF Answer, AnswerCurrent, IsImage
    <2>3. CASE Retrieve(d)
      <3>1. GetKey(d) \in DOMAIN registry /\ IsValid(registry[GetKey(d)], d)
        BY <2>3 DEF Retrieve, Retrievable, HasEntry
      <3>2. GetKey(d) \in Key
        BY <3>1 DEF Sound, TypeOK
      <3>3. CASE IsImage(d)
        <4>1. ~IsPointSet(d) /\ GetKey(d) = d /\ d \notin Cells
          BY <3>3, AddressAssumption DEF Sound, TypeOK, GetKey
        <4>2. registry[d].conn = Null /\ registry[d].grid = image[d]
          BY <3>1, <4>1 DEF Sound, EntriesOK, IsValid
        <4> QED BY <2>2, <2>3, <3>3, <4>1, <4>2 DEF Retrieve
      <3>4. CASE ~IsImage(d)
        <4>1. GetKey(d) = cellsOf[d] /\ IsPointSet(d) /\ cellsOf[d] \in Cells
          BY <3>2, <3>4, NullAssumption
          DEF GetKey, IsPointSet, Key, Sound, TypeOK
        <4>2. registry[GetKey(d)].conn = conn[cellsOf[d]]
          BY <3>1, <4>1 DEF Sound, EntriesOK, IsValid
        <4> QED BY <2>2, <2>3, <3>4, <4>2 DEF Retrieve
      <3> QED BY <3>3, <3>4
    <2>4. CASE RetrieveEquivalent(d)
      <3>1. PICK k \in Equivalents(d) : Answer(d, "given", registry[k])
        BY <2>4 DEF RetrieveEquivalent
      <3>2. IsImage(d) /\ ~IsPointSet(d)
        BY <2>4 DEF RetrieveEquivalent, Sound, TypeOK
      <3>3. /\ k \in DOMAIN registry /\ IsImage(registry[k].owner)
            /\ registry[k].grid = image[d]
        BY <3>1, <3>2, RestrictFacts DEF Equivalents, Remaining, IsValid
      <3>4. registry[k].owner \in DataSet
        BY <3>3 DEF Sound, TypeOK, Entry
      <3>5. k \notin Cells
        BY <3>3, <3>4 DEF OwnersOK, Sound, TypeOK
      <3>6. registry[k].conn = Null
        BY <3>3, <3>5 DEF Sound, EntriesOK
      <3> QED BY <2>2, <3>1, <3>2, <3>3, <3>6
    <2>5. ASSUME NEW g \in Grid, Create(d, g) PROVE AnswerCurrent'
      BY <2>2, <2>5 DEF Create, NewEntry
    <2>6. CASE Fail(d)
      BY <2>1, <2>6 DEF Fail, AnswerCurrent, Triangulable, IsPointSet
    <2> QED BY <1>2, <2>3, <2>4, <2>5, <2>6 DEF GetTriangulation
  <1>3. CASE UNCHANGED vars
    BY <1>3 DEF vars, pipelineVars, AnswerCurrent, IsImage, Triangulable,
                IsPointSet
  <1> QED BY <1>1, <1>2, <1>3 DEF Next

(* What a request gives has the connectivity, or the grid, the data set    *)
(* has at that time, if no owner is deleted before its triangulation.      *)
THEOREM RegistryAnswers ==
    ASSUME ~Outlived
    PROVE  Spec => []AnswerCurrent
  <1>1. Init => OwnersOK /\ AnswerCurrent
    BY DEF Init, OwnersOK, Silent, AnswerCurrent
  <1>2. Sound /\ OwnersOK /\ [Next]_vars => OwnersOK'
    BY OwnersNext
  <1> QED BY <1>1, <1>2, RegistrySound, AnswerNext, PTL DEF Spec
===============================================================================
