------------------------ MODULE TriangulationRegistry ------------------------
(***************************************************************************)
(* The registry of triangulations shared by all filters of a process       *)
(* (src/core/vtk/ttkAlgorithm/ttkTriangulationFactory.cpp).  It maps the   *)
(* address of an image, or of the cell array of a point set, to a          *)
(* triangulation built from it.  Between two requests the pipeline copies, *)
(* changes and deletes data sets: the registry learns of a change from the *)
(* modification time or the extent, when it is asked, and of a deletion    *)
(* from an observer of the deleted object.                                 *)
(***************************************************************************)
EXTENDS Integers, Functions

CONSTANTS DataSet,   \* addresses of images and point sets
          Cells,     \* addresses of cell arrays
          Points,    \* point arrays
          Grid,      \* extent, origin, spacing and dimensions of an image
          Conn,      \* contents of a cell array
          Bad,       \* those of them that are no simplices
          Null,
          MaxTime,   \* bound of VTK's modification time
          Outlived   \* TRUE: a data set may be deleted while its triangulation
                     \* lives on with the cell array another one shares

ASSUME AddressAssumption == DataSet \cap Cells = {}
ASSUME NullAssumption == Null \notin DataSet \cup Cells \cup Points \cup Grid
ASSUME BadAssumption == Bad \subseteq Conn
ASSUME OutlivedAssumption == Outlived \in BOOLEAN

VARIABLES
    image,             \* the grid of the image at each address, or Null
    cellsOf, pointsOf, \* the arrays of the point set at each address, or Null
    conn, mtime, now,  \* contents and modification time of the cell arrays
    registry,          \* a RegistryValue for each key
    observed,          \* objects with a ttkOnDeleteCommand
    answer             \* the last request, until the pipeline goes on

pipelineVars == <<image, cellsOf, pointsOf, conn, mtime, now>>
vars == <<pipelineVars, registry, observed, answer>>

Key == DataSet \cup Cells

(* A RegistryValue: what isValid compares, and what the triangulation was  *)
(* built from, to whose arrays it keeps pointers.                          *)
Entry == [owner : DataSet, cellModTime : Int, grid : Grid,
          conn : Conn \cup {Null}, points : Points \cup {Null}]

IsImage(d) == image[d] # Null
IsPointSet(d) == cellsOf[d] # Null
Alive(d) == IsImage(d) \/ IsPointSet(d)
InUse(c) == \E d \in DataSet : cellsOf[d] = c
Exists(k) == IF k \in Cells THEN InUse(k) ELSE IsImage(k)

Silent == [status |-> "none"]

Init == /\ image = [d \in DataSet |-> Null]
        /\ cellsOf = [d \in DataSet |-> Null]
        /\ pointsOf = [d \in DataSet |-> Null]
        /\ conn \in [Cells -> Conn]
        /\ mtime = [c \in Cells |-> 0]
        /\ now = 0
        /\ registry = [k \in {} |-> Null]
        /\ observed = {}
        /\ answer = Silent
-------------------------------------------------------------------------------
(***************************************************************************)
(* The pipeline.                                                           *)
(***************************************************************************)
(* The contents of a cell array change, and VTK's clock ticks.             *)
Fill(c, x) == /\ now < MaxTime
              /\ now' = now + 1
              /\ mtime' = [mtime EXCEPT ![c] = now + 1]
              /\ conn' = [conn EXCEPT ![c] = x]

NewImage(d, g) ==
    /\ ~Alive(d)
    /\ image' = [image EXCEPT ![d] = g]
    /\ answer' = Silent
    /\ UNCHANGED <<cellsOf, pointsOf, conn, mtime, now, registry, observed>>

NewPointSet(d, c, p, x) ==
    /\ ~Alive(d) /\ ~InUse(c)
    /\ cellsOf' = [cellsOf EXCEPT ![d] = c]
    /\ pointsOf' = [pointsOf EXCEPT ![d] = p]
    /\ Fill(c, x)
    /\ answer' = Silent
    /\ UNCHANGED <<image, registry, observed>>

(* The output of a filter shares the arrays of its input.                  *)
ShallowCopy(d, e) ==
    /\ ~Alive(d) /\ IsPointSet(e)
    /\ cellsOf' = [cellsOf EXCEPT ![d] = cellsOf[e]]
    /\ pointsOf' = [pointsOf EXCEPT ![d] = pointsOf[e]]
    /\ answer' = Silent
    /\ UNCHANGED <<image, conn, mtime, now, registry, observed>>

SetPoints(d, p) ==
    /\ IsPointSet(d) /\ p # pointsOf[d]
    /\ pointsOf' = [pointsOf EXCEPT ![d] = p]
    /\ answer' = Silent
    /\ UNCHANGED <<image, cellsOf, conn, mtime, now, registry, observed>>

ModifyCells(c, x) ==
    /\ InUse(c)
    /\ Fill(c, x)
    /\ answer' = Silent
    /\ UNCHANGED <<image, cellsOf, pointsOf, registry, observed>>

SetGrid(d, g) ==
    /\ IsImage(d) /\ g # image[d]
    /\ image' = [image EXCEPT ![d] = g]
    /\ answer' = Silent
    /\ UNCHANGED <<cellsOf, pointsOf, conn, mtime, now, registry, observed>>

(* DeleteEvent of the objects in gone: each observer erases the entry of   *)
(* its key, the address of the object it observes.                         *)
Execute(gone) ==
    /\ registry' = Restrict(registry, DOMAIN registry \ (gone \cap observed))
    /\ observed' = observed \ gone

(* The cell array of d, if no other point set shares it.                   *)
OwnCells(d) == {c \in Cells : /\ cellsOf[d] = c
                              /\ \A e \in DataSet \ {d} : cellsOf[e] # c}

(* d gets a cell array of its own; the last reference to the old one goes. *)
SetCells(d, c, x) ==
    /\ IsPointSet(d) /\ ~InUse(c)
    /\ cellsOf' = [cellsOf EXCEPT ![d] = c]
    /\ Fill(c, x)
    /\ Execute(OwnCells(d))
    /\ answer' = Silent
    /\ UNCHANGED <<image, pointsOf>>

Delete(d) ==
    LET gone == {d} \cup OwnCells(d) IN
    /\ Alive(d)
    /\ ~Outlived =>
          \A k \in DOMAIN registry : registry[k].owner = d => k \in gone
    /\ image' = [image EXCEPT ![d] = Null]
    /\ cellsOf' = [cellsOf EXCEPT ![d] = Null]
    /\ pointsOf' = [pointsOf EXCEPT ![d] = Null]
    /\ Execute(gone)
    /\ answer' = Silent
    /\ UNCHANGED <<conn, mtime, now>>
-------------------------------------------------------------------------------
(***************************************************************************)
(* GetTriangulation.                                                       *)
(***************************************************************************)
GetKey(d) == IF IsImage(d) THEN d ELSE cellsOf[d]

(* Mutant of IsValid: any cell array of the same address will do.          *)
SameAddress(e, d) == IsPointSet(d) \/ e.grid = image[d]

(* isValid: the cells are as old, or the image has the same grid.          *)
IsValid(e, d) == IF IsPointSet(d) THEN e.cellModTime = mtime[cellsOf[d]]
                 ELSE e.grid = image[d]

HasEntry(d) == GetKey(d) \in DOMAIN registry

(* Mutant of Retrievable: only the owner finds its triangulation.          *)
OwnerOnly(d) == /\ HasEntry(d) /\ registry[GetKey(d)].owner = d
                /\ IsValid(registry[GetKey(d)], d)
Retrievable(d) == HasEntry(d) /\ IsValid(registry[GetKey(d)], d)

Answer(d, status, e) == answer' = [status |-> status, of |-> d, entry |-> e]

(* Retrieving Existing Triangulation                                       *)
Retrieve(d) ==
    /\ Retrievable(d)
    /\ Answer(d, "given", registry[GetKey(d)])
    /\ UNCHANGED <<pipelineVars, registry, observed>>

(* What is registered after an entry of d that is no longer valid has been *)
(* erased.                                                                 *)
Remaining(d) == Restrict(registry, DOMAIN registry \ {GetKey(d)})

(* Mutant of Equivalents: an image is looked for under its own key only.   *)
NoEquivalents(d) == {}

(* FindImplicitTriangulation: entries valid for image d whose owner is an  *)
(* image.                                                                  *)
Equivalents(d) ==
    {k \in DOMAIN Remaining(d) :
        IsImage(registry[k].owner) /\ IsValid(registry[k], d)}

(* Retrieving Equivalent Implicit-Triangulation                            *)
RetrieveEquivalent(d) ==
    /\ IsImage(d) /\ ~Retrievable(d)
    /\ \E k \in Equivalents(d) : Answer(d, "given", registry[k])
    /\ registry' = Remaining(d)
    /\ UNCHANGED <<pipelineVars, observed>>

(* Mutant of NewEntry: the key is stored as the owner.                     *)
KeyAsOwner(d, g) ==
    [owner |-> GetKey(d), grid |-> IF IsImage(d) THEN image[d] ELSE g,
     cellModTime |-> IF IsImage(d) THEN 0 ELSE mtime[cellsOf[d]],
     conn |-> IF IsImage(d) THEN Null ELSE conn[cellsOf[d]],
     points |-> pointsOf[d]]

(* CreateTriangulation and RegistryValue: a new entry and a new observer.  *)
(* The constructor leaves the grid of a point set's entry uninitialised.   *)
NewEntry(d, g) ==
    IF IsImage(d)
    THEN [owner |-> d, cellModTime |-> 0, grid |-> image[d],
          conn |-> Null, points |-> Null]
    ELSE [owner |-> d, cellModTime |-> mtime[cellsOf[d]], grid |-> g,
          conn |-> conn[cellsOf[d]], points |-> pointsOf[d]]

MustCreate(d) == /\ ~Retrievable(d)
                 /\ IsImage(d) => Equivalents(d) = {}

Triangulable(d) == IsPointSet(d) => conn[cellsOf[d]] \notin Bad

(* Mutant of Create: the object is not observed.                           *)
CreateUnobserved(d, g) ==
    /\ Alive(d) /\ MustCreate(d) /\ Triangulable(d)
    /\ registry' = [k \in DOMAIN Remaining(d) \cup {GetKey(d)} |->
                       IF k = GetKey(d) THEN NewEntry(d, g) ELSE registry[k]]
    /\ Answer(d, "given", NewEntry(d, g))
    /\ UNCHANGED <<pipelineVars, observed>>

Create(d, g) ==
    /\ Alive(d) /\ MustCreate(d) /\ Triangulable(d)
    /\ registry' = [k \in DOMAIN Remaining(d) \cup {GetKey(d)} |->
                       IF k = GetKey(d) THEN NewEntry(d, g) ELSE registry[k]]
    /\ observed' = observed \cup {GetKey(d)}
    /\ Answer(d, "given", NewEntry(d, g))
    /\ UNCHANGED pipelineVars

(* No triangulation: the data set is not registered.                       *)
Fail(d) ==
    /\ Alive(d) /\ MustCreate(d) /\ ~Triangulable(d)
    /\ registry' = Remaining(d)
    /\ answer' = [status |-> "failed", of |-> d]
    /\ UNCHANGED <<pipelineVars, observed>>

GetTriangulation(d) == \/ Retrieve(d) \/ RetrieveEquivalent(d)
                       \/ \E g \in Grid : Create(d, g)
                       \/ Fail(d)

Pipeline == \E d \in DataSet :
    \/ \E g \in Grid : NewImage(d, g) \/ SetGrid(d, g)
    \/ \E c \in Cells, p \in Points, x \in Conn : NewPointSet(d, c, p, x)
    \/ \E c \in Cells, x \in Conn : SetCells(d, c, x) \/ ModifyCells(c, x)
    \/ \E e \in DataSet : ShallowCopy(d, e)
    \/ \E p \in Points : SetPoints(d, p)
    \/ Delete(d)

Next == Pipeline \/ \E d \in DataSet : GetTriangulation(d)

Spec == Init /\ [][Next]_vars
-------------------------------------------------------------------------------
TypeOK ==
    /\ image \in [DataSet -> Grid \cup {Null}]
    /\ cellsOf \in [DataSet -> Cells \cup {Null}]
    /\ pointsOf \in [DataSet -> Points \cup {Null}]
    /\ conn \in [Cells -> Conn]
    /\ mtime \in [Cells -> Int] /\ now \in Int
    /\ DOMAIN registry \subseteq Key
    /\ \A k \in DOMAIN registry : registry[k] \in Entry
    /\ observed \subseteq Key
    /\ \A d \in DataSet : ~(IsImage(d) /\ IsPointSet(d))

(* No entry survives its key: the object at that address still exists and  *)
(* its deletion will be noticed, however often the entry was erased and    *)
(* made again.  A new object never finds the entry of an old one.          *)
KeysAlive == \A k \in DOMAIN registry : Exists(k) /\ k \in observed

(* The triangulation a request gives has the connectivity, or the grid,    *)
(* the data set has at that time, and only a data set that cannot be       *)
(* triangulated is given none (`updates the triangulation if the           *)
(* connectivity of vtkDataSet changed`, ttkAlgorithm.h:148).               *)
AnswerCurrent ==
    LET d == answer.of IN
    /\ answer.status = "given" =>
          IF IsImage(d)
          THEN answer.entry.grid = image[d] /\ answer.entry.conn = Null
          ELSE answer.entry.conn = conn[cellsOf[d]]
    /\ answer.status = "failed" => ~Triangulable(d)

(* Images of the same grid share one triangulation.                        *)
UniqueGrids ==
    \A k, l \in DOMAIN registry \cap DataSet :
        registry[k].grid = registry[l].grid => k = l

(* A triangulation is dropped or replaced only when its object is deleted  *)
(* or was changed after it was built: what the filters downstream share is *)
(* not built again behind them.                                            *)
Outdated(k) == IF k \in Cells THEN registry[k].cellModTime # mtime[k]
               ELSE registry[k].grid # image[k]
KeptWhileCurrent ==
    [][\A k \in DOMAIN registry :
          \/ k \in DOMAIN registry' /\ registry'[k] = registry[k]
          \/ Outdated(k)
          \/ ~Exists(k)']_vars

(* The owners GetTriangulation asks for their class when an image has no   *)
(* entry of its own are alive.                                             *)
OwnersAlive ==
    (\E d \in DataSet : IsImage(d) /\ ~Retrievable(d)) =>
        \A k \in DOMAIN registry : Alive(registry[k].owner)

(* The triangulation a request gives has the points of the data set        *)
(* (`verify that the referenced triangulation is still valid for the given *)
(* vtkDataSet`, ttkAlgorithm.h:157).                                       *)
PointsCurrent ==
    answer.status = "given" /\ IsPointSet(answer.of) =>
        answer.entry.points = pointsOf[answer.of]
===============================================================================
