---------------------------- MODULE InterestProofs ----------------------------
(***************************************************************************)
(* What the grid does for any size of its cells and any radius: the        *)
(* indexes agree, nobody out of the radius is reached, and nobody within   *)
(* it is left out exactly when the radius is a whole number of cells.      *)
(***************************************************************************)
EXTENDS Interest, TLAPS

Types ==
    /\ epoch \in [Spaces -> Nat] /\ subscribers \in [Spaces -> SUBSET Connections]
    /\ entities \in [Entities -> EntityRecords \cup {None}]
    /\ entity_cells \in [Entities -> CellKeys \cup {None}]

Cell(p) == [a \in Axes |-> GridCoordinate(p[a])]

-----------------------------------------------------------------------------
(* A coordinate lies in its cell.                                          *)
LEMMA InItsCell ==
    ASSUME NEW v \in Int, NEW s \in Nat \ {0}
    PROVE  v \div s \in Int /\ (v \div s) * s <= v /\ v < (v \div s) * s + s
OBVIOUS

(* The cell of a coordinate is the one it lies in.                         *)
LEMMA OnlyCell ==
    ASSUME NEW v \in Int, NEW s \in Nat \ {0}, NEW q \in Int, q * s <= v, v < q * s + s
    PROVE  v \div s = q
OBVIOUS

(* The key of the cell of a position.                                      *)
LEMMA CellTyped ==
    ASSUME GridAssumption, NEW p \in [Axes -> Int], NEW space \in Spaces, NEW e \in Nat
    PROVE  /\ Cell(p) \in [Axes -> Int]
           /\ SpatialCellFor(p, space, e) \in CellKeys \cup {None}
           /\ space \in Grids => /\ SpatialCellFor(p, space, e) # None
                                 /\ SpatialCellFor(p, space, e)
                                       = [space |-> space, epoch |-> e, cell |-> Cell(p)]
<1>1. Cell(p) \in [Axes -> Int]
  BY InItsCell DEF Cell, GridCoordinate, GridAssumption
<1>2. [space |-> space, epoch |-> e, cell |-> Cell(p)] \in CellKeys
  BY <1>1 DEF CellKeys
<1> QED BY <1>1, <1>2 DEF SpatialCellFor, GridAssumption, Cell

(* A component of a distance is no longer than the distance.               *)
LEMMA Component ==
    ASSUME NEW d \in Int, NEW x \in Nat, NEW r \in Nat, d * d + x <= r * r
    PROVE  d <= r /\ -d <= r
<1>1. ASSUME NEW n \in Nat, n > r PROVE n * n > r * r
  <2>1. n * n >= n * r /\ n * r >= r * r /\ n * n >= n * (r + 1)
    BY <1>1
  <2>2. n * (r + 1) = n * r + n
    BY <1>1
  <2> QED BY <1>1, <2>1, <2>2
<1>2. d * d <= r * r
  OBVIOUS
<1>3. CASE d >= 0
  BY <1>1, <1>2, <1>3
<1>4. CASE d < 0
  <2>1. -d \in Nat /\ (-d) * (-d) = d * d
    BY <1>4
  <2> QED BY <1>1, <1>2, <1>4, <2>1
<1> QED BY <1>3, <1>4

(* The same of each component of a distance in three dimensions.           *)
LEMMA Components ==
    ASSUME NEW a \in Int, NEW b \in Int, NEW c \in Int, NEW r \in Nat,
           a * a + b * b + c * c <= r * r
    PROVE  /\ a <= r /\ -a <= r
           /\ b <= r /\ -b <= r
           /\ c <= r /\ -c <= r
<1>1. ASSUME NEW n \in Int PROVE n * n \in Nat
  <2>1. CASE n >= 0
    BY <2>1
  <2>2. CASE n < 0
    <3>1. -n \in Nat /\ (-n) * (-n) = n * n
      BY <2>2
    <3> QED BY <3>1
  <2> QED BY <2>1, <2>2
<1>2. a * a \in Nat /\ b * b \in Nat /\ c * c \in Nat
  BY <1>1
<1>3. a <= r /\ -a <= r
  <2>1. b * b + c * c \in Nat /\ a * a + (b * b + c * c) <= r * r
    BY <1>2
  <2> QED BY <2>1, Component
<1>4. b <= r /\ -b <= r
  <2>1. a * a + c * c \in Nat /\ b * b + (a * a + c * c) <= r * r
    BY <1>2
  <2> QED BY <2>1, Component
<1>5. c <= r /\ -c <= r
  <2>1. a * a + b * b \in Nat /\ c * c + (a * a + b * b) <= r * r
    BY <1>2
  <2> QED BY <2>1, Component
<1> QED BY <1>3, <1>4, <1>5

(* Coordinates no further apart than k cells are long lie in cells no      *)
(* further apart than k.                                                   *)
LEMMA CellsApart ==
    ASSUME NEW s \in Nat \ {0}, NEW k \in Nat, NEW v \in Int, NEW w \in Int, w - v <= k * s
    PROVE  (w \div s) - (v \div s) <= k
<1> DEFINE i == v \div s
           j == w \div s
<1>1. /\ i \in Int /\ v < i * s + s
      /\ j \in Int /\ j * s <= w
  BY InItsCell
<1>2. j * s < i * s + s + k * s
  BY <1>1
<1>3. i * s + s + k * s = (i + 1 + k) * s
  BY <1>1
<1>4. ASSUME j >= i + 1 + k PROVE FALSE
  <2>1. j * s >= (i + 1 + k) * s
    BY <1>1, <1>4
  <2> QED BY <1>1, <1>2, <1>3, <2>1
<1> QED BY <1>1, <1>4

-----------------------------------------------------------------------------
(* With a radius of whole cells, near positions are in near cells.         *)
LEMMA NearCells ==
    ASSUME GridAssumption, WholeRadius, NEW p \in [Axes -> Int], NEW q \in [Axes -> Int],
           SquaredDistanceWithin(p, q)
    PROVE  CellsAreNear(Cell(p), Cell(q))
<1>1. PICK k \in Nat : Radius = k * CellSize
  BY DEF WholeRadius
<1>2. /\ CellSize \in Nat \ {0} /\ Radius \in Nat
      /\ 1 \in Axes /\ 2 \in Axes /\ Axes \subseteq {1, 2, 3}
      /\ Dimensions = 3 <=> 3 \in Axes
  BY DEF GridAssumption, Axes
<1>3. SUFFICES ASSUME NEW a \in Axes
      PROVE  Apart(p[a] \div CellSize, q[a] \div CellSize) * CellSize <= Radius
  BY DEF CellsAreNear, Cell, GridCoordinate
<1>4. p[a] - q[a] <= Radius /\ -(p[a] - q[a]) <= Radius
  <2>1. PICK x, y, z \in Int :
           /\ x = p[1] - q[1] /\ y = p[2] - q[2]
           /\ z = IF Dimensions = 3 THEN p[3] - q[3] ELSE 0
    <3>1. /\ p[1] - q[1] \in Int /\ p[2] - q[2] \in Int
          /\ Dimensions = 3 => p[3] - q[3] \in Int
      BY <1>2
    <3> QED BY <3>1
  <2>2. x * x + y * y + z * z <= Radius * Radius
    <3>1. CASE Dimensions = 3
      BY <2>1, <3>1 DEF SquaredDistanceWithin, Squared
    <3>2. CASE Dimensions # 3
      <4>1. x * x + y * y + 0 <= Radius * Radius
        BY <2>1, <3>2 DEF SquaredDistanceWithin, Squared
      <4> QED BY <2>1, <3>2, <4>1
    <3> QED BY <3>1, <3>2
  <2>3. /\ x <= Radius /\ -x <= Radius /\ y <= Radius /\ -y <= Radius
        /\ z <= Radius /\ -z <= Radius
    BY <1>2, <2>2, Components
  <2>4. a = 1 \/ a = 2 \/ (a = 3 /\ Dimensions = 3)
    BY <1>2
  <2> QED BY <2>1, <2>3, <2>4
<1> DEFINE i == p[a] \div CellSize
           j == q[a] \div CellSize
<1>5. i \in Int /\ j \in Int /\ p[a] \in Int /\ q[a] \in Int
  BY <1>2, InItsCell
<1>6. j - i <= k
  <2>1. q[a] - p[a] <= k * CellSize
    BY <1>1, <1>2, <1>4, <1>5
  <2> QED BY <1>2, <1>5, <2>1, CellsApart
<1>7. i - j <= k
  <2>1. p[a] - q[a] <= k * CellSize
    BY <1>1, <1>2, <1>4, <1>5
  <2> QED BY <1>2, <1>5, <2>1, CellsApart
<1>8. Apart(i, j) \in Nat /\ Apart(i, j) <= k
  BY <1>5, <1>6, <1>7 DEF Apart
<1> HIDE DEF i, j
<1>9. Apart(i, j) * CellSize <= k * CellSize
  BY <1>2, <1>8
<1> QED BY <1>1, <1>9 DEF i, j

(* Without it there are always two positions within the radius of each     *)
(* other in cells that are not near: the core lets neither hear the other. *)
THEOREM WholeRadiusIsNeeded ==
    ASSUME GridAssumption, ~WholeRadius
    PROVE  \E p, q \in [Axes -> Int] :
              SquaredDistanceWithin(p, q) /\ ~CellsAreNear(Cell(p), Cell(q))
<1> DEFINE s == CellSize
           k == Radius \div s
           far == k * s
           p == [a \in Axes |-> IF a = 1 THEN -1 ELSE 0]
           q == [a \in Axes |-> IF a = 1 THEN far ELSE 0]
<1>1. /\ s \in Nat \ {0} /\ Radius \in Nat /\ 1 \in Axes /\ 2 \in Axes
      /\ Dimensions = 3 => 3 \in Axes
  BY DEF GridAssumption, Axes
<1>2. k \in Int /\ k * s <= Radius /\ Radius < k * s + s
  BY <1>1, InItsCell
<1>3. k \in Nat
  <2>1. ASSUME k <= -1 PROVE FALSE
    <3>1. k * s + s = (k + 1) * s /\ (k + 1) * s <= 0
      BY <1>1, <1>2, <2>1
    <3> QED BY <1>1, <1>2, <3>1
  <2> QED BY <1>2, <2>1
<1>4. far \in Nat /\ far + 1 <= Radius
  <2>1. k * s # Radius
    BY <1>3 DEF WholeRadius
  <2>2. k * s \in Nat
    BY <1>1, <1>3
  <2> QED BY <1>1, <1>2, <2>1, <2>2
<1>5. p \in [Axes -> Int] /\ q \in [Axes -> Int]
  BY <1>4
<1>6. SquaredDistanceWithin(p, q)
  <2>1. /\ p[1] - q[1] = -(far + 1) /\ p[2] - q[2] = 0
        /\ Dimensions = 3 => p[3] - q[3] = 0
    BY <1>1, <1>4
  <2>2. (-(far + 1)) * (-(far + 1)) <= Radius * Radius
    <3>1. (-(far + 1)) * (-(far + 1)) = (far + 1) * (far + 1)
      BY <1>4
    <3>2. (far + 1) * (far + 1) <= (far + 1) * Radius /\ (far + 1) * Radius <= Radius * Radius
      BY <1>1, <1>4
    <3>3. (far + 1) * (far + 1) \in Int /\ (far + 1) * Radius \in Int /\ Radius * Radius \in Int
      BY <1>1, <1>4
    <3> QED BY <3>1, <3>2, <3>3
  <2>3. (-(far + 1)) * (-(far + 1)) \in Int /\ 0 * 0 = 0
    BY <1>4
  <2> QED BY <2>1, <2>2, <2>3 DEF SquaredDistanceWithin, Squared
<1>7. Cell(p)[1] = -1 /\ Cell(q)[1] = k
  <2>1. (-1) \div s = -1
    BY <1>1, OnlyCell
  <2>2. far \div s = k
    BY <1>1, <1>3, <1>4, OnlyCell
  <2> QED BY <1>1, <2>1, <2>2 DEF Cell, GridCoordinate
<1>8. Apart(-1, k) * s > Radius
  <2>1. Apart(-1, k) = k + 1
    BY <1>3 DEF Apart
  <2>2. (k + 1) * s = k * s + s
    BY <1>1, <1>3
  <2> QED BY <1>2, <2>1, <2>2
<1>9. ~CellsAreNear(Cell(p), Cell(q))
  <2>1. Apart(-1, k) \in Int
    BY <1>3 DEF Apart
  <2> HIDE DEF p, q, k
  <2>2. ~(Apart(Cell(p)[1], Cell(q)[1]) * CellSize <= Radius)
    BY <1>1, <1>7, <1>8, <2>1
  <2> QED BY <1>1, <2>2 DEF CellsAreNear
<1> QED BY <1>5, <1>6, <1>9

-----------------------------------------------------------------------------
(* The parts of the invariant: types, the two indexes, and positions.      *)
Inverse ==
    cell_entities = {<<entity_cells[e], e>> : e \in {f \in Entities : entity_cells[f] # None}}

InCellOfPosition ==
    \A e \in Entities :
       /\ entity_cells[e] = CellOf(e)
       /\ entities[e] # None => entities[e].epoch = epoch[entities[e].space]

IInv == Types /\ Inverse /\ InCellOfPosition

(* Taking entities out of their cells keeps the indexes inverse.           *)
LEMMA OutOfCells ==
    ASSUME Types, Inverse, NEW gone \in SUBSET Entities, RemoveFromCells(gone)
    PROVE  /\ entity_cells' \in [Entities -> CellKeys \cup {None}]
           /\ Inverse'
           /\ \A e \in Entities : entity_cells'[e] = (IF e \in gone THEN None ELSE entity_cells[e])
<1>1. /\ entity_cells' \in [Entities -> CellKeys \cup {None}]
      /\ \A e \in Entities : entity_cells'[e] = (IF e \in gone THEN None ELSE entity_cells[e])
  BY DEF Types, RemoveFromCells
<1>2. Inverse'
  <2>1. cell_entities' = cell_entities \ {<<entity_cells[e], e>> : e \in gone}
    BY DEF RemoveFromCells
  <2> QED BY <1>1, <2>1 DEF Inverse
<1> QED BY <1>1, <1>2

(* So does moving one entity to another cell.                              *)
LEMMA IntoCell ==
    ASSUME Types, Inverse, NEW e \in Entities, NEW cell \in CellKeys \cup {None},
           entity_cells' = [entity_cells EXCEPT ![e] = cell],
           cell_entities' = (cell_entities \ {<<entity_cells[e], e>>})
                               \cup (IF cell = None THEN {} ELSE {<<cell, e>>})
    PROVE  /\ entity_cells' \in [Entities -> CellKeys \cup {None}]
           /\ Inverse'
           /\ entity_cells'[e] = cell
           /\ \A f \in Entities \ {e} : entity_cells'[f] = entity_cells[f]
<1>1. /\ entity_cells' \in [Entities -> CellKeys \cup {None}] /\ entity_cells'[e] = cell
      /\ \A f \in Entities \ {e} : entity_cells'[f] = entity_cells[f]
  BY DEF Types
<1>2. Inverse'
  BY <1>1 DEF Inverse
<1> QED BY <1>1, <1>2

(* Entities that go are in no cell any more, the others stay as they were. *)
LEMMA Removed ==
    ASSUME GridAssumption, IInv, NEW gone \in SUBSET Entities, RemoveEntities(gone),
           epoch' \in [Spaces -> Nat], subscribers' \in [Spaces -> SUBSET Connections],
           \A e \in Entities \ gone : entities[e] # None =>
              epoch'[entities[e].space] = epoch[entities[e].space]
    PROVE  IInv'
<1>1. /\ entities' \in [Entities -> EntityRecords \cup {None}]
      /\ \A e \in Entities : entities'[e] = (IF e \in gone THEN None ELSE entities[e])
  BY DEF IInv, Types, RemoveEntities
<1>2. /\ entity_cells' \in [Entities -> CellKeys \cup {None}] /\ Inverse'
      /\ \A e \in Entities : entity_cells'[e] = (IF e \in gone THEN None ELSE entity_cells[e])
  BY OutOfCells DEF IInv, RemoveEntities
<1>3. InCellOfPosition'
  <2> SUFFICES ASSUME NEW e \in Entities
      PROVE  /\ entity_cells'[e] = CellOf(e)'
             /\ entities'[e] # None => entities'[e].epoch = epoch'[entities'[e].space]
    BY DEF InCellOfPosition
  <2>1. CASE e \in gone
    BY <1>1, <1>2, <2>1 DEF CellOf
  <2>2. CASE e \notin gone
    BY <1>1, <1>2, <2>2 DEF CellOf, IInv, InCellOfPosition
  <2> QED BY <2>1, <2>2
<1> QED BY <1>1, <1>2, <1>3 DEF IInv, Types

(* A record that moves to another space keeps its owner only.              *)
LEMMA Transitioned ==
  ASSUME NEW C, NEW S, NEW E, NEW P, NEW r \in [owner : C, space : S, epoch : E, position : P],
         NEW s \in S, NEW n \in E, NEW p \in P
  PROVE  LET new == [r EXCEPT !.space = s, !.epoch = n, !.position = p]
         IN  /\ new \in [owner : C, space : S, epoch : E, position : P]
             /\ new.space = s /\ new.epoch = n /\ new.position = p
OBVIOUS

(* Nothing is indexed to begin with.                                       *)
LEMMA Initially == Init => IInv
<1> SUFFICES ASSUME Init PROVE IInv
  OBVIOUS
<1>1. Types
  BY DEF Init, Types
<1>2. Inverse
  BY DEF Init, Inverse
<1>3. InCellOfPosition
  BY DEF Init, InCellOfPosition, CellOf
<1> QED BY <1>1, <1>2, <1>3 DEF IInv

(* Every step keeps each entity in the cell of its position.               *)
LEMMA Inductive == GridAssumption /\ IInv /\ [Next]_vars => IInv'
<1> SUFFICES ASSUME GridAssumption, IInv, [Next]_vars PROVE IInv'
  OBVIOUS
<1>a. Types /\ Inverse /\ InCellOfPosition
  BY DEF IInv
<1>0. CASE UNCHANGED vars
  BY <1>0 DEF vars, IInv, Types, Inverse, InCellOfPosition, CellOf
<1>1. ASSUME NEW c \in Connections, NEW space \in Spaces,
             Subscribe(c, space) \/ Unsubscribe(c, space)
      PROVE  IInv'
  <2>1. subscribers' \in [Spaces -> SUBSET Connections]
    BY <1>a, <1>1 DEF Types, Subscribe, Unsubscribe
  <2> QED BY <1>a, <1>1, <2>1 DEF Subscribe, Unsubscribe, IInv, Types, Inverse, InCellOfPosition,
                                   CellOf
<1>2. ASSUME NEW c \in Connections, NEW space \in Spaces, NEW e \in Entities,
             SpawnEntity(c, e, space)
      PROVE  IInv'
  <2> DEFINE new == [owner |-> c, space |-> space, epoch |-> epoch[space], position |-> None]
  <2>1. new \in EntityRecords /\ new # None
    BY <1>a DEF EntityRecords, Types, GridAssumption
  <2>2. /\ entities' \in [Entities -> EntityRecords \cup {None}] /\ entities'[e] = new
        /\ \A f \in Entities \ {e} : entities'[f] = entities[f]
        /\ entities[e] = None /\ UNCHANGED <<epoch, subscribers, entity_cells, cell_entities>>
    BY <1>a, <1>2, <2>1 DEF SpawnEntity, Types
  <2>3. InCellOfPosition'
    BY <1>a, <2>2 DEF InCellOfPosition, CellOf
  <2> QED BY <1>a, <2>2, <2>3 DEF IInv, Types, Inverse
<1>3. ASSUME NEW e \in Entities, NEW p \in Positions, UpdateEntityPosition(e, p)
      PROVE  IInv'
  <2> DEFINE cell == SpatialCellFor(p, entities[e].space, entities[e].epoch)
             new == [entities[e] EXCEPT !.position = p]
  <2>1. /\ entities[e] \in EntityRecords /\ new \in EntityRecords /\ new # None
        /\ new.space = entities[e].space /\ new.epoch = entities[e].epoch /\ new.position = p
        /\ p # None
    BY <1>a, <1>3 DEF UpdateEntityPosition, Types, EntityRecords, GridAssumption
  <2>2. cell \in CellKeys \cup {None}
    BY <2>1, CellTyped DEF EntityRecords, GridAssumption
  <2>3. /\ entities' \in [Entities -> EntityRecords \cup {None}] /\ entities'[e] = new
        /\ \A f \in Entities \ {e} : entities'[f] = entities[f]
        /\ UNCHANGED <<epoch, subscribers>>
    BY <1>a, <1>3, <2>1 DEF UpdateEntityPosition, Types
  <2>4. /\ entity_cells' \in [Entities -> CellKeys \cup {None}] /\ Inverse'
        /\ entity_cells'[e] = cell
        /\ \A f \in Entities \ {e} : entity_cells'[f] = entity_cells[f]
    <3>1. CASE cell = entity_cells[e]
      <4>1. UNCHANGED <<entity_cells, cell_entities>>
        BY <1>3, <3>1 DEF UpdateEntityPosition
      <4> QED BY <1>a, <3>1, <4>1 DEF Types, Inverse
    <3>2. CASE cell # entity_cells[e]
      <4>1. /\ entity_cells' = [entity_cells EXCEPT ![e] = cell]
            /\ cell_entities' = (cell_entities \ {<<entity_cells[e], e>>})
                                    \cup (IF cell = None THEN {} ELSE {<<cell, e>>})
        BY <1>3, <3>2 DEF UpdateEntityPosition
      <4> HIDE DEF cell
      <4> QED BY <1>a, <2>2, <4>1, IntoCell
    <3> QED BY <3>1, <3>2
  <2>5. InCellOfPosition'
    <3> SUFFICES ASSUME NEW f \in Entities
        PROVE  /\ entity_cells'[f] = CellOf(f)'
               /\ entities'[f] # None => entities'[f].epoch = epoch'[entities'[f].space]
      BY DEF InCellOfPosition
    <3>1. CASE f = e
      <4>1. entities[e] # None
        BY <1>3 DEF UpdateEntityPosition
      <4>2. CellOf(f)' = cell
        BY <2>1, <2>3, <3>1 DEF CellOf
      <4>3. entities'[f].epoch = epoch'[entities'[f].space]
        BY <1>a, <2>1, <2>3, <3>1, <4>1 DEF InCellOfPosition
      <4> QED BY <2>4, <3>1, <4>2, <4>3
    <3>2. CASE f # e
      BY <1>a, <2>3, <2>4, <3>2 DEF InCellOfPosition, CellOf
    <3> QED BY <3>1, <3>2
  <2> QED BY <1>a, <2>3, <2>4, <2>5 DEF IInv, Types
<1>4. ASSUME NEW e \in Entities, NEW space \in Spaces, TransitionEntity(e, space)
      PROVE  IInv'
  <2> DEFINE new == [entities[e] EXCEPT !.space = space, !.epoch = epoch[space], !.position = None]
  <2>1. /\ entities[e] \in EntityRecords /\ new \in EntityRecords /\ new # None
        /\ new.space = space /\ new.epoch = epoch[space] /\ new.position = None
    <3>1. entities[e] \in EntityRecords
      BY <1>a, <1>4 DEF TransitionEntity, Types
    <3>2. epoch[space] \in Nat /\ None \in Positions \cup {None}
      BY <1>a DEF Types
    <3>3. /\ new \in EntityRecords /\ new.space = space /\ new.epoch = epoch[space]
          /\ new.position = None
      <4> DEFINE n == epoch[space]
                 P == Positions \cup {None}
      <4> HIDE DEF n, P
      <4>1. entities[e] \in [owner : Connections, space : Spaces, epoch : Nat, position : P]
        BY <3>1 DEF EntityRecords, P
      <4> QED BY <3>2, <4>1, Transitioned DEF EntityRecords, n, P
    <3> HIDE DEF new
    <3> QED BY <3>1, <3>3 DEF GridAssumption
  <2> HIDE DEF new
  <2>2. /\ entities' \in [Entities -> EntityRecords \cup {None}] /\ entities'[e] = new
        /\ \A f \in Entities \ {e} : entities'[f] = entities[f]
        /\ UNCHANGED <<epoch, subscribers>>
    BY <1>a, <1>4, <2>1 DEF TransitionEntity, Types, new
  <2>3. /\ entity_cells' \in [Entities -> CellKeys \cup {None}] /\ Inverse'
        /\ \A f \in Entities : entity_cells'[f] = (IF f \in {e} THEN None ELSE entity_cells[f])
    BY <1>a, <1>4, OutOfCells DEF TransitionEntity
  <2>4. InCellOfPosition'
    BY <1>a, <2>1, <2>2, <2>3 DEF InCellOfPosition, CellOf
  <2> QED BY <1>a, <2>2, <2>3, <2>4 DEF IInv, Types
<1>5. ASSUME NEW e \in Entities, RemoveEntity(e) PROVE IInv'
  BY <1>a, <1>5, Removed DEF RemoveEntity, Types
<1>6. ASSUME NEW c \in Connections, Leave(c) PROVE IInv'
  <2>1. subscribers' \in [Spaces -> SUBSET Connections]
    BY <1>a, <1>6 DEF Leave, Types
  <2> QED BY <1>a, <1>6, <2>1, Removed DEF Leave, Types
<1>7. ASSUME NEW space \in Spaces, AdvanceSpaceEpoch(space) PROVE IInv'
  <2> DEFINE gone == {e \in Entities : entities[e] # None /\ entities[e].space = space}
  <2>1. epoch' \in [Spaces -> Nat] /\ \A other \in Spaces \ {space} : epoch'[other] = epoch[other]
    BY <1>a, <1>7 DEF AdvanceSpaceEpoch, Types
  <2>2. \A e \in Entities \ gone : entities[e] # None => entities[e].space \in Spaces \ {space}
    BY <1>a DEF Types, EntityRecords
  <2>3. RemoveEntities(gone) /\ UNCHANGED subscribers /\ gone \in SUBSET Entities
    BY <1>7 DEF AdvanceSpaceEpoch
  <2> HIDE DEF gone
  <2> QED BY <1>a, <2>1, <2>2, <2>3, Removed DEF Types
<1> QED BY <1>0, <1>1, <1>2, <1>3, <1>4, <1>5, <1>6, <1>7 DEF Next

(* It holds in every state.                                                *)
LEMMA Always ==
    ASSUME GridAssumption
    PROVE  Spec => []IInv
BY Initially, Inductive, PTL DEF Spec

(* Positions, cells and the entities of a cell never disagree, whatever    *)
(* spaces are crossed, advanced or left.                                   *)
THEOREM IndexesAgreeTheorem ==
    ASSUME GridAssumption
    PROVE  Spec => []IndexesAgree
<1>1. IInv => IndexesAgree
  BY DEF IInv, Inverse, InCellOfPosition, IndexesAgree
<1> QED BY <1>1, Always, PTL

(* The exact distance lets nobody out of the radius through.               *)
THEOREM NobodyFarIsReachedTheorem ==
    ASSUME GridAssumption
    PROVE  Spec => []NobodyFarIsReached
<1>1. IInv => NobodyFarIsReached
  <2> SUFFICES ASSUME IInv, ExactDistance, NEW e \in Entities, entities[e] # None,
                      entities[e].space \in Grids, NEW c \in RoutingRecipients(e)
      PROVE  entities[e].position # None /\ c \in Neighbours(e)
    BY DEF NobodyFarIsReached
  <2> DEFINE source == entities[e]
  <2>1. /\ source.position # None /\ c \in subscribers[source.space]
        /\ \E candidate \in cell_entities :
              /\ candidate[1].space = source.space
              /\ entities[candidate[2]].owner = c
              /\ SquaredDistanceWithin(source.position, entities[candidate[2]].position)
    BY DEF RoutingRecipients
  <2>2. PICK candidate \in cell_entities :
           /\ candidate[1].space = source.space
           /\ entities[candidate[2]].owner = c
           /\ SquaredDistanceWithin(source.position, entities[candidate[2]].position)
    BY <2>1
  <2>3. PICK f \in Entities : entity_cells[f] # None /\ candidate = <<entity_cells[f], f>>
    BY DEF IInv, Inverse
  <2>4. /\ entities[f] # None /\ entities[f].position # None
        /\ entity_cells[f]
              = SpatialCellFor(entities[f].position, entities[f].space, entities[f].epoch)
    BY <2>3 DEF IInv, InCellOfPosition, CellOf
  <2>5. entity_cells[f].space = entities[f].space
    BY <2>3, <2>4 DEF SpatialCellFor
  <2>6. Placed(f, source.space) /\ entities[f].owner = c
        /\ SquaredDistanceWithin(source.position, entities[f].position)
    BY <2>2, <2>3, <2>4, <2>5 DEF Placed
  <2> QED BY <2>1, <2>6 DEF Neighbours
<1> QED BY <1>1, Always, PTL

(* With a radius of whole cells, every subscriber with an entity within    *)
(* the radius is reached: the cells leave out none that the distance       *)
(* would keep.                                                             *)
THEOREM NobodyNearIsCutOffTheorem ==
    ASSUME GridAssumption, WholeRadius
    PROVE  Spec => []NobodyNearIsCutOff
<1>1. IInv => NobodyNearIsCutOff
  <2> SUFFICES ASSUME IInv, NEW e \in Entities, entities[e] # None,
                      Placed(e, entities[e].space), NEW c \in Neighbours(e)
      PROVE  c \in RoutingRecipients(e)
    BY DEF NobodyNearIsCutOff
  <2> DEFINE source == entities[e]
  <2>1. PICK f \in Entities :
           /\ c \in subscribers[source.space] /\ Placed(f, source.space)
           /\ entities[f].owner = c
           /\ SquaredDistanceWithin(source.position, entities[f].position)
    BY DEF Neighbours
  <2>2. CASE source.space \notin Grids
    BY <2>1, <2>2 DEF RoutingRecipients
  <2>3. CASE source.space \in Grids
    <3>1. /\ source \in EntityRecords /\ entities[f] \in EntityRecords
          /\ entities[f].space = source.space /\ entities[f].epoch = source.epoch
          /\ source.position \in [Axes -> Int] /\ entities[f].position \in [Axes -> Int]
          /\ source.position # None /\ entities[f].position # None /\ entities[f] # None
      <4>1. /\ source \in EntityRecords /\ entities[f] \in EntityRecords
            /\ entities[f] # None /\ entities[f].space = source.space
            /\ entities[f].position # None /\ source.position # None
        BY <2>1 DEF Placed, IInv, Types
      <4>2. entities[f].epoch = source.epoch
        BY <4>1 DEF IInv, InCellOfPosition
      <4>3. source.position \in [Axes -> Int] /\ entities[f].position \in [Axes -> Int]
        BY <4>1 DEF EntityRecords, GridAssumption
      <4> QED BY <4>1, <4>2, <4>3
    <3>2. /\ entity_cells[e] = SpatialCellFor(source.position, source.space, source.epoch)
          /\ entity_cells[f] = SpatialCellFor(entities[f].position, source.space, source.epoch)
      BY <3>1 DEF IInv, InCellOfPosition, CellOf
    <3>3. source.space \in Spaces /\ source.epoch \in Nat
      BY <3>1 DEF EntityRecords
    <3>4. /\ entity_cells[e] # None /\ entity_cells[f] # None
          /\ entity_cells[e].cell = Cell(source.position)
          /\ entity_cells[f].cell = Cell(entities[f].position)
          /\ entity_cells[e].space = source.space /\ entity_cells[e].epoch = source.epoch
          /\ entity_cells[f].space = source.space /\ entity_cells[f].epoch = source.epoch
      <4>1. ASSUME NEW p \in [Axes -> Int]
            PROVE  LET key == SpatialCellFor(p, source.space, source.epoch) IN
                   /\ key # None /\ key.cell = Cell(p)
                   /\ key.space = source.space /\ key.epoch = source.epoch
        BY <2>3, <3>3, CellTyped
      <4> QED BY <3>1, <3>2, <4>1
    <3>5. CellsAreNear(entity_cells[e].cell, entity_cells[f].cell)
      BY <2>1, <3>1, <3>4, NearCells
    <3>6. <<entity_cells[f], f>> \in cell_entities
      BY <3>4 DEF IInv, Inverse
    <3> DEFINE candidate == <<entity_cells[f], f>>
    <3>7. candidate[1] = entity_cells[f] /\ candidate[2] = f /\ candidate \in cell_entities
      BY <3>6
    <3>8. \E one \in cell_entities :
             /\ one[1].space = source.space /\ one[1].epoch = source.epoch
             /\ CellsAreNear(entity_cells[e].cell, one[1].cell)
             /\ entities[one[2]].owner = c
             /\ ExactDistance => SquaredDistanceWithin(source.position, entities[one[2]].position)
      BY <2>1, <3>4, <3>5, <3>7
    <3> QED BY <2>1, <2>3, <3>1, <3>4, <3>8 DEF RoutingRecipients
  <2> QED BY <2>2, <2>3
<1> QED BY <1>1, Always, PTL
=============================================================================
