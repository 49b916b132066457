------------------------------- MODULE Interest -------------------------------
(***************************************************************************)
(* Interest management: who gets the replaceable state of an entity in a   *)
(* space that is routed by a uniform grid.                                 *)
(*                                                                         *)
(* The core keeps two indexes, from an entity to its cell and from a cell  *)
(* to its entities, and updates them when a position crosses a cell        *)
(* boundary and when an entity goes away.  A message reaches subscribers   *)
(* with an entity in a near cell, within the exact distance when asked.    *)
(* One session of spaces that all have the same grid, or none; the unit    *)
(* of length is small enough for positions, the size of a cell and the     *)
(* radius to be whole numbers, and what floating point rounds is left out. *)
(***************************************************************************)
EXTENDS Integers

CONSTANTS
    Connections, Entities, Spaces,
    Grids,                  \* the spaces routed by the grid
    Dimensions,             \* 2 or 3
    Positions,              \* the positions an owner may report
    CellSize, Radius, ExactDistance,
    MaxEpoch,               \* bounds the epochs
    None

VARIABLES
    epoch,                  \* the epoch of each space
    subscribers,            \* the connections subscribed to each space
    entities,               \* records of the entities there are, None for the others
    entity_cells,           \* the cell an entity is indexed in, or None
    cell_entities           \* pairs of a cell and an entity indexed in it

vars == <<epoch, subscribers, entities, entity_cells, cell_entities>>

Axes == 1 .. Dimensions
GridCoordinate(value) == value \div CellSize

(* The key of the cell, in its space and epoch.                            *)
SpatialCellFor(position, space, e) ==
    IF space \notin Grids THEN None
    ELSE [space |-> space, epoch |-> e, cell |-> [a \in Axes |-> GridCoordinate(position[a])]]

-----------------------------------------------------------------------------
Apart(i, j) == IF i <= j THEN j - i ELSE i - j

(* The distance in cells against the radius in cells, times the cell size. *)
CellsAreNear(source, candidate) ==
    \A a \in Axes : Apart(source[a], candidate[a]) * CellSize <= Radius

Squared(n) == n * n

SquaredDistanceWithin(p, q) ==
    Squared(p[1] - q[1]) + Squared(p[2] - q[2])
        + (IF Dimensions = 3 THEN Squared(p[3] - q[3]) ELSE 0) <= Squared(Radius)

(* Who gets a replaceable message about the entity.                        *)
RoutingRecipients(entity) ==
    LET source == entities[entity]
        origin == entity_cells[entity]
    IN  IF source.space \notin Grids THEN subscribers[source.space]
        ELSE IF source.position = None \/ origin = None THEN {}
        ELSE IF origin.space # source.space \/ origin.epoch # source.epoch THEN {}
        ELSE {c \in subscribers[source.space] :
                 \E candidate \in cell_entities :
                    /\ candidate[1].space = source.space /\ candidate[1].epoch = source.epoch
                    /\ CellsAreNear(origin.cell, candidate[1].cell)
                    /\ entities[candidate[2]].owner = c
                    /\ ExactDistance =>
                          SquaredDistanceWithin(source.position, entities[candidate[2]].position)}

-----------------------------------------------------------------------------
RemoveFromCells(gone) ==
    /\ entity_cells' = [e \in Entities |-> IF e \in gone THEN None ELSE entity_cells[e]]
    /\ cell_entities' = cell_entities \ {<<entity_cells[e], e>> : e \in gone}

Subscribe(c, space) ==
    /\ subscribers' = [subscribers EXCEPT ![space] = @ \cup {c}]
    /\ UNCHANGED <<epoch, entities, entity_cells, cell_entities>>

(* What a connection owns in the space stays there.                        *)
Unsubscribe(c, space) ==
    /\ subscribers' = [subscribers EXCEPT ![space] = @ \ {c}]
    /\ UNCHANGED <<epoch, entities, entity_cells, cell_entities>>

SpawnEntity(c, entity, space) ==
    /\ c \in subscribers[space] /\ entities[entity] = None
    /\ entities' = [entities EXCEPT ![entity] =
           [owner |-> c, space |-> space, epoch |-> epoch[space], position |-> None]]
    /\ UNCHANGED <<epoch, subscribers, entity_cells, cell_entities>>

UpdateEntityPosition(entity, position) ==
    /\ entities[entity] # None
    /\ entities[entity].owner \in subscribers[entities[entity].space]
    /\ entities' = [entities EXCEPT ![entity].position = position]
    /\ LET cell == SpatialCellFor(position, entities[entity].space, entities[entity].epoch) IN
       IF cell = entity_cells[entity] THEN UNCHANGED <<entity_cells, cell_entities>>
       ELSE /\ entity_cells' = [entity_cells EXCEPT ![entity] = cell]
            /\ cell_entities' = (cell_entities \ {<<entity_cells[entity], entity>>})
                                   \cup (IF cell = None THEN {} ELSE {<<cell, entity>>})
    /\ UNCHANGED <<epoch, subscribers>>

(* The position belonged to the frame that is left.                        *)
TransitionEntity(entity, space) ==
    /\ entities[entity] # None /\ entities[entity].space # space
    /\ entities[entity].owner \in subscribers[entities[entity].space] \cap subscribers[space]
    /\ entities' = [entities EXCEPT ![entity] =
           [@ EXCEPT !.space = space, !.epoch = epoch[space], !.position = None]]
    /\ RemoveFromCells({entity})
    /\ UNCHANGED <<epoch, subscribers>>

(* Entities go together with what removes them: their owner, or the epoch. *)
RemoveEntities(gone) ==
    /\ entities' = [e \in Entities |-> IF e \in gone THEN None ELSE entities[e]]
    /\ RemoveFromCells(gone)

RemoveEntity(entity) ==
    /\ entities[entity] # None
    /\ RemoveEntities({entity})
    /\ UNCHANGED <<epoch, subscribers>>

Leave(c) ==
    /\ subscribers' = [space \in Spaces |-> subscribers[space] \ {c}]
    /\ RemoveEntities({e \in Entities : entities[e] # None /\ entities[e].owner = c})
    /\ UNCHANGED epoch

AdvanceSpaceEpoch(space) ==
    /\ epoch[space] < MaxEpoch
    /\ epoch' = [epoch EXCEPT ![space] = @ + 1]
    /\ RemoveEntities({e \in Entities : entities[e] # None /\ entities[e].space = space})
    /\ UNCHANGED subscribers

-----------------------------------------------------------------------------
Init ==
    /\ epoch = [space \in Spaces |-> 1]
    /\ subscribers = [space \in Spaces |-> {}]
    /\ entities = [e \in Entities |-> None]
    /\ entity_cells = [e \in Entities |-> None] /\ cell_entities = {}

Next ==
    \/ \E c \in Connections, space \in Spaces :
          \/ Subscribe(c, space) \/ Unsubscribe(c, space)
          \/ \E e \in Entities : SpawnEntity(c, e, space)
    \/ \E e \in Entities :
          \/ RemoveEntity(e)
          \/ \E p \in Positions : UpdateEntityPosition(e, p)
          \/ \E space \in Spaces : TransitionEntity(e, space)
    \/ \E c \in Connections : Leave(c)
    \/ \E space \in Spaces : AdvanceSpaceEpoch(space)

Spec == Init /\ [][Next]_vars

-----------------------------------------------------------------------------
(* The two indexes are each other's inverse and list an entity in the cell *)
(* of its position, in the space and epoch it is in.                       *)
CellOf(e) ==
    IF entities[e] = None \/ entities[e].position = None THEN None
    ELSE SpatialCellFor(entities[e].position, entities[e].space, entities[e].epoch)

IndexesAgree ==
    /\ cell_entities = {<<entity_cells[e], e>> : e \in {f \in Entities : entity_cells[f] # None}}
    /\ \A e \in Entities :
          /\ entity_cells[e] = CellOf(e)
          /\ entities[e] # None => entities[e].epoch = epoch[entities[e].space]

(* The subscribers with an entity within the radius: no cells.             *)
Placed(e, space) == entities[e] # None /\ entities[e].space = space /\ entities[e].position # None

Neighbours(entity) ==
    LET space == entities[entity].space IN
    {c \in subscribers[space] :
        \E e \in Entities :
            /\ Placed(e, space) /\ entities[e].owner = c
            /\ SquaredDistanceWithin(entities[entity].position, entities[e].position)}

(* With the exact distance, nobody out of the radius is reached.           *)
NobodyFarIsReached ==
    ExactDistance =>
        \A e \in Entities : entities[e] # None /\ entities[e].space \in Grids =>
            RoutingRecipients(e)
                \subseteq (IF entities[e].position = None THEN {} ELSE Neighbours(e))

(* Nobody within the radius is left out.                                   *)
NobodyNearIsCutOff ==
    \A e \in Entities : entities[e] # None /\ Placed(e, entities[e].space) =>
        Neighbours(e) \subseteq RoutingRecipients(e)

(* What that takes: a radius that is a whole number of cells.              *)
WholeRadius == \E k \in Nat : Radius = k * CellSize

(* What a descriptor is validated for, and that None is nothing else.      *)
EntityRecords ==
    [owner : Connections, space : Spaces, epoch : Nat, position : Positions \cup {None}]
CellKeys == [space : Spaces, epoch : Nat, cell : [Axes -> Int]]

GridAssumption ==
    /\ CellSize \in Nat \ {0} /\ Radius \in Nat /\ Dimensions \in {2, 3}
    /\ Grids \subseteq Spaces /\ Positions \subseteq [Axes -> Int]
    /\ None \notin EntityRecords \cup CellKeys \cup Positions
=============================================================================
