--------------------------- MODULE EngineEntities ---------------------------
(***************************************************************************)
(* The entities of an engine (gpk_engine/gpk_engine_entity.h, gpk_engine.h *)
(* and .cpp), their bodies (gpk_rigid_body.h) and the transforms of their  *)
(* render nodes.  Entities are numbered from 1 and 0 is the -1 of the      *)
(* code.  A matrix is the sequence of the places it was multiplied from;   *)
(* a place stands for the position and orientation of one body.            *)
(*                                                                         *)
(* Every entity a program creates has a render node of its own, and all    *)
(* but the lights have a body.  Entities.Delete is called by no program.   *)
(***************************************************************************)
EXTENDS Integers, Sequences, FiniteSets

CONSTANTS
    EntitiesMax, \* bound: entities
    PlacesMax,   \* bound: the places are 1..PlacesMax
    EngineCalls  \* bound: the calls made of the engine

ASSUME EntitiesAssumption == {EntitiesMax, EngineCalls} \subseteq Nat /\ PlacesMax \in Nat \ {0}

VARIABLES
    engine,        \* Entities, Entities.Children, the bodies and the Model of each node
    engineUpdated, \* history: nothing has changed since the last update
    engineCalls    \* history: the calls so far

engineVars == <<engine, engineUpdated, engineCalls>>

EngineInit ==
    /\ engine = [parents |-> <<>>, children |-> <<>>, bodies |-> <<>>, models |-> <<>>]
    /\ engineUpdated = TRUE
    /\ engineCalls = 0

EngineSize == Len(engine.parents)

----------------------------------------------------------------------------
\* Creation

NewBody == [exists |-> TRUE, place |-> 1, local |-> 1, updated |-> FALSE]
NoBody == [NewBody EXCEPT !.exists = FALSE]

\* Entities.Create, RenderNodes.Create and Integrator.Create, or the copies made by their Clone.
EntityAdded(e, parent, body, model) ==
    [parents  |-> Append(e.parents, parent), children |-> Append(e.children, <<>>),
     bodies   |-> Append(e.bodies, body),    models   |-> Append(e.models, model)]

\* SVirtualEntityManager::SetParent
EntityHanged(e, id, parent) ==
    LET old     == e.parents[id]
        without == [i \in DOMAIN e.children |->
                       IF i = old THEN SelectSeq(e.children[i], LAMBDA c : c # id) ELSE e.children[i]]
    IN  [e EXCEPT !.parents[id] = parent,
                  !.children = [i \in DOMAIN without |->
                      IF i = parent THEN Append(without[i], id) ELSE without[i]]]

EngineCalled == engineCalls < EngineCalls /\ engineCalls' = engineCalls + 1
EngineChanges(e) == EngineCalled /\ engine' = e /\ engineUpdated' = FALSE

\* CreateBox and its like, CreateLight; CreateCamera hangs a sphere from the camera.
EngineCreate(body) ==
    /\ EngineSize < EntitiesMax
    /\ EngineChanges(EntityAdded(engine, 0, body, <<>>))
EngineCreateCamera ==
    /\ EngineSize + 2 <= EntitiesMax
    /\ LET both == EntityAdded(EntityAdded(engine, 0, NewBody, <<>>), 0, NewBody, <<>>)
       IN  EngineChanges(EntityHanged(both, EngineSize + 2, EngineSize + 1))

\* Clone: the children are cloned in turn, each then moved from the source to the new entity.
BugEntityAdopts(e, parent, child) == [e EXCEPT !.children[parent] = Append(@, child)]
EntityAdopts(e, parent, child) ==
    [e EXCEPT !.parents[child] = parent, !.children[parent] = Append(@, child)]
RECURSIVE EntityCloned(_, _), EntityClonedChildren(_, _, _, _)
EntityCloned(e, source) ==
    EntityClonedChildren(EntityAdded(e, e.parents[source], e.bodies[source], e.models[source]),
                         source, Len(e.parents) + 1, 1)
EntityClonedChildren(e, source, clone, k) ==
    IF k > Len(e.children[source]) THEN e
    ELSE LET child == Len(e.parents) + 1
         IN  EntityClonedChildren(EntityAdopts(EntityCloned(e, e.children[source][k]), clone, child),
                                  source, clone, k + 1)

\* The programs clone an entity before they hang it from another one.
EngineClone(source) ==
    /\ engine.parents[source] = 0
    /\ LET cloned == EntityCloned(engine, source)
       IN  Len(cloned.parents) <= EntitiesMax /\ EngineChanges(cloned)

RECURSIVE EntityAbove(_, _)
EntityAbove(id, i) == i # 0 /\ (i = id \/ EntityAbove(id, engine.parents[i]))

\* No program hangs an entity from one of its own descendants.
EngineSetParent(id, parent) ==
    /\ ~EntityAbove(id, parent)
    /\ EngineChanges(EntityHanged(engine, id, parent))

----------------------------------------------------------------------------
\* Bodies

\* SetPosition and SetOrientation do nothing for the value the body has.
EngineSetPlace(id, place) ==
    /\ engine.bodies[id].exists /\ place # engine.bodies[id].place
    /\ EngineChanges([engine EXCEPT !.bodies[id].place = place, !.bodies[id].updated = FALSE])

BodyTransformed(b) == [b EXCEPT !.local = IF b.updated THEN @ ELSE b.place, !.updated = TRUE]

\* Integrate moves the bodies that are active: any, as the calls and their speed have left them.
BodyIntegrated(b) ==
    [BodyTransformed(b) EXCEPT !.place = (b.place % PlacesMax) + 1, !.updated = FALSE]

----------------------------------------------------------------------------
\* Update: the bodies, then the transforms from each root down

EntityModel(e, id) ==
    (IF e.bodies[id].exists THEN <<e.bodies[id].local>> ELSE <<>>)
    \o (IF e.parents[id] = 0 THEN <<>> ELSE e.models[e.parents[id]])

RECURSIVE EntityTransformed(_, _), EntityTransformedAll(_, _)
EntityTransformed(e, id) ==
    LET here == [e EXCEPT !.bodies[id] = IF @.exists THEN BodyTransformed(@) ELSE @]
    IN  EntityTransformedAll([here EXCEPT !.models[id] = EntityModel(here, id)], e.children[id])
EntityTransformedAll(e, ids) ==
    IF ids = <<>> THEN e
    ELSE EntityTransformedAll(EntityTransformed(e, Head(ids)), Tail(ids))

EngineUpdate(active) ==
    /\ EngineCalled
    /\ LET roots == SelectSeq([i \in 1..EngineSize |-> i], LAMBDA i : engine.parents[i] = 0)
           moved == [engine EXCEPT !.bodies =
                        [i \in DOMAIN @ |-> IF i \in active THEN BodyIntegrated(@[i]) ELSE @[i]]]
       IN  engine' = EntityTransformedAll(moved, roots)
    /\ engineUpdated' = TRUE

EngineNext ==
    \/ \E body \in {NewBody, NoBody} : EngineCreate(body)
    \/ EngineCreateCamera
    \/ \E id \in 1..EngineSize :
          \/ EngineClone(id)
          \/ \E parent \in 0..EngineSize : EngineSetParent(id, parent)
          \/ \E place \in 1..PlacesMax : EngineSetPlace(id, place)
    \/ \E active \in SUBSET {i \in 1..EngineSize : engine.bodies[i].exists} : EngineUpdate(active)

----------------------------------------------------------------------------
\* Properties

EngineTypeOK ==
    /\ DOMAIN engine = {"parents", "children", "bodies", "models"}
    /\ \A column \in DOMAIN engine : Len(engine[column]) = EngineSize
    /\ EngineSize <= EntitiesMax
    /\ \A i \in 1..EngineSize : engine.parents[i] \in 0..EngineSize

\* The two records of the tree agree, clones included, and after an update every node stands
\* where its body is, seen from where the node of its parent stands: nothing lags behind.
EntitiesFollowTheirParents ==
    /\ \A i, j \in 1..EngineSize :
           Cardinality({k \in DOMAIN engine.children[i] : engine.children[i][k] = j})
               = (IF engine.parents[j] = i THEN 1 ELSE 0)
    /\ engineUpdated => \A i \in 1..EngineSize :
           LET place == IF engine.bodies[i].exists THEN <<engine.bodies[i].place>> ELSE <<>>
               above == IF engine.parents[i] = 0 THEN <<>> ELSE engine.models[engine.parents[i]]
           IN  engine.models[i] = place \o above
=============================================================================
