---------------------------- MODULE EngineScene -----------------------------
(***************************************************************************)
(* The scene of an engine (gpk_engine/gpk_engine_scene.h and .cpp,         *)
(* gpk_engine_render*.h, llc/gpk_linear_map_pobj.h) and the calls of       *)
(* SEngine that make and change it.  What a node looks like is four arrays *)
(* away: its mesh lists buffers, its skin lists surfaces, its shader and   *)
(* its lights are counted objects that clones may share.  Elements are     *)
(* numbered from 1 and 0 is the -1 of the code.  The k-th entity has the   *)
(* k-th node (EngineEntities has the rest of an entity); names, slices,    *)
(* cameras and fonts are left out, and a list of lights that was allocated *)
(* for the k-th node is the k-th of "lists".                               *)
(*                                                                         *)
(* No program deletes a node, or creates one without a skin.               *)
(***************************************************************************)
EXTENDS Integers, Sequences, FiniteSets
LOCAL INSTANCE SequencesExt

CONSTANTS
    SceneGeometry, \* the meshes there are: for each parameters, their positions and indices
    SceneBase,     \* values of a byte
    SceneNodesMax, \* bound: nodes
    SceneCalls     \* bound: calls

SceneParams == DOMAIN SceneGeometry

ASSUME SceneAssumption ==
    /\ SceneBase \in Nat \ {0, 1} /\ {SceneNodesMax, SceneCalls} \subseteq Nat
    /\ \A p \in SceneParams : /\ SceneGeometry[p].positions \in 1..(SceneBase ^ 4)
                              /\ SceneGeometry[p].indices \in Seq(0..(SceneGeometry[p].positions - 1))

VARIABLES
    scene,      \* the columns of the nodes, the managers, and the nodes known by their parameters
    sceneFile,  \* what was saved, and what it is of: none or one
    sceneMeant, \* history: what the callers asked of each node
    sceneStale, \* history: parameters known before a scene was loaded, and whether one was
    sceneFails, \* history: an array was indexed beyond its end
    sceneCalls  \* history: calls so far

sceneVars == <<scene, sceneFile, sceneMeant, sceneStale, sceneFails, sceneCalls>>

SceneLights == {"point", "spot"}

SceneEmpty ==
    [nodes |-> <<>>, hidden |-> <<>>, lists |-> <<>>, lit |-> [k \in SceneLights |-> 0],
     buffers |-> <<>>, meshes |-> <<>>, skins |-> <<>>, surfaces |-> <<>>, shaders |-> <<>>,
     known |-> [p \in SceneParams |-> 0]]

----------------------------------------------------------------------------
\* Buffers: as narrow as the number of positions allows

SceneWidth(positions) ==
    IF positions > SceneBase ^ 2 - 1 THEN 4 ELSE IF positions > SceneBase - 1 THEN 2 ELSE 1

BugSceneStored(g, width) ==
    [k \in 1..(width * Len(g.indices)) |->
        IF width = 2 /\ k % 2 = 0 THEN 0
        ELSE (g.indices[((k - 1) \div width) + 1] \div (SceneBase ^ ((k - 1) % width))) % SceneBase]
SceneStored(g, width) ==
    [k \in 1..(width * Len(g.indices)) |->
        (g.indices[((k - 1) \div width) + 1] \div (SceneBase ^ ((k - 1) % width))) % SceneBase]

SceneBuffers(p) ==
    LET width == SceneWidth(SceneGeometry[p].positions)
    IN  <<[of |-> p, width |-> width, data |-> SceneStored(SceneGeometry[p], width)]>>
        \o [usage \in 1..3 |-> [of |-> p, width |-> 0, data |-> <<>>]]

\* The views that are drawn from.  Indices of four bytes are counted as if they had two: -1 is one that
\* is read from beyond the buffer.
SceneIndices(buffer) ==
    LET count == Len(buffer.data) \div (IF buffer.width = 4 THEN 2 ELSE buffer.width)
        read(k) == IF k * buffer.width > Len(buffer.data) THEN -1
                   ELSE FoldRight(LAMBDA byte, value : value * SceneBase + byte,
                                  SubSeq(buffer.data, (k - 1) * buffer.width + 1, k * buffer.width), 0)
    IN  [k \in 1..(3 * (count \div 3)) |-> read(k)]

----------------------------------------------------------------------------
\* Nodes

SceneNoNode == [mesh |-> 0, skin |-> 0, shader |-> 0, lights |-> 0]

SceneNodeAdded(s, node, hidden, list) ==
    [s EXCEPT !.nodes = Append(@, node), !.hidden = Append(@, hidden), !.lists = Append(@, list)]

\* CreateRenderNode
SceneNodeCreated(s, p) ==
    LET filled == [s EXCEPT !.buffers = @ \o SceneBuffers(p),
                            !.meshes = Append(@, [i \in 1..4 |-> Len(s.buffers) + i]),
                            !.skins = Append(@, [color |-> "grey", textures |-> <<Len(s.surfaces) + 1>>]),
                            !.surfaces = Append(@, "plain"),
                            !.shaders = Append(@, "solid")]
    IN  SceneNodeAdded(filled, [mesh |-> Len(filled.meshes), skin |-> Len(filled.skins),
                                shader |-> Len(filled.shaders), lights |-> 0], FALSE, <<>>)

BugSceneSkinCloned(s, skin, surfacesToo) ==
    LET old == s.skins[skin].textures
    IN  [s EXCEPT !.skins = Append(@, [s.skins[skin] EXCEPT !.textures =
                                IF surfacesToo THEN [i \in DOMAIN old |-> Len(s.surfaces) + i - 1] ELSE old]),
                  !.surfaces = @ \o (IF surfacesToo THEN [i \in DOMAIN old |-> s.surfaces[old[i]]] ELSE <<>>)]
SceneSkinCloned(s, skin, surfacesToo) ==
    LET old == s.skins[skin].textures
    IN  [s EXCEPT !.skins = Append(@, [s.skins[skin] EXCEPT !.textures =
                                IF surfacesToo THEN [i \in DOMAIN old |-> Len(s.surfaces) + i] ELSE old]),
                  !.surfaces = @ \o (IF surfacesToo THEN [i \in DOMAIN old |-> s.surfaces[old[i]]] ELSE <<>>)]

\* SEngineScene::Clone.  The list of lights is the same object, if there is one.
SceneNodeCloned(s, n, skin, surfaces, shader) ==
    LET node == s.nodes[n]
        ownShader == shader /\ node.shader \in DOMAIN s.shaders
        ownSkin == skin /\ node.skin \in DOMAIN s.skins
        shaded == IF ownShader THEN [s EXCEPT !.shaders = Append(@, s.shaders[node.shader])] ELSE s
        dressed == IF ownSkin THEN SceneSkinCloned(shaded, node.skin, surfaces) ELSE shaded
    IN  SceneNodeAdded(dressed, [node EXCEPT !.shader = IF ownShader THEN Len(dressed.shaders) ELSE @,
                                             !.skin = IF ownSkin THEN Len(dressed.skins) ELSE @],
                       s.hidden[n], <<>>)

----------------------------------------------------------------------------
\* What is asked of a node: skinOf and shaderOf name the node whose skin and shader it wears; a node is sure
\* if it was made of what its parameters led to, and lists its lights alone if no other node does.

SceneAsked(p, k) ==
    [asked |-> p, color |-> "grey", picture |-> "plain", shader |-> "solid", hidden |-> FALSE,
     lights |-> <<>>, skinOf |-> k, shaderOf |-> k, sure |-> TRUE, alone |-> TRUE]

SceneCalled == sceneCalls < SceneCalls /\ ~sceneFails /\ sceneCalls' = sceneCalls + 1
SceneBecomes(s, meant) ==
    /\ scene' = s /\ sceneMeant' = meant
    /\ UNCHANGED <<sceneFile, sceneStale, sceneFails>>
SceneFailing == sceneFails' = TRUE /\ UNCHANGED <<scene, sceneFile, sceneMeant, sceneStale>>

SceneSize == Len(scene.nodes)

\* CreateEntityFromGeometry: a node with the same parameters is cloned as it is by now.
SceneCreate(p) ==
    LET k == SceneSize + 1
        source == scene.known[p]
    IN  /\ SceneCalled /\ k <= SceneNodesMax
        /\ CASE source = 0 ->
                    SceneBecomes([SceneNodeCreated(scene, p) EXCEPT !.known[p] = k], Append(sceneMeant, SceneAsked(p, k)))
             [] source > SceneSize -> SceneFailing
             [] source \in 1..SceneSize ->
                    SceneBecomes(SceneNodeCloned(scene, source, TRUE, TRUE, TRUE),
                        Append(sceneMeant,
                            [sceneMeant[source] EXCEPT
                                !.asked = p, !.skinOf = k, !.shaderOf = k,
                                !.sure = @ /\ (sceneMeant[source].asked = p \/ p \notin sceneStale.params)]))

\* SEngine::CreateLight
SceneCreateLight(kind) ==
    LET k == SceneSize + 1
        light == <<[kind |-> kind, index |-> scene.lit[kind] + 1]>>
    IN  /\ SceneCalled /\ k <= SceneNodesMax
        /\ SceneBecomes([SceneNodeAdded(scene, [SceneNoNode EXCEPT !.lights = k], FALSE, light) EXCEPT !.lit[kind] = @ + 1],
                        Append(sceneMeant, [SceneAsked("none", k) EXCEPT !.lights = light]))

\* Programs clone all, the skin alone, or share all.
SceneClone(n, skin, all) ==
    LET k == SceneSize + 1
    IN  /\ SceneCalled /\ k <= SceneNodesMax
        /\ all => skin
        /\ SceneBecomes(SceneNodeCloned(scene, n, skin, all, all),
                        Append(sceneMeant, [sceneMeant[n] EXCEPT !.skinOf = IF skin THEN k ELSE @,
                                                                 !.shaderOf = IF all THEN k ELSE @]))

\* The calls below are made of what has a mesh, as far as its creator knows.
SceneIsShape(n) == sceneMeant[n].asked # "none"
SceneDressed(n, m) == sceneMeant[m].skinOf = sceneMeant[n].skinOf

SceneSetColorDiffuse(n) ==
    /\ SceneCalled /\ SceneIsShape(n)
    /\ LET skin == scene.nodes[n].skin
       IN  IF skin \notin DOMAIN scene.skins THEN SceneFailing
           ELSE SceneBecomes([scene EXCEPT !.skins[skin].color = "red"],
                             [m \in DOMAIN sceneMeant |->
                                 IF SceneDressed(n, m) THEN [sceneMeant[m] EXCEPT !.color = "red"] ELSE sceneMeant[m]])

SceneSetShader(n) ==
    /\ SceneCalled /\ SceneIsShape(n)
    /\ LET shader == scene.nodes[n].shader
       IN  IF shader \notin DOMAIN scene.shaders THEN SceneFailing
           ELSE SceneBecomes([scene EXCEPT !.shaders[shader] = "grid"],
                             [m \in DOMAIN sceneMeant |->
                                 IF sceneMeant[m].shaderOf = sceneMeant[n].shaderOf
                                 THEN [sceneMeant[m] EXCEPT !.shader = "grid"] ELSE sceneMeant[m]])

\* CreateImageFromFile, and the insertion of the image into the textures of a skin.  The surface is there whether
\* the file is or not; it is never found again by its path.
SceneSetImage(n, found) ==
    /\ SceneCalled /\ SceneIsShape(n)
    /\ LET skin == scene.nodes[n].skin
           added == [scene EXCEPT !.surfaces = Append(@, IF found THEN "image" ELSE "blank")]
       IN  IF skin \notin DOMAIN scene.skins THEN SceneFailing
           ELSE IF ~found THEN SceneBecomes(added, sceneMeant)
           ELSE SceneBecomes([added EXCEPT !.skins[skin].textures = <<Len(added.surfaces)>> \o @],
                             [m \in DOMAIN sceneMeant |->
                                 IF SceneDressed(n, m) THEN [sceneMeant[m] EXCEPT !.picture = "image"] ELSE sceneMeant[m]])

SceneToggleHidden(n) ==
    /\ SceneCalled
    /\ SceneBecomes([scene EXCEPT !.hidden[n] = ~@], [sceneMeant EXCEPT ![n].hidden = ~@])

----------------------------------------------------------------------------
\* Save and Load: all but the shaders; what is known by its parameters stays as it is

SceneListed(s, n) == IF s.nodes[n].lights = 0 THEN <<>> ELSE s.lists[s.nodes[n].lights]

SceneSave ==
    /\ SceneCalled
    /\ sceneFile' = <<[scene |-> [scene EXCEPT !.shaders = <<>>, !.known = SceneEmpty.known], meant |-> sceneMeant]>>
    /\ UNCHANGED <<scene, sceneMeant, sceneStale, sceneFails>>

\* The list a node loads its lights into: the one it has, which it may share.
SceneTarget(n) == IF n \in DOMAIN scene.nodes /\ scene.nodes[n].lights # 0 THEN scene.nodes[n].lights ELSE n

BugSceneLoaded(file) == [file EXCEPT !.shaders = scene.shaders, !.known = scene.known, !.buffers = scene.buffers \o @]
SceneLoaded(file) ==
    LET last(list) == {n \in DOMAIN file.nodes : /\ SceneTarget(n) = list
                                                 /\ \A m \in DOMAIN file.nodes : SceneTarget(m) = list => m <= n}
    IN  [file EXCEPT !.shaders = scene.shaders, !.known = scene.known,
                     !.nodes = [n \in DOMAIN file.nodes |-> [file.nodes[n] EXCEPT !.lights = SceneTarget(n)]],
                     !.lists = [list \in DOMAIN file.nodes |->
                                   IF last(list) = {} THEN <<>> ELSE SceneListed(file, CHOOSE n \in last(list) : TRUE)]]

SceneLoad ==
    /\ SceneCalled /\ sceneFile # <<>>
    /\ scene' = SceneLoaded(sceneFile[1].scene)
    /\ sceneMeant' = [n \in DOMAIN sceneFile[1].meant |->
           [sceneFile[1].meant[n] EXCEPT
               !.alone = \A m \in DOMAIN sceneFile[1].meant : SceneTarget(m) = SceneTarget(n) => m = n]]
    /\ sceneStale' = [params |-> {p \in SceneParams : scene.known[p] # 0}, loaded |-> TRUE]
    /\ UNCHANGED <<sceneFile, sceneFails>>

\* The file may be of an earlier run: a shape and a light, or nothing.
SceneEarlier ==
    LET lit == <<[kind |-> "spot", index |-> 1]>>
        shape(p) == [SceneNodeCreated(SceneEmpty, p) EXCEPT !.shaders = <<>>]
    IN  {<<>>} \cup
        {<<[scene |-> [SceneNodeAdded(shape(p), [SceneNoNode EXCEPT !.lights = 2], FALSE, lit) EXCEPT !.lit["spot"] = 1],
            meant |-> <<SceneAsked(p, 1), [SceneAsked("none", 2) EXCEPT !.lights = lit]>>]>> : p \in SceneParams}

SceneInit ==
    /\ scene = SceneEmpty
    /\ sceneFile \in SceneEarlier
    /\ sceneMeant = <<>>
    /\ sceneStale = [params |-> {}, loaded |-> FALSE]
    /\ sceneFails = FALSE
    /\ sceneCalls = 0

SceneNext ==
    \/ \E p \in SceneParams : SceneCreate(p)
    \/ \E kind \in SceneLights : SceneCreateLight(kind)
    \/ \E n \in DOMAIN scene.nodes :
          \/ \E skin, all \in BOOLEAN : SceneClone(n, skin, all)
          \/ SceneSetColorDiffuse(n)
          \/ SceneSetShader(n)
          \/ \E found \in BOOLEAN : SceneSetImage(n, found)
          \/ SceneToggleHidden(n)
    \/ SceneSave
    \/ SceneLoad

SceneSpec == SceneInit /\ [][SceneNext]_sceneVars

----------------------------------------------------------------------------
\* drawScene

\* The nodes drawn, in order: the first that is behind the camera ends it.
BugSceneDrawn(behind) ==
    SelectSeq([n \in DOMAIN scene.nodes |-> n], LAMBDA n :
        /\ ~scene.hidden[n] /\ scene.nodes[n].mesh # 0
        /\ \A m \in 1..n : m \notin behind)
SceneDrawn(behind) ==
    LET reaches(n) == ~scene.hidden[n] /\ scene.nodes[n].mesh # 0
    IN  SelectSeq([n \in DOMAIN scene.nodes |-> n], LAMBDA n :
            reaches(n) /\ ~\E m \in behind : m <= n /\ reaches(m))

\* What the shader is given of a node.
SceneLook(n) ==
    LET node == scene.nodes[n]
        mesh == scene.meshes[node.mesh]
        skin == scene.skins[node.skin]
    IN  [indices |-> SceneIndices(scene.buffers[mesh[1]]),
         vertices |-> {scene.buffers[mesh[i]].of : i \in 2..4},
         color |-> skin.color,
         picture |-> scene.surfaces[skin.textures[1]],
         shader |-> IF node.shader \in DOMAIN scene.shaders THEN scene.shaders[node.shader] ELSE "solid"]

----------------------------------------------------------------------------

SceneTypeOK ==
    /\ \A n \in DOMAIN scene.nodes : /\ scene.nodes[n].mesh \in 0..Len(scene.meshes)
                                     /\ scene.nodes[n].skin \in 0..Len(scene.skins)
                                     /\ scene.nodes[n].lights \in 0..n
                                     /\ scene.nodes[n].mesh # 0 => scene.nodes[n].skin # 0
    /\ \A i \in DOMAIN scene.skins : scene.skins[i].textures \in Seq(DOMAIN scene.surfaces) \ {<<>>}
    /\ \A i \in DOMAIN scene.meshes : scene.meshes[i] \in Seq(DOMAIN scene.buffers)
    /\ Len(scene.hidden) = SceneSize /\ Len(scene.lists) = SceneSize /\ Len(sceneMeant) = SceneSize
    /\ sceneStale \in [params : SUBSET SceneParams, loaded : BOOLEAN]
    /\ sceneFails \in BOOLEAN /\ sceneCalls \in 0..SceneCalls

\* A node shows what was asked of it and of the nodes it shares with, through all its clones and what was loaded, its
\* triangles are those of its geometry, and it is drawn when nothing before it is behind the camera.  Except: shaders are
\* not saved; what is made by parameters that were known before a scene was loaded may be any node of it, or none; indices
\* of four bytes are followed by as many from beyond their buffer.
SceneShows ==
    /\ sceneFails => sceneStale.loaded
    /\ \A n \in DOMAIN scene.nodes : sceneMeant[n].sure /\ SceneIsShape(n) =>
          LET look == SceneLook(n)
              meant == sceneMeant[n]
              wanted == SceneGeometry[meant.asked].indices
          IN  /\ SubSeq(look.indices, 1, Len(wanted)) = wanted
              /\ SceneGeometry[meant.asked].positions < SceneBase ^ 2 => Len(look.indices) = Len(wanted)
              /\ look.vertices = {meant.asked}
              /\ look.color = meant.color /\ look.picture = meant.picture
              /\ ~sceneStale.loaded => look.shader = meant.shader
    /\ (\A n \in DOMAIN scene.nodes : sceneMeant[n].sure) =>
          \A behind \in SUBSET DOMAIN scene.nodes :
             SceneDrawn(behind) =
                 SelectSeq([n \in DOMAIN scene.nodes |-> n], LAMBDA n :
                     LET asked(m) == SceneIsShape(m) /\ ~sceneMeant[m].hidden
                     IN  asked(n) /\ \A m \in 1..n : asked(m) => m \notin behind)

\* A node has the lights it was created with or loaded; one that shares its list with another when both load has those
\* of the last.  Each light has a record of its kind.
SceneIsLit ==
    \A n \in DOMAIN scene.nodes :
        LET list == SceneListed(scene, n)
        IN  /\ sceneMeant[n].alone /\ sceneMeant[n].sure => list = sceneMeant[n].lights
            /\ \A i \in DOMAIN list : list[i].index \in 1..scene.lit[list[i].kind]
=============================================================================
