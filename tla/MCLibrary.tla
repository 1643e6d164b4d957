----------------------------- MODULE MCLibrary -----------------------------
(***************************************************************************)
(* The parts of the library and of the applications that do not interact   *)
(* with the UDP and brt modules nor with each other: every behaviour is    *)
(* one of one part, chosen at the start, the others staying as they are.   *)
(***************************************************************************)
EXTENDS AppRuntime, DryerProgram, DryerSerial, GuiDialog, GuiLayout, EngineEntities, EngineWeapons,
        JsonReader, PathNames, Codecs, ArrayCircular,
        PayloadFormat, Expressions, XmlReader, PngImages, Geometry,
        Storage, Aes, GridCopy, Raster,
        EngineScene

VARIABLE part

MCParts == {"app", "program", "serial", "gui", "entities", "weapons",
            "json", "path", "codecs", "view", "pod", "ring", "packing", "interning", "expressions", "xml", "png", "geometry", "voxels",
            "shared", "aes", "files", "secure", "grid", "raster", "line",
            "scene", "dialog", "layout"}

libraryVars == <<part, appVars, dryerVars, serialVars, dialogVars, engineVars, shotsVars,
                 jsonVars, pathText, codecMessage, streamVars, podVars, ringVars,
                 formatQueue, internVars, exprVars, xmlVars, pngVars, geoEntities, voxelVars,
                 sharedVars, aesVars, filesVars, secureVars, gridCall, rasterVars, lineVars,
                 sceneVars, layoutVars>>

MCScalar == [type |-> "INTEGER", text |-> <<"1", "1">>]
MCScalars ==
    {MCScalar, [type |-> "NULL", text |-> <<"null">>],
     [type |-> "STRING", text |-> <<"\\", "\"", " ", "]", "\\", "u", "1", "1", "1", "1">>]}
MCKeys == <<<<"a">>, <<"\\", "\"">>>>
MCPrimes == <<17, 19>>
MCViews == {<<>>, <<7>>, <<255, 1>>, [i \in 1..63 |-> 2], [i \in 1..64 |-> 3]}
MCChains == {<<"a", "b">>, <<"c", "b", "a">>}
MCValue == CHOOSE v \in RingValues : TRUE
MCTexts == {<<>>, <<"a">>, <<"b">>, <<"a", "b">>, <<"a", Nul, "b">>, <<"b", "b", "a">>, <<"a", "a", "b", "b", "a">>}
MCNode(type, text) == [type |-> type, text |-> text, children |-> <<>>]
MCJson ==
    LET list == [type |-> "ARRAY", text |-> <<"list">>,
                 children |-> <<[key |-> <<>>, of |-> MCNode("STRING", <<"x">>)], [key |-> <<>>, of |-> MCNode("BOOLEAN", <<"true">>)]>>]
        object == [type |-> "OBJECT", text |-> <<"object">>,
                   children |-> <<[key |-> <<"a">>, of |-> MCNode("INTEGER", <<"1">>)], [key |-> <<"c">>, of |-> list]>>]
    IN  [type |-> "OBJECT", text |-> <<"root">>,
         children |-> <<[key |-> <<"a">>, of |-> object], [key |-> <<"b">>, of |-> MCNode("NULL", <<"null">>)],
                        [key |-> <<"c">>, of |-> list]>>]
MCKey(k) == [op |-> "key", key |-> <<k>>]
MCPath(steps) == [op |-> "path", steps |-> steps]
MCLiteral(t) == [op |-> "literal", text |-> <<t>>]
MCNull == MCPath(<<MCKey("b")>>)
MCChain == [op |-> "chain", first |-> MCNull, rest |-> <<[operator |-> "||", of |-> MCPath(<<MCKey("c"), MCLiteral("0")>>)]>>]
MCExprBranches == {[op |-> "not", of |-> MCNull], MCLiteral("x")}
MCExprTerms == {MCPath(<<MCKey("c"), MCPath(<<MCKey("a"), MCKey("a")>>)>>), MCLiteral("x"), [op |-> "not", of |-> MCNull],
   [op |-> "group", of |-> MCChain]}
MCExprNodes == {<<>>, <<1>>}
MCXmlLeaf(name, attributes, space, empty, inside) ==
    [type |-> "element", name |-> name, attributes |-> attributes, space |-> space, empty |-> empty, inside |-> inside]
MCXmlLeaves == {MCXmlLeaf("b", 0, FALSE, TRUE, <<>>), MCXmlLeaf("b", 0, TRUE, TRUE, <<>>), MCXmlLeaf("b", 1, FALSE, TRUE, <<>>),
   MCXmlLeaf("b", 0, FALSE, FALSE, <<>>), MCXmlLeaf("b", 1, FALSE, FALSE, <<XmlCharacters>>), MCXmlLeaf("b", 0, FALSE, FALSE, <<XmlCharacters>>)}
MCPicture(w, h, type, depth, interlaced, filters, pieces) ==
    [width |-> w, height |-> h, type |-> type, depth |-> depth, interlaced |-> interlaced, filters |-> filters, pieces |-> pieces]
MCPngFormats == {<<0, 1>>, <<0, 2>>, <<0, 4>>, <<0, 8>>, <<0, 16>>, <<3, 2>>, <<3, 4>>, <<3, 8>>, <<2, 8>>, <<2, 16>>,
                 <<4, 8>>, <<4, 16>>, <<6, 8>>, <<6, 16>>}
MCPngPictures ==
    {MCPicture(2, 3, 2, 8, FALSE, <<f, g, h>>, 1) : f \in 0..4, g \in 0..4, h \in 0..4}
    \cup {MCPicture(3, 3, f[1], f[2], FALSE, <<4, 3, 2>>, 2) : f \in MCPngFormats}
    \cup {MCPicture(w, h, 0, 8, TRUE, <<4, 3>>, 1) : w \in 5..9, h \in 5..9}
    \cup {MCPicture(9, 3, 0, 1, FALSE, <<1, 4>>, 1), MCPicture(9, 6, 3, 2, TRUE, <<4, 3>>, 3), MCPicture(5, 10, 6, 8, TRUE, <<2, 4>>, 2)}
MCGeoShape(slices, rows, reverse, turned) == [slices |-> slices, rows |-> rows, reverse |-> reverse, turned |-> turned]
MCGeoParams == {MCGeoShape(3, 1, FALSE, FALSE), MCGeoShape(4, 2, FALSE, FALSE), MCGeoShape(4, 3, TRUE, FALSE), MCGeoShape(3, 1, FALSE, TRUE)}
MCVoxelPlaces == {<<1, 1, 1>>, <<1, 2, 1>>, <<2, 1, 1>>, <<2, 2, 2>>, <<0, 1, 1>>}
MCVoxelPalette == <<TRUE, TRUE, FALSE, TRUE>>
MCAesBuffers == {<<16>>, [k \in 1..16 |-> (37 * k) % 256], [k \in 1..32 |-> (13 * k) % 256]}
MCAesKeys == {[k \in 1..32 |-> (91 * k) % 256]}
MCAesIvs == {[k \in 1..16 |-> IF k > 3 THEN 255 ELSE k]}
MCFileContents == {<<"a">>, <<"b", "a", "b">>}
MCSecureContents == {<<>>, <<<<"a">>>>, <<SecureZero, <<"a">>>>, <<<<"a">>, <<"b">>, <<"a">>>>}
MCGridTarget == <<3, 2>>
MCGridSource == <<3, 3>>
MCGridOpaque == {<<0, 0>>, <<1, 0>>, <<2, 1>>, <<1, 2>>}
MCGridOffsets == ((-4)..4) \X ((-4)..4)
MCGridFrom == ((-1)..2) \X ((-1)..1)
MCGridSizes == {<<0, 1>>, <<1, 2>>, <<3, 3>>, <<4, 1>>}
MCScreen == <<4, 3>>
MCPoints == {<<0, 0>>, <<-2, -1>>, <<3, 2>>, <<1, 2>>, <<2, 0>>, <<6, 1>>, <<-1, 4>>, <<1, 1>>}
MCTriangle(a, b, c, depths, colour) == [corners |-> <<a, b, c>>, depths |-> depths, colour |-> colour]
MCTriangles ==
    {MCTriangle(<<0, 0>>, <<4, 0>>, <<0, 4>>, <<4, 4, 4>>, 1), MCTriangle(<<-1, -1>>, <<7, 0>>, <<1, 4>>, <<-2, 9, 4>>, 2),
     MCTriangle(<<-3, 3>>, <<2, -2>>, <<5, 1>>, <<1, 7, 3>>, 3), MCTriangle(<<0, 0>>, <<3, 0>>, <<0, 3>>, <<0, 5, 3>>, 4),
     MCTriangle(<<4, 0>>, <<9, 0>>, <<6, 5>>, <<3, 3, 3>>, 5)}
MCSceneMesh(positions, indices) == [positions |-> positions, indices |-> indices]
MCSceneGeometry == [small |-> MCSceneMesh(3, <<0, 1, 2>>), middle |-> MCSceneMesh(9, <<1, 8, 2>>), large |-> MCSceneMesh(20, <<19, 7, 0>>)]
MCTuners == {[min |-> 100, max |-> 102]}
MCSliders ==
    {[min |-> 0, max |-> 7, start |-> 4, track |-> 8, handle |-> 3], [min |-> 0, max |-> 3, start |-> 2, track |-> 9, handle |-> 2],
     [min |-> -12, max |-> 12, start |-> -1, track |-> 6, handle |-> 2]}
MCControl(parent, chars, x, y) == [parent |-> parent, chars |-> chars, x |-> x, y |-> y]
MCPlaced(at, size, border, align) == LayoutAxis(at, size, border, align, LayoutNone, FALSE, LayoutNone, LayoutNone)
MCFills(c, border) == LayoutAxis(0, 1, border, "near", c, FALSE, LayoutNone, LayoutNone)
MCScreenLayout == MCControl(LayoutNone, 0, MCFills(1, 0), MCFills(1, 0))
MCExit(text, attach) == LayoutAxis(0, 9, 2, "far", attach, text, LayoutNone, LayoutNone)
MCMove(c, axis, field, value, told) == [control |-> c, axis |-> axis, field |-> field, value |-> value, told |-> told]
MCLayoutProgram(controls, moves, texts) == [controls |-> controls, moves |-> moves, texts |-> texts]
\* A list in a group, the button of brt, that of gme, a slider, a viewport of a dialog, a viewport of the GUI.
MCListOf(direction) ==
    LET group == MCControl(1, 0, MCPlaced(1, 14, 1, "near"), MCPlaced(1, 14, 1, "far"))
    IN  MCLayoutProgram(<<MCScreenLayout, group>> \o LayoutListed(direction, 2, 3, 2, 1, 4, 1, "near", 1),
                        {}, IF direction = "none" THEN {} ELSE {3})
MCLayoutPrograms ==
    {MCListOf(d) : d \in {"left", "right", "up", "down", "none"}} \cup
    {MCLayoutProgram(<<MCControl(LayoutNone, 4, MCExit(TRUE, LayoutNone), MCExit(TRUE, LayoutNone))>>, {}, {1}),
     MCLayoutProgram(<<MCControl(LayoutNone, 4, MCExit(FALSE, 1), MCExit(FALSE, LayoutNone))>>, {}, {}),
     MCLayoutProgram(<<MCScreenLayout, MCControl(1, 2, MCPlaced(2, 12, 1, "center"), MCPlaced(1, 5, 1, "center")),
                       MCControl(2, 1, MCPlaced(0, 4, 2, "near"), MCFills(3, 2))>>,
                     {MCMove(3, "x", "at", v, 2) : v \in {0, 6}}, {2}),
     MCLayoutProgram(<<MCScreenLayout, MCControl(1, 0, MCPlaced(3, 12, 1, "near"), MCPlaced(2, 14, 1, "near")),
                       MCControl(2, 0, MCFills(3, 1), MCPlaced(5, 2, 1, "near")), MCControl(2, 2, MCFills(4, 1), MCPlaced(0, 4, 1, "near"))>>,
                     {MCMove(2, "y", "size", v, 1) : v \in {14, 6}} \cup {MCMove(2, "x", "at", 0, 2)}, {}),
     MCLayoutProgram(<<MCControl(LayoutNone, 0, MCPlaced(0, 20, 1, "near"), MCPlaced(0, 20, 1, "near")),
                       MCControl(1, 1, MCPlaced(0, 5, 1, "far"), MCPlaced(0, 5, 1, "near")),
                       MCControl(1, 3, LayoutAxis(5, 16, 1, "far", 3, FALSE, 2, LayoutNone), MCPlaced(0, 5, 1, "near")),
                       MCControl(1, 0, MCPlaced(0, 12, 0, "near"), LayoutAxis(0, 9, 0, "near", LayoutNone, FALSE, 3, LayoutNone))>>,
                     {MCMove(1, "x", "at", v, 1) : v \in {0, 2}}, {3})}
MCLayoutSizes == {[x |-> 20, y |-> 16], [x |-> 31, y |-> 25]}
MCNames == {<<>>, <<"a", "a", "a", "a">>}
MCPrograms == {[preheating |-> 2, drying |-> 3, subcycles |-> 2], [preheating |-> 0, drying |-> 1, subcycles |-> 0]}

\* The part chosen starts in any of its initial states, the others in one of theirs.
LibraryInit ==
    /\ part \in MCParts
    /\ AppInit /\ (part = "app" \/ appShares)
    /\ IF part = "json" THEN JsonInit ELSE jsonDocument = MCScalar /\ jsonText = MCScalar.text /\ jsonReader = JsonReset
    /\ IF part = "expressions" THEN ExprInit
       ELSE exprAsked = [of |-> MCNull, at |-> <<>>] /\ exprText = <<>> /\ exprReader = ExprReset
    /\ IF part = "xml" THEN XmlInit ELSE xmlDocument = XmlCharacters /\ xmlText = <<>> /\ xmlReader = XmlReset
    /\ IF part = "png" THEN PngInit ELSE pngPicture = MCPicture(9, 3, 0, 1, FALSE, <<1, 4>>, 1) /\ pngFile = <<>> /\ pngData = PngReset
    /\ DryerInit /\ (part = "program" \/ dryer.program.preheating = 0) /\ SerialInit /\ EngineInit /\ ShotsInit
    /\ PathInit /\ CodecInit /\ StreamInit /\ PodInit /\ FormatInit /\ InternInit /\ GeoInit /\ VoxelInit
    /\ SharedInit /\ FilesInit /\ SecureInit /\ GridInit
    /\ IF part = "raster" THEN RasterInit ELSE raster = RasterNoShape /\ rasterDrawn = <<>> /\ rasterShape = RasterNoShape
    /\ SceneInit /\ (part = "scene" \/ sceneFile = <<>>)
    /\ IF part = "dialog" THEN \E kind \in DialogKinds : DialogInit(kind)
       ELSE GuiInit /\ dialogKind = "input" /\ dialogPointer = 1 /\ dialogValue = 0 /\ dialogSlider = DialogNoSlider
            /\ dialogView = DialogNoView /\ dialogMoved = FALSE /\ dialogInput = <<>>
    /\ IF part = "layout" THEN LayoutInit
       ELSE /\ layoutProgram = MCLayoutProgram(<<>>, {}, {}) /\ layoutTable = <<>> /\ layoutAreas = <<>> /\ layoutUpdated = {}
            /\ layoutZoom = 1 /\ layoutWindow = LayoutNoSize /\ layoutLast = [size |-> LayoutNoSize, zoom |-> 1]
            /\ layoutUntold = {} /\ layoutDrawn = FALSE
    /\ IF part = "line" THEN LineInit
       ELSE lineKind = "pixels" /\ lineA = <<0, 0>> /\ lineB = lineA /\ lineAt = lineA /\ lineErr = 0 /\ linePixels = <<>>
    /\ IF part = "aes" THEN AesInit
       ELSE aesKey = <<>> /\ aesSender = <<>> /\ aesReceiver = <<>> /\ aesPlain = <<>> /\ aesRead = <<>>
    /\ RingInit /\ (part = "ring" \/ \A i \in RingSlots : ringStorage[i] = ringOutput /\ ringOutput = MCValue)

Turn(name, next, vars) == IF part = name THEN next ELSE UNCHANGED vars

\* The parts with the most steps to choose from come last, when what the others keep is settled.
LibraryNext ==
    /\ UNCHANGED part
    /\ Turn("app", AppNext, appVars)
    /\ Turn("program", DryerNext, dryerVars)
    /\ Turn("entities", EngineNext, engineVars)
    /\ Turn("path", PathNext, pathText)
    /\ Turn("codecs", CodecNext, codecMessage)
    /\ Turn("view", StreamNext, streamVars)
    /\ Turn("ring", RingNext, ringVars)
    /\ Turn("packing", FormatNext, formatQueue)
    /\ Turn("interning", InternNext, internVars)
    /\ Turn("expressions", ExprNext, exprVars)
    /\ Turn("xml", XmlParse, xmlVars)
    /\ Turn("png", PngNext, pngVars)
    /\ Turn("geometry", GeoNext, geoEntities)
    /\ Turn("aes", AesNext, aesVars)
    /\ Turn("secure", SecureNext, secureVars)
    /\ Turn("grid", GridNext, gridCall)
    /\ Turn("line", LineNext, lineVars)
    /\ Turn("raster", RasterNext, rasterVars)
    /\ Turn("layout", LayoutNext, layoutVars)
    /\ Turn("json", JsonNext, jsonVars)
    /\ Turn("scene", SceneNext, sceneVars)
    /\ Turn("weapons", ShotsNext, shotsVars)
    /\ Turn("voxels", VoxelSet, voxelVars)
    /\ Turn("serial", SerialNext, serialVars)
    /\ Turn("files", FilesNext, filesVars)
    /\ Turn("pod", PodNext, podVars)
    /\ Turn("shared", SharedNext, sharedVars)
    /\ IF part = "gui" THEN GuiNext /\ UNCHANGED dialogOwnVars ELSE Turn("dialog", DialogNext, dialogVars)

LibraryFairness ==
    /\ WF_appVars(part = "app" /\ AppMainStep) /\ WF_appVars(part = "app" /\ AppRenderStep)
    /\ WF_serialVars(part = "serial" /\ SerialThread) /\ WF_serialVars(part = "serial" /\ DeviceExecutes)
LibrarySpec == LibraryInit /\ [][LibraryNext]_libraryVars /\ LibraryFairness

----------------------------------------------------------------------------

\* The state of the part that runs is of its type; above all the cursors of the ring stay in its storage.
LibraryTypeOK ==
    CASE part = "app" -> AppTypeOK           [] part = "program" -> DryerTypeOK
      [] part = "serial" -> SerialTypeOK     [] part = "gui" -> GuiTypeOK
      [] part = "entities" -> EngineTypeOK   [] part = "weapons" -> ShotsTypeOK
      [] part = "json" -> JsonTypeOK         [] part = "path" -> PathTypeOK
      [] part = "codecs" -> CodecTypeOK      [] part = "view" -> StreamTypeOK
      [] part = "pod" -> PodTypeOK           [] part = "ring" -> RingTypeOK
      [] part = "packing" -> FormatTypeOK    [] part = "interning" -> InternTypeOK
      [] part = "expressions" -> ExprTypeOK  [] part = "xml" -> XmlTypeOK
      [] part = "png" -> PngTypeOK           [] part = "geometry" -> GeoTypeOK
      [] part = "voxels" -> VoxelTypeOK      [] part = "shared" -> SharedTypeOK
      [] part = "aes" -> AesTypeOK           [] part = "files" -> FilesTypeOK
      [] part = "secure" -> SecureTypeOK     [] part = "grid" -> GridTypeOK
      [] part = "raster" -> RasterTypeOK     [] part = "line" -> LineTypeOK
      [] part = "scene" -> SceneTypeOK       [] part = "dialog" -> DialogTypeOK
      [] part = "layout" -> LayoutTypeOK

\* The tree and the flags of the controls agree, whatever is created, moved and deleted; what a
\* dialog shows is what it holds, and folding it loses nothing; and controls lie where they should,
\* whatever has been moved, resized and zoomed.
ControlsAgree ==
    /\ part = "gui" => GuiControlsAgree
    /\ part = "dialog" => DialogFoldingKeepsSize /\ DialogShowsWhatIsTyped
    /\ part = "layout" => LayoutIsFresh /\ LayoutDocksMeet

\* A control acts only when it was hovered, pressed and let go, and what it stands for changes with it.
ActionsAreEarned == GuiActionIsEarned /\ DialogFollowsThePointer

\* Texts are read, to their end and without error, as what they were written from: JSON documents,
\* expressions on them, XML elements.
DocumentsAreRead ==
    /\ part = "json" => JsonReadsWhatIsWritten
    /\ part = "expressions" => ExpressionsMeanWhatTheySay
    /\ part = "xml" => XmlReadsElements

\* What is written is what is read: of a path whatever its form, of bytes whatever their encoding, of
\* messages whatever they are packed with, of pictures whatever their filters, of voxels whatever their
\* chunk, of messages that are encrypted, of the part of a grid that lies on another.
DataAreKept ==
    /\ part = "path" => PathsLeadToOnePlace
    /\ part = "codecs" => EncodingsRoundTrip
    /\ part = "packing" => PackedIsUnpacked
    /\ part = "png" => PngReadsPictures
    /\ part = "voxels" => VoxelsAreListed
    /\ part = "aes" => AesStaysInStep /\ AesRoundTrips /\ AesIsAes
    /\ part = "grid" => GridCopiesOverlap

\* Shots and entities: the arrays that hold them stay aligned while they are walked and changed.
\* Meshes: what is built has no hole and no index astray, and is shown where it was asked for.
\* Scenes: a node has the look and the lights asked for, through what it shares with its clones.
\* Pixels: the nearest triangle is the one that shows, whoever drew it; shapes and lines reach their ends.
EngineKeepsUp ==
    /\ part = "weapons" => ShotsLiveTheirTime /\ ShotsRest
    /\ part = "entities" => EntitiesFollowTheirParents
    /\ part = "geometry" => GeoMeshesAreWhole /\ GeoEntitiesShowTheirShape
    /\ part = "voxels" => VoxelModelIsClosed
    /\ part = "raster" => RasterShowsTheNearest /\ RasterShapesAreWhole
    /\ part = "line" => LineStays /\ LineIsDrawn
    /\ part = "scene" => SceneShows /\ SceneIsLit
=============================================================================
