SPECIFICATION LibrarySpec
CONSTANTS
    GuiSlots = 3
    GuiStyled = {1}
    GuiSelectable = {}
    JsonScalars <- MCScalars
    JsonKeys <- MCKeys
    JsonDepth = 2
    RingSize = 3
    RingValues = {a, b}
    ShotLifetime = 3
    ShotParticles = {0, 2}
    DelayLimit = 1
    OverheatLimit = 3
    OverheatPerShot = 2
    ShotsFrames = 6
    ShotsTicks = 2
    PathLetters = {"a"}
    PathLength = 6
    CodecBytes = {0, 97, 255}
    CodecSalts = {0, 200}
    CodecKeys = {0, 1079150697}
    CodecPrimes <- MCPrimes
    CodecPoints = {0, 127, 128, 2047, 2048, 65535, 65536, 1114111, 1114112}
    CodecLength = 3
    CodecLimit = 2
    StreamViews <- MCViews
    StreamLength = 2
    DryerPrograms <- MCPrograms
    DryerFrames = {0, 1, 2}
    DryerTags = 2
    SerialPending = 3
    EntitiesMax = 4
    PlacesMax = 2
    EngineCalls = 5
    PodValues = {"a", "b", "c"}
    PodChains <- MCChains
    PodLength = 5
    FormatSizes = {0, 2, 5, 7}
    FormatLimit = 12
    FormatWord = 6
    FormatLength = 3
    InternBlock = 4
    InternTexts <- MCTexts
    InternCalls = 4
    ExprDocument <- MCJson
    ExprTerms <- MCExprTerms
    ExprBranches <- MCExprBranches
    ExprNodes <- MCExprNodes
    ExprLength = 2
    XmlLeaves <- MCXmlLeaves
    XmlItems = 2
    PngPictures <- MCPngPictures
    GeoParams <- MCGeoParams
    GeoTurn = 12
    GeoDefaultSlices = 4
    GeoEntities = 2
    VoxelSpan = 4
    VoxelWidth = 2
    VoxelPlaces <- MCVoxelPlaces
    VoxelPalette <- MCVoxelPalette
    VoxelCalls = 4
    SharedThreads = {"t", "u"}
    SharedObjects = {"o", "p"}
    SharedPointers = 1
    SharedLength = 4
    AesBuffers <- MCAesBuffers
    AesKeys <- MCAesKeys
    AesIvs <- MCAesIvs
    AesCalls = 2
    FileContents <- MCFileContents
    FilePartSizes = {1, 2}
    FileParts = 3
    FileMax = 3
    SecureContents <- MCSecureContents
    SecureSaves = 2
    GridTarget <- MCGridTarget
    GridSource <- MCGridSource
    GridOpaque <- MCGridOpaque
    GridOffsets <- MCGridOffsets
    GridFrom <- MCGridFrom
    GridSizes <- MCGridSizes
    RasterSize <- MCScreen
    RasterFar = 8
    RasterUnits = 1000
    RasterTriangles <- MCTriangles
    RasterLimit = 2
    RasterCorners <- MCPoints
    RasterRadii = {1, 2, 3}
    LineScreen <- MCScreen
    LinePoints <- MCPoints
    SceneGeometry <- MCSceneGeometry
    SceneBase = 4
    SceneNodesMax = 4
    SceneCalls = 4
    DialogTuners <- MCTuners
    DialogSliders <- MCSliders
    DialogWord = 256
    DialogHeights = {20}
    DialogLetters = {"a", "b"}
    DialogNames <- MCNames
    DialogMaxLength = 3
    LayoutPrograms <- MCLayoutPrograms
    LayoutSizes <- MCLayoutSizes
    LayoutChars = {1, 4}
    LayoutZooms = {1, 2}
INVARIANTS
    LibraryTypeOK
    RenderIsSafe
    ControlsAgree
    DocumentsAreRead
    DataAreKept
    EngineKeepsUp
    DryerRunsItsProgram
    StorageIsKept
PROPERTIES
    RingIsQueue
    ActionsAreEarned
    AppExits
    DryerPumpFollows
CHECK_DEADLOCK FALSE
