SPECIFICATION Spec
CONSTANTS
    Cols = 4
    MaxRowSpan = 3
    StripExtent = 8
    DefaultSpan <- MCSpan
    NoGrid = NoGrid
    Ids <- MCAllIds
    NoId = NoId
    MaxDepth = 3
    MaxPanes = 2
    WrapperId <- MCWrapper
    PanelId <- MCPanel
    LegacyPlugin = "old"
    DefaultPlugins <- MCPlugins
    Plugins = {"gauge"}
    OnlyExpand = {"gauge"}
    Widths = {1, 5}
    Heights = {1, 4}
    WireLayouts <- MCWire
    LegacyRows <- MCPanelRows
    BuiltIn <- MCBuiltIn
    MergedId <- MCMerged
    IdPool <- MCIds
    NoDrag = NoDrag
    NoOverlay = NoOverlay
    MaxWrites = 2
CHECK_DEADLOCK FALSE
INVARIANT IdsUnique
