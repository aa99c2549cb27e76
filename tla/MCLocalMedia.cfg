SPECIFICATION MediaSpec
CONSTANTS
    Taglib19 = TRUE
    Pieces = 2
    Pictures <- MCPictures
    Songs <- MCSongs
    Videos <- MCVideos
    Targets <- MCTargets
    MaxSize = 4
    Tools = {t1, t2}
    SavedTypes = {"image", "video"}
    SizeArgs <- MCSizeArgs
SYMMETRY MCSymmetry
INVARIANTS Presentable ArtIsBest NoPartialImage
CHECK_DEADLOCK FALSE
