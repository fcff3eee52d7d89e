SPECIFICATION Spec
CONSTANTS
    texture = texture
    sound = sound
    terrain = terrain
    Files <- ThreeFiles
    Textures <- TwoTextures
    DataSize = 3
    BlockSize = 2
    VFS_CLEANUP_SIZE = 3
    MaxLocks = 1
INVARIANTS
    SpaceIsExact
    IndexMatches
    ContentsKept
    NeverCorrupt
PROPERTIES
    LockedKept
SYMMETRY Alike
CHECK_DEADLOCK FALSE
