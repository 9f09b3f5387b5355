SPECIFICATION Spec
CONSTANTS
    HomeDir <- MCHomeDir
    BwrapStaticRoots <- MCBwrapStaticRoots
    SeatbeltReadable <- MCSeatbeltReadable
    SeatbeltScratch <- MCSeatbeltScratch
    BasePATH <- MCBasePATH
    NixStore <- MCNixStore
    ToolDirs <- MCToolDirs
    Glob <- MCGlob
    BaselineAllowEnv <- MCBaselineAllowEnv
    BadKeys = {"0BAD"}
    Name <- MCName
    Account = {"sa", "other"}
    Key <- MCKey
    Patterns <- MCPatterns
    Files <- MCFiles
    Requests <- MCRequests
    Disks <- MCDisks
INVARIANTS
    TypeOK
    AuthEnforced
    PathIsCurated
    GrantsAgree
    BwrapNoWider
    AncestorsVisible
    ToolsReadable
