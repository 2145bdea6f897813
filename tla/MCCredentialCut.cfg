SPECIFICATION MCSpec
CONSTANTS
    MaxFrameDepth = 3
    MaxContainerDepth = 4
    SeamBytes = 5
    MaxName = 2
    Sep <- MCSep
    Stops = {"/"}
    Openers = {"*"}
    Wildcards = {"*"}
    Allowed <- MCAllowed
    Literals <- MCLiterals
    Units <- MCUnits
    Data <- MCData
    LeakLines <- MCLeakLines
    Programs = {"credential"}
    Gh <- MCGh
    Pat <- MCPat
    Auth <- MCAuth
    Schemes <- MCSchemes
    Aws <- MCAws
    XAccess <- MCXAccess
    Base64 <- MCBase64
    Begin <- MCBegin
    Private <- MCPrivate
    Alnum <- MCAlnum
    TokenChars <- MCTokenChars
    CredChars <- MCCredChars
    UpperDigit <- MCUpperDigit
    PemChars <- MCPemChars
    Blanks = {" "}
    Space = " "
    Chars <- MCChars
    Layered <- MCLayered
    MinGh = 2
    MinPat = 2
    MinCred = 2
    AwsLen = 2
    PemLimit = 2
    MaxDepth = 2
    CommandLines <- MCCommandLines
    Base = 4
    Length = 3
    Listings <- MCListings
INVARIANT CompressionHidesNothing
CHECK_DEADLOCK FALSE
