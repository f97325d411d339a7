SPECIFICATION FairSpec
CONSTANTS
    None = None
    page = page
    canvas1 = canvas1
    Loads <- AllLoads
    Stats = {1, 2, 3, 4, 5, 6}
    Files <- PageFiles
    BodyLength <- Lengths
    Engines = {page}
    ThePage = page
    Inits <- AllInits
    Calls <- AllCalls
    InitConfig <- PageConfig
    Overrides <- ScriptOverrides
    ScriptFiles <- ScriptsPack
    CanvasChoice = {None, canvas1}
    MaxOtherCalls = 0
    DOWNLOAD_ATTEMPTS_MAX = 2
PROPERTIES
    PageAnswers
CHECK_DEADLOCK FALSE
