SPECIFICATION FairSpec
CONSTANTS
    main = main
    worker = worker
    range = range
    logic = logic
    None = None
    Tokens = {"%N", "%?N", "%?H", "%t", "%%", "%?U", ".", "work"}
    MaxTokens = 4
    Leads = {0, 2}
    Hosts = {"work", "work.fnal"}
    Programs <- TwoPrograms
    Times <- TwoTimes
    Threads = {main, worker}
    Types = {range, logic}
    HasThrown = {main, worker}
PROPERTY NameAsDocumented LogOpens ThrowsArrive
