SPECIFICATION Spec
CONSTANTS
    Literals <- MCLiterals
    Texts <- MCTexts
    Text <- MCText
    NotNumber = NotNumber
    Hotkeys <- MCHotkeys
    Height = 17
    Width = 3
    ListHeight = 2
    HelpLines = 6
    MaxLen = 3
    Sources <- MCSources
    Starts <- MCStarts
    Disks <- MCDisks
    Menus <- MCMenus
    Picks <- MCPicks
    KeysOf <- MCKeysOf
    Heights <- MCHeights
    MaxRuns = 2
    MaxFaults = 1
    MaxDepth = 3
    Trees <- MCTrees
    conf_main <- MC_conf_main
    conf_answer <- MC_conf_answer
    mconf_main <- MC_mconf_main
    mconf_key <- MC_mconf_key
    mconf_signal <- MC_mconf_signal
    mconf_written <- MC_mconf_written
    conf_read <- MC_conf_read
    conf_write <- MC_conf_write
    conf_write_defconfig <- MC_conf_write_defconfig
    conf_split_config <- MC_conf_split_config
    conf_write_autoconf <- MC_conf_write_autoconf
    sym_calc_value <- MC_sym_calc_value
INVARIANTS
    AsWritten
    CirclesReported
    SavedIsLegal
    CacheIsFresh
    UnflaggedIsSaved
    SavedIsRead
    LastSavedSurvives
    SplitTellsAll
    ShownIsActedOn
PROPERTIES
    AutoConfLast
    ShowsDialogs
    ConfEnds
CHECK_DEADLOCK FALSE
