SPECIFICATION ScenarioSpec
CONSTANTS
    Invoices = {h1}
    None = None
    Main = Main
    Rpc = Rpc
    Timer = Timer
    Guardian = Guardian
    Kinds = {"buy", "sell"}
    Events = {"coop", "dispute", "admin", "rpc", "lnd_error"}
    MaxFaults = 1
CHECK_DEADLOCK FALSE
INVARIANTS PaysSettledOnce OneInitiator ResolutionsPay ResolutionsAgree MessagesKeepBacking
    RowFollowsInvoice NoticeIsTrue DecidedBeforeWritten
PROPERTIES GuardianEnforces
