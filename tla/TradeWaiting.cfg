SPECIFICATION WaitingSpec
CONSTANTS
    Invoices = {h1, h2}
    None = None
    Main = Main
    Rpc = Rpc
    Timer = Timer
    Guardian = Guardian
    Kinds = {"buy", "sell"}
    Events = {"cancel", "timeout", "expire"}
    MaxFaults = 0
CHECK_DEADLOCK FALSE
INVARIANT NoUnsentInvoice
PROPERTIES WaitingEnds
