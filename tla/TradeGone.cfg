SPECIFICATION Spec
CONSTANTS
    Invoices = {h1}
    None = None
    Main = Main
    Rpc = Rpc
    Timer = Timer
    Guardian = Guardian
    Kinds = {"buy", "sell"}
    Events = {"deadline"}
    MaxFaults = 0
CHECK_DEADLOCK FALSE
INVARIANTS CanceledNotSettled
