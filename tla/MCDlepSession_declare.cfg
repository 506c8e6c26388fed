SPECIFICATION PromptSpec
CONSTANTS
    Mac = {1, 2}
    SendTries = 2
    CreditWindow = FALSE
    ModemCalls = {"destination_up", "destination_down"}
    RouterCalls = {}
    Calls <- MCCalls
    ClientStatus = {"Success", "Not_Interested"}
    ReplyStatus = {"none"}
    LoseAcks = FALSE
    Eager = FALSE
    MaxCalls = 4
CHECK_DEADLOCK FALSE
INVARIANTS OneInFlight Agreement
PROPERTY SessionSurvives
