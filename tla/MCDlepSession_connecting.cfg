SPECIFICATION PromptSpec
CONSTANTS
    Mac = {1}
    SendTries = 2
    CreditWindow = FALSE
    ModemCalls = {"destination_up"}
    RouterCalls = {}
    Calls <- MCCalls
    ClientStatus = {"Success"}
    ReplyStatus = {"none"}
    LoseAcks = FALSE
    Eager = TRUE
    MaxCalls = 1
CHECK_DEADLOCK FALSE
INVARIANT NoCrash
