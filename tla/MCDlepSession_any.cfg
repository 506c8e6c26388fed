SPECIFICATION PromptSpec
CONSTANTS
    Mac = {1}
    SendTries = 2
    CreditWindow = TRUE
    ModemCalls = {"destination_up", "destination_down", "destination_update", "peer_update", "linkchar_reply", "terminate"}
    RouterCalls = {"destination_up", "destination_down", "peer_update", "linkchar_request", "terminate"}
    Calls <- MCCalls
    ClientStatus = {"Success", "Not_Interested", "Request_Denied"}
    ReplyStatus = {"none", "Success"}
    LoseAcks = FALSE
    Eager = FALSE
    MaxCalls = 3
CHECK_DEADLOCK FALSE
INVARIANTS TypeOK OneInFlight NoCrash
