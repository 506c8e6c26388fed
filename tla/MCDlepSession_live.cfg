SPECIFICATION FairSpec
CONSTANTS
    Mac = {1}
    SendTries = 2
    CreditWindow = FALSE
    ModemCalls = {}
    RouterCalls = {"destination_up", "destination_down"}
    Calls <- MCCalls
    ClientStatus = {"Success"}
    ReplyStatus = {"none"}
    LoseAcks = FALSE
    Eager = FALSE
    MaxCalls = 2
CHECK_DEADLOCK FALSE
INVARIANTS QueueDiscipline NoCrash
PROPERTIES TerminationSpreads RequestSettles
