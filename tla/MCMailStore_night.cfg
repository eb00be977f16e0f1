CONSTANTS
    Letters <- Mails
    Bulletins <- Mails
    BoardOf <- Places
    Expired <- Old
    MaxEntries = 4
    MaxFault = 1
SPECIFICATION StoreFairSpec
PROPERTIES
    
    StoreHeals
    SendersFinish
CHECK_DEADLOCK FALSE
