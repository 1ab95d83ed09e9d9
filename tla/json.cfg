CONSTANTS
    Items = {i1, i2, i3, i4, i5, i6}
    Strings = {s1, s2, s3, s4, s5, s6}
    NULL = NULL
    Texts <- TextsDef
    MaxText = 3
    AfterBytes = {0, 34}
    NumberBuffer = 3
    NestingLimit = 2
    CmdName <- CmdNameDef
    DomainName <- DomainNameDef
    IpName <- IpNameDef
    RetcodeName <- RetcodeNameDef
    DescName <- DescNameDef
    CmdText <- CmdTextDef
    DescText <- DescTextDef
    MaxDomain = 3
    IpSize = 16
    Sender <- SenderDef
    Domains <- DomainsDef
    Addresses <- AddressesDef
    sprintf <- SprintfDef
    FirstSize = 4
    IntMax = 60
    Prebuffers = {1, 7, 30}
    Preallocated <- PreallocatedDef
SPECIFICATION Spec
INVARIANTS TypeOK StaysInText OutputFits NestingBounded NothingLost ParsesGrammar
INVARIANTS HonestRequestsAreServed AnswerIsAddress ClientLearnsOutcome
INVARIANTS EstimatesHold ReadsBack
CHECK_DEADLOCK FALSE
