CONSTANTS
    Messages <- SomeMessages
    Datagrams <- SomeDatagrams
    Caps = {15, 16, 32, 1024}
    Host <- AnswerHost
    Path <- AnswerPath
    Payload <- AnswerPayload
SPECIFICATION ExchangeSpec
INVARIANTS
    RoundTrip
    InBounds
    AnswerMatches
CHECK_DEADLOCK FALSE
