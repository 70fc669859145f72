CONSTANTS
    BodyLength = 12
    MaxRead = 5
    MaxRetries = 3
    Lifetime = 2
    MaxTime = 5
SPECIFICATION ClientSpec
INVARIANTS NothingLostOrRepeated ReturnsWhole  HealthIsFresh
PROPERTIES CallsEnd
