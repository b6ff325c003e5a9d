CONSTANTS
    Issuers = {"i1", "i2"}
    Elsewhere = {"i2"}
    AllowedIssuers = {"i1"}
    Kids = {"a1", "a2"}
    TokenKids = {"t"}
    TokenKeys = {"k1"}
    Audiences = {"here"}
    Local = "here"
    PerSecond = 2
    Lifetimes = {1, 2}
    MaxAssertionLifetime = 2
    ClockSkew = 0
    TokenLifetime = 2
    MaxStatusAge = 1
    MaxTime = 2
    MaxAssertions = 2
    MaxTokens = 1
    None = None
SPECIFICATION AgentSpec
INVARIANTS AssertionNamesItsKey
CHECK_DEADLOCK FALSE
