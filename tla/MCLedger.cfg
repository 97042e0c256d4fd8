SPECIFICATION Spec
CONSTANTS
    MaxInt = 7
    Precision = 32
    Scale = 2048
    Ulps <- MCUlps
    DefaultCurrency = "MYR"
    Currencies = {"MYR", "USD"}
    Units = {"", "kg", "pcs"}
    Factors <- MCFactors
    MaxLines = 3
INVARIANTS
    SumsAreExact
    StoredMoneyReturns
    NonNegative
