CONSTANTS
    User = {"ann"}
    Worker = {w1}
    MaxTokens = 2
    Ignored = {"inherit", "retire"}
    Role = {"viewer", "admin"}
SPECIFICATION FairAccessSpec
PROPERTY DemotionIsFinal
PROPERTY DemotionTakesEffect
