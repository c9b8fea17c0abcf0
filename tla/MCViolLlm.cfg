\* A reply that is cut inside a character.
CONSTANTS
    MaxResponse = 2
    Texts <- MCTexts
    LineMax = 3
    MaxQueries = 3
    MaxTyped = 6
SPECIFICATION BridgeSpec
INVARIANTS
    AnswersAreResponses
