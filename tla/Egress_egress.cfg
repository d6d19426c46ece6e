\* Every text of up to eleven characters, four to a chunk, after a prefix of half a
\* chunk, of most of one, and of more than one.
CONSTANTS
    MaxChunk = 4
    PrefixLens = {2, 3, 6}
    MaxText = 11
SPECIFICATION Spec
INVARIANTS
    TypeOK
    NothingLost
    ChunksFit
    TruthfulOutcome
CHECK_DEADLOCK FALSE
