\* The source's sizes 500, 800, 80 and 100 scaled down to 5, 8, 2 and 3.
CONSTANTS
    Documents <- TheDocuments
    QuestionPages = {1}
    target_chars = 5
    max_chars = 8
    overlap_chars = 2
    min_merge_chars = 3
SPECIFICATION ChunkingSpec
INVARIANTS WithinMaximum
CHECK_DEADLOCK FALSE
