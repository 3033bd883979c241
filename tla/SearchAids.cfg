SPECIFICATION Spec
CONSTANTS
    Token = {"rent", "study"}
    Category = {"logement", "formation"}
    TITLE_MATCH_WEIGHT = 2
    MAX_RESULTS = 2
    Corpora <- MCCorpora
    OtherCorpus <- MCOtherCorpus
INVARIANTS
    BestMatches
    AnswersFromDefault
