SPECIFICATION Spec
CONSTANTS
    Lines = {1, 2, 4}
    MinChapter = 3
    Proposals <- OfferedLists
    Admins = {a1, a2}
    Tabs = {t1, t2}
    MaxChapters = 5
    MaxEvents = 3
    MaxSessions = 1
SYMMETRY Alike
INVARIANTS TypeOK SettledListTiles QuestionsInPlace CompletesWithLastAnswer
PROPERTIES AdminWordsStand
\* with its events spent and nobody asking anything, the teaching rests
CHECK_DEADLOCK FALSE
