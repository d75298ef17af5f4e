SPECIFICATION Spec
CONSTANTS
    Turns = {t1, t2}
    Cards = {t1}
    Sessions = {s1}
    Coaching = {"talk_script"}
    MaxMessages = 3
    MaxFaults = 2
INVARIANTS StatusTells ContextIsDialogue CardStory StickyIsLatest
PROPERTIES TurnEnds
CHECK_DEADLOCK FALSE
