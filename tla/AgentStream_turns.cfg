SPECIFICATION Spec
CONSTANTS
    Top = top
    m1 = m1
    m2 = m2
    Nobody = nobody
    Members <- TwoMembers
    ServerTools = {t1}
    FrontTools = {t2}
    LoadTools = {t3}
    MaxIds = 2
    ContinueLimit = 2
    MembersContinue = FALSE
INVARIANTS OneVoicePerRun ScreenIsTrue
PROPERTIES ImplementsAgui TurnEnds

CHECK_DEADLOCK FALSE
