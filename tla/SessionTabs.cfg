SPECIFICATION Spec
CONSTANTS
    Tabs = {b1, b2}
    MaxTokens = 2
    Lifetimes = {"distant", "fresh"}
INVARIANTS TabsAgree
PROPERTIES NoticeEarned ExpiredEnds
CHECK_DEADLOCK FALSE
