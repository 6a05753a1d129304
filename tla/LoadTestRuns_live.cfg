SPECIFICATION FairSpec
CONSTANTS
    Scenario = {s1}
    Removable = {}
    Run = {r1}
    Starter = {h1}
    Stopper = {t1}
    Follower = {f1}
    DeleteMayFail = FALSE
    NoRun = NoRun
    NoScenario = NoScenario
PROPERTIES
    RequestsAreAnswered
    CompletionsLand
