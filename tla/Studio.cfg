SPECIFICATION Spec
CONSTANTS
    Services = {"registry", "server", "flow"}
    Starts = {"start"}
    Prompts = {"init", "a"}
    MaxAsks = 2
    Decisions = {"approve"}
    MayFail = {"throw", "close"}
    Create = "create"
    PromptRequests <- MCPromptRequests
    Rulers <- MCRulers
    Closers = {"close"}
    InitialPrompt = "init"
    NoPrompt = NoPrompt
    Driver <- MCDriver
    Listen = "listen"
    Runs = {"run"}
    PromptPosts <- MCPromptPosts
    Attests <- MCAttests
    Stops = {"stop"}
    Saves = {"s1", "s2"}
    Writes = {"w1"}
    Sources = {1, 2, 3}
INVARIANTS
    RulingsStand
    QuietWhenClosed
PROPERTIES
    RequestsAreServed
    NoLostEdit
CHECK_DEADLOCK FALSE
