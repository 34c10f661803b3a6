CONSTANTS
    r1 = r1
    Request = {r1}
    Provider = {"ollama", "groq", "gemini", "openai"}
    Model <- MCModel
    Local = "ollama"
    Bare <- MCBare
    Cap = {"text", "json"}
    Serves <- MCServes
    Meta <- MCMeta
    DefaultMeta <- MCDefaultMeta
    Before <- MCBefore
    Window = 1
    BucketSize = 100
    Question <- MCQuestion
    Policies <- MCPolicies
    Registered = {"ollama", "groq", "gemini"}
    Measured = {100, 450}
    Failing <- MCFailing
    Cached <- MCCached
    MaxOthers = 1
    MaxEdits = 1
SPECIFICATION PipelineSpec
INVARIANTS PipelineTypeOK RefusedIsFree PolicyPinned FailureExplained CapsHonoured RouteUndominated ArmsGetTheirShare
CHECK_DEADLOCK FALSE
