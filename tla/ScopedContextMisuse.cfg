CONSTANTS
    number = number
    Zero = Zero
    Chars <- Characters
    Scalars = {number, Zero}
    Kinds = {"Default", "Tag"}
    BuilderThrew <- Threw
    MaxMessage = 2
    MaxAttributes = 2
    MaxAttrText = 3
    PushedLists <- OneList
    BuilderCalls <- NoSteps
    Sites <- AnySite
    Programs <- DeclaredFirst
    MaxScopes = 1
    MaxContext = 1

SPECIFICATION Spec
INVARIANTS ContextIsLiveScopes
