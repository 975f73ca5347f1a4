CONSTANTS
    number = number
    Zero = Zero
    Chars <- Characters
    Scalars = {number, Zero}
    Kinds = {"Default", "Tag"}
    BuilderThrew <- Threw
    MaxMessage = 2
    MaxAttributes = 2
    MaxAttrText = 3
    PushedLists <- OverlappingLists
    BuilderCalls <- ThreeSteps
    Sites <- AnySite
    Programs <- NestedOrFree
    MaxScopes = 2
    MaxContext = 3

SPECIFICATION Spec
INVARIANTS TypeOK NestedContextIsLiveScopes UncountedIsComplete AsyncCopyCounts OnePhysicalLine JsonReadsBack
