SPECIFICATION Spec
CONSTANTS
    AnyValue = AnyValue
    BestValue = BestValue
    OtherValue = OtherValue
    None = None
    Common <- MCCommon
    h264 = h264
    vp9 = vp9
    mp4 = mp4
    p1 = p1
    p2 = p2
    p3 = p3
    Presses <- MCPresses
    MaxViews = 1
    RuleIds = {1, 2, 3}
    FirstIds = {2, 3}
    Formats <- MCFormats
    Criteria <- MCCriteria
    PageSize = 3
    MaxPage = 1
    MaxFaults = 1
SYMMETRY Symmetric
INVARIANTS
    RulesAreKept
    EveryQualityIsOnOnePage
    SoundIsRight
PROPERTIES
    OrderAsShown
    RecommendedIsBest
CHECK_DEADLOCK FALSE
