SPECIFICATION Spec
CONSTANTS
    p1 = p1
    p2 = p2
    p3 = p3
    p4 = p4
    c1 = c1
    c2 = c2
    c3 = c3
    c4 = c4
    k1 = k1
    k2 = k2
    s1 = s1
    s2 = s2
    Products <- MCProducts
    FirstProducts <- MCFirstProducts
    Categories <- MCCategories
    FirstCategories <- MCFirstCategories
    Configs <- MCConfigs
    SettingKeys <- MCSettingKeys
    MaxQty = 2
    InPlay = 2
    MaxJobs = 2
    MaxPresses = 2
INVARIANT DialogsTypeOK
INVARIANT AnswersGoWhereAsked
INVARIANT OncePerForm
CHECK_DEADLOCK FALSE
