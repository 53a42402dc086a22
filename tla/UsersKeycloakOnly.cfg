SPECIFICATION Spec
CONSTANTS
    Desks = {"users"}
    a1 = a1  a2 = a2  p1 = p1  u1 = u1  u2 = u2  u3 = u3  e1 = e1  e2 = e2  d1 = d1  d2 = d2  
    t1 = t1  t2 = t2  h1 = h1  h2 = h2  r1 = r1  r2 = r2  ann = ann  bob = bob  driver = driver
    \* Users
    Logins = {a1, a2, p1}
    Admins = {a1, a2}
    Grants <- McGrants
    Regimes <- McOverlapping
    UserCalls = {h1, h2}
    MaxUserCalls = 3
    Anywhere = Anywhere
    \* Organisation
    Units = {u1, u2, u3}
    FirstUnits = {u1, u2}
    NoUnit = NoUnit
    Staff = {e1, e2}
    FirstStaff <- McFirstStaff
    Pesels = {1, 2}
    GrantIds = {g1}
    Serials = {s1}
    Managed = {u1}
    Checks = {k1, k2}
    OrgCalls = {h1, h2}
    MaxOrgCalls = 3
    \* Grafik
    Workers = {e1, e2}
    WorkUnit <- McUnit
    Skills <- McSkills
    PlannerUnits = {u1}
    Slots <- McSlots
    DemandIds = {d1, d2}
    FirstDemands <- McFirstDemands
    ShiftBodies <- McShiftBodies
    DemandBodies <- McDemandBodies
    Filters <- McFilters
    TemplateIds = {k1}
    TemplateBodies = {s1}
    GrafikCalls = {h1, h2}
    MaxGrafikCalls = 3
    NoDemand = NoDemand
    \* StrategicBrain
    People = {e1, e2}
    PeerKey <- McPeerKey
    HiredAt <- McHired
    Teams <- McTeams
    Places = {A}
    Staffings <- McStaffings
    ConfigPatches <- McPatches
    DefaultConfig <- McDefaultConfig
    ConfigKeys = {"DEFAULT", u1}
    Passes = {h1, h2}
    ConfigCalls = {h1, h2}
    MaxWindow = 1
    BrainBudgets <- McBudgets
    \* Costs
    Grades = {"x", "y"}
    Rota <- McRota
    Rates <- McRates
    CapUnits = {u1}
    Caps <- McCaps
    NoCap = NoCap
    CapCalls = {h1, h2}
    MaxCostSteps = 4
    \* ClientCache
    CacheTenants = {t1, t2}
    Borrowers = {h1, h2}
    MaxClients = 1
    MaxOpened = 4
    CacheGaps = {TRUE, FALSE}
    \* Fleet
    Fleets = {t1, t2, t3}
    FleetRunners = {r1, r2}
    MaxBroken = 2
    \* Requests
    Realms = {t1}
    Opening = {t1}
    Closing = {t1}
    VisitKinds <- McVisitKinds
    Visitors = {h1, h2}
    CacheTtl = 3
    MaxLag = 1
    \* Agent
    Learners = {t1}
    AgentThreads = {h1, h2}
    AgentRegimes = {"warm", "alone"}
    MaxAgentCalls = 3
    MaxAgentCrashes = 1
    \* RuntimePipeline
    Signups = {t1, t2}
    ShortId <- McShortId
    Handlers = {h1, h2}
    Ticks = {r1, r2}
    RtLimits <- McRtLimits
    \* WebSession
    Persons = {ann, bob}
    WebCalls = {h1, h2}
    WebRegimes <- McWebRegimes
    \* Screens
    ScreenRows = {"x", "y"}
    ScreenCalls = {h1, h2}
    ScreenPolls = {r1}
    ScreenCases <- McScreenCases
    \* Forms
    FormRequests = 3
    Nowhere = Nowhere
    FormCases <- McForms
    \* Questions
    RankQuestions <- McRank
    ProposeQuestions <- McPropose
    LearnQuestions <- McLearn
    ValidateQuestions <- McValidate
    EpisodeQuestions <- McEpisode
    ScopeQuestions <- McScopes
    Nobody = Nobody
INVARIANT NeverKeycloakOnly
CHECK_DEADLOCK FALSE
