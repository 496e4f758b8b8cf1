CONSTANTS
    Nodes = {agent, agent_beta}
    Desks = {desk, desk_beta}
    Shadows = {agent_beta, desk_beta}
    Requests = {r1}
    MaxRetries = 1
    MaxMishaps = 2

SPECIFICATION FairSpec

INVARIANTS TypeOK ShadowHidden AnsweredOnce
  

CHECK_DEADLOCK FALSE
