\* Two orders in turn, of one service; two messages; a minute of slack.
SPECIFICATION FairSpec
CONSTANTS
    OrderIds = {1, 2}
    Services = {s1}
    Messages = {x1, x2}
    None = None
    MaxTime = 3
    Slack = 1
    TTL = 2
    PageSize = 2
INVARIANT OneOrderPerMessage
PROPERTIES LifeSpec NewestCodeFirst CodeDelivered
CHECK_DEADLOCK FALSE
