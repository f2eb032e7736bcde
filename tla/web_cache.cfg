CONSTANTS
    Keys = {robots, llms}
    FileKeys = {llms}
    RobotsKeys = {robots}
    Rows = {1, 2}
    Bodies <- MCBodies
    Readers = {r1}
    Writers = {w1, w2}
    Timeout = 1
    MaxEdits = 2
    MaxFaults = 1
    Nothing = Nothing
    robots = robots
    llms = llms
    bot = bot
    Bot = Bot
    Agents = {bot, Bot}
    Folded <- MCFolded
    PathPatterns <- MCPaths
    MaxOrder = 1
    Urls <- MCUrls
SPECIFICATION SpecFromSmallStart
INVARIANTS TypeOK OnlyRacesLeaveStale CrawlersAgree
PROPERTY EventuallyFresh
