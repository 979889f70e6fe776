CHECK_DEADLOCK FALSE
CONSTANTS
    maintain = maintain
    scan = scan
    handler = handler
    s1 = s1
    s2 = s2
    None = None
    Saver = {maintain, scan}
    Ticker = maintain
    Handler = {handler}
    Client = {s1}
    MaxChanges = 1
    MaxRequests = 1
    MaxFailures = 0
SPECIFICATION FairSpec
PROPERTIES HandlersEnd
