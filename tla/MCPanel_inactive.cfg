\* Violation: CheckedCanBeSaved, on the instance of MCPanel_safety.cfg.
SPECIFICATION Spec
CONSTANTS
    color = color min = min aspect = aspect rules = rules logo = logo
    Tabs <- MCTabs
    Fields <- MCFields
    TabOf <- MCTabOf
    LogoTab = aspect
    Values = {0, 1}
    Logos = {logo}
    Employees = {ana, bia}
    Services = {cut}
    Filters = {active, all}
    Professionals = {ana}
    Offers = {cut}
    Dates = {today, tomorrow}
    Appointments = {visit}
    Days = {monday}
    i1 = i1 i2 = i2
    Intervals = {i1, i2}
    Default = i1
    Another = i2
    Blocks = {b1, b2}
    Zones <- MCZones
    Times = {0, 6, 9}
    SessionZone <- MCSummer
    Windows = {w1, w2}
    Accounts = {carla, davi}
    MaxLogins = 2
    MaxRequests = 2
    None = None
INVARIANT CheckedCanBeSaved
