\* Two services, two employees, one day and one time; one appointment of another client.
SPECIFICATION FairSpec
CONSTANTS
    ana = ana
    bia = bia
    cut = cut
    dye = dye
    monday = monday
    t1 = t1
    t2 = t2
    None = None
    Services = {cut, dye}
    Employees = {ana, bia}
    Dates = {monday}
    Slots = {t1}
    Performs <- MCPerforms
    Today = monday
    Configs <- MCConfigs
    MaxOthers = 1
    MaxAdrift = 1
INVARIANTS
    TokenSentOnce
    BookedWasVerified
    SlotsAreOfTheChoice
    BookedIsTold
    ConfirmedIsBooked
PROPERTIES
    WaitingEnds
