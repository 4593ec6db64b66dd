\* Three requests of any kind about a team of two and its two employees.
SPECIFICATION Spec
CONSTANTS
    r1 = r1
    r2 = r2
    r3 = r3
    x1 = x1
    x2 = x2
    owner = owner
    ana = ana
    bia = bia
    cut = cut
    dye = dye
    studio = studio
    salon = salon
    None = None
    Home = Home
    Requests = {r1, r2, r3}
    Ops = {"register", "create", "role", "link", "unlink", "services", "slug"}
    Emails = {owner, ana, bia}
    TeamRoles = {"ADMIN", "STAFF"}
    Owner = owner
    Bases = {studio, salon}
    HomeSlug = studio
    Employees = {x1, x2}
    Services = {cut, dye}
SYMMETRY MCSymmetry
INVARIANTS
    LinkedIsStaff
    UniqueErrorsAreRaces
    ServicesAreReplacedWhole
    DeadlocksAreCrossings
PROPERTIES
    LinksAreTakenKnowingly
