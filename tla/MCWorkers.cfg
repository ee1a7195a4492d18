CONSTANTS
    u1 = u1
    u2 = u2
    u3 = u3
    amy = amy
    bob = bob
    s1 = s1
    s2 = s2
    Uploads = {u1, u2, u3}
    Users = {amy, bob}
    Slugs = {s1, s2}
    Owner <- MCOwner
    Slug <- MCSlug
    Books <- MCBooks
    None = None
    sa = sa
    sb = sb
    sk = sk
    Order <- MCOrder
    Skills = sk
    Clicks = {c1, c2}
    NoClick = NoClick
    MaxDreamEvents = 2
    MaxUploads = 2
    MaxIngestEvents = 3
    Paths = {1, 2, 3}
    Tokens = {"x", "y"}
    NoConcept = NoConcept
    NoRow = NoRow
    Nobody = Nobody
    Patches = 1
    NEIGHBORS_PER_CONCEPT = 1
    MaxWrites = 1
SPECIFICATION Spec
INVARIANTS OneIngestPerUser DoneMeansWhole MarkerHonest
PROPERTIES PendingResolves EveryScopeDreamt 
CHECK_DEADLOCK FALSE
