CONSTANTS
    root = root
    ann = ann
    bob = bob
    nobody = nobody
    s1 = s1
    s2 = s2
    h1 = h1
    Users = {root, ann, bob}
    SiteAdmin = root
    NoUser = nobody
    StreamSlots = {s1}
    HttpSlots = {h1}
    RequestedRoles = {"owner", "member"}
    MaxChannels = 1

SPECIFICATION Spec

SYMMETRY Symmetry

INVARIANTS
    TypeOK
    OneOwner
    CountsExact

PROPERTIES
    BanSticks
    CreatorIsManagerAtInsert
    CreationIsAsShown
