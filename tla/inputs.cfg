CONSTANTS
    None = None
    NoAddress = NoAddress
    row1 = row1
    row2 = row2
    Ids = {row1, row2}
    Star = "*"
    Acme = "_acme-challenge"
    HostLabels = {"a", "b"}
    OwnerLabels = {"a", "b", "_x", "_acme-challenge"}
    CaaFlags = {"0"}
    CaaTags = {"issue"}
    Parts <- SmallParts
    Inputs <- SmallInputs
    Router <- Address
    resolver1 = resolver1
    resolver2 = resolver2
    resolver3 = resolver3
    resolver4 = resolver4
    ours = ours
    other = other
    private = private
    Resolvers = {resolver1, resolver2, resolver3, resolver4}
    Liars = {resolver1}
    Most <- SmallMost
    Addresses = {ours, other, private}
    Public = {ours, other}
    Requests <- SmallRequests
SYMMETRY Symmetry
SPECIFICATION MCSpec
INVARIANTS
    NoPanic
    ChecksNeverFire
    EditKeepsRow
    NoTwins
    PushSettles
    AddressIsOurs
    HonestWins
