SPECIFICATION Spec
CONSTANTS
    TileDocuments = {"id", "front"}
    Slots = {"s", "t"}
    Documents = {"front", "back"}
    Reviewers = {"p", "q"}
    Senders = {"s", "t"}
    MaxImages = 2
    Users = {"u", "v", "w"}
INVARIANTS TypeOK MarksAreKept DoneAsSeen LandsWhereAsked SignOutIsOffered
PROPERTY RedirectsEnd
