SPECIFICATION Spec
CONSTANTS
    Grids = {a, b}
    Followed = {a}
    Wizards = {a, b}
    Forms = {a, b}
    MaxPhotos = 2
    MaxBatch = 2
    InputSteps = 2
    Vehicles = 2
    MaxCars = 2
    Edits = 3
INVARIANTS TypeOK CoverStands ListedIsStored GridKeepsUp ListedOnce StrandedIsOffered EditsStick
