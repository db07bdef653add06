CONSTANTS
    Updaters = {u1, u2, u3}
    MaxBlocks = 2
    MaxNotes = 2
SPECIFICATION Spec
SYMMETRY Symmetry
INVARIANTS
    TypeOK
    SnapshotIsWhole
    NotesSurvive
