SPECIFICATION Spec
CONSTANTS
    t1 = t1
    t2 = t2
    u1 = u1
    u2 = u2
    u3 = u3
    Tab = {t1, t2}
    Pieces = 3
    Upload = {u1, u2}
    None = None
    Draft = Draft
SYMMETRY Identities
INVARIANTS
    KeptUntilTaken
    UploadIsWhole
    QueuedHasAudio
