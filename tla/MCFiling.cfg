SPECIFICATION FilingSpec
CONSTANTS
    a = a
    b = b
    r1 = r1
    r2 = r2
    p1 = p1
    p2 = p2
    v = v
    w = w
    NoFile = NoFile
    NoRoot = NoRoot
    NoRow = NoRow
    Corpora = {a, b}
    Roots = {r1, r2}
    Paths = {p1, p2}
    Texts = {v, w}
    Starts <- MCStarts
    born = born
    cover = cover
    stamped = stamped
    image = image
    slip = slip
    l1 = l1
    l2 = l2
    d = d
    m = m
    None = None
    Contents = {born, cover, stamped, image, slip}
    PageCount <- MCPages
    TextPages <- MCText
    Sparse = {cover, stamped, image, slip}
    Models = {d, m}
    DEFAULT_MODEL = d
    Ids = {1, 2, 3, 4, 5, 6, 7, 8}
    Lanes = {l1, l2}
    Backend = "tesseract"
    PAGES_PER_OCR_JOB = 1
    OCR_MAX_CONCURRENT = 2
    EMBED_BATCH_SIZE = 3
    Setups <- MCSetups
CHECK_DEADLOCK FALSE
INVARIANTS
    SourcesTypeOK
    TypeOK
    PagesReadOnce
    VectorOfItsPassage
PROPERTIES
    DroppedForCause
    SourcesSettle
    ChurnStops
    EnrichmentSettles
