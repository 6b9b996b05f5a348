SPECIFICATION ReadingSpec
CONSTANTS
    Parts = {"passages"}
    Idle = Idle
    f1 = f1
    f2 = f2
    v = v
    w = w
    bad = bad
    TARGET_CHUNK_CHARS = 4
    MIN_CHUNK_CHARS = 2
    MAX_CHUNK_CHARS = 6
    SHORT = 1
    Formats = {"markdown", "docx", "odt", "fb2", "epub", "mobi", "pdf", "djvu", "rtf",
               "plaintext", "python", "python_error", "shell", "latex", "yaml", "json",
               "array", "mapped", "toml", "jupyter", "csv", "xlsx", "sqlite", "html",
               "legifrance"}
    Lines <- MCLines
    MaxLines = 4
    Files = {f1, f2}
    Contents = {v, w, bad}
    Absent = Absent
    Matches = {w, bad}
    Broken = {bad}
    NotRead = NotRead
    Setups <- MCSetups
    Paths <- MCPaths
    DEFAULT_EXCLUDE_DIRS = {"x"}
    EXCLUDE_SUBPATHS <- MCSubpaths
    TRANSIENT = {"t"}
    Extensions = {".f", ".g"}
    suffix <- MCSuffix
    RuleSets <- MCRules
    Events <- MCEvents
CHECK_DEADLOCK FALSE
INVARIANT PromisesKept
