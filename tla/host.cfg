SPECIFICATION Spec
CONSTANTS
    RawOverrides <- MCRawOverrides
    OsReleases <- MCOsReleases
INVARIANTS
    ChangesAreEarned
    DeadEndsAreKnown
    PreviewsTell
    PromptIsRight
CHECK_DEADLOCK FALSE
