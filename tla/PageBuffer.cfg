\* One scrape of three plugins, with lines of every length and a buffer that
\* two or three of them fill.
SPECIFICATION Spec
CONSTANTS
    Plugins <- ThreeKinds
    BufSize = 6
    MaxSize = 12
    MaxLine = 3
    MaxLines = 4
INVARIANTS InBounds SectionsWhole NoneLost
CHECK_DEADLOCK FALSE
