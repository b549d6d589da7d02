\* One station, a file that is replaced three times, an offset field of three values.
SPECIFICATION FairSpec
CONSTANTS
    Byte = {1, 2}
    Version = {"odd", "even", "half", "one", "empty", "large"}
    Content <- MCContent
    NoFile = "none"
    Word = 3
    MaxReplace = 3
INVARIANTS
    DownloadTypeOK
    ImageIsOneFile
PROPERTY
    DownloadCompletes
CHECK_DEADLOCK FALSE
