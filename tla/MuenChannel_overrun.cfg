CONSTANTS
    Elements = 2
    Word = 16
    MaxEpoch = 1
    MaxWc = 4
SPECIFICATION FairSpec
PROPERTY RetrySucceeds
