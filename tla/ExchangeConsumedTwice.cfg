\* The code delivers one generation twice.
SPECIFICATION Spec
CONSTANTS
    beats = beats
    meter = meter
    StateWords <- MCStateWords
    MaxGeneration = 2
PROPERTY
    NeverConsumedTwice
