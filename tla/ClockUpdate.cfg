\* A 6-bit clock register sampled by 2-, 3- and 6-bit fields.
CONSTANTS
    ClockBits = 6
    Widths = {2, 3, 6}
SPECIFICATION Spec
INVARIANT ClockTracksTime
