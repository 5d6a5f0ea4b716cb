\* Two numbers, which three processes of one program take in turn.
SPECIFICATION Spec
CONSTANTS
    PIDs = {1, 2}
    Names = {1}
    MaxStart = 3
    Permitted = {}
PROPERTIES
    EasesWhatItShows
