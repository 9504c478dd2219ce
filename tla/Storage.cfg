\* Files of 1, 2 and 4; 0 and 1 leave no retry (0 is where max_retries is undefined),
\* 7 and 40 some.
\* Two preparations, so that the second can follow one that was killed, failed or ended;
\* one match process is enough, for match processes do not write to the files.
\* The processes end, so the end is no deadlock.
CONSTANTS
    Imports <- MCImports
    Sizes = {1, 2, 4}
    Spaces = {0, 1, 7, 40}
    ManyRetries = 9
    Matches = {m1}
    GivenOptions <- MCGivenOptions
    Formats = {"osm", "other"}
    MaxPreparations = 2
    MaxKills = 1
    MaxDrops = 1
SPECIFICATION Spec
INVARIANTS
    FilesAreWhole
    GivesUpOnlyWhenFull
    ReadsOnePreparation
    StoragesAreSound
CHECK_DEADLOCK FALSE
