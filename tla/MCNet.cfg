SPECIFICATION Spec
CONSTANTS
    Progs = {p1}
    Scripts <- MCScripts
    Names = {"a"}
    NumericPool = FALSE
    Room <- MCRoom
    Slots = 2
    Clients = 1
    MaxQuestions = 2
    MaxAir = 1
    Tries = 1
    Near = "near"
    MaxTroubles = 1
CHECK_DEADLOCK FALSE
ACTION_CONSTRAINT AfterTheDead
INVARIANTS ClientsHaveSomebody MailIsRight DatagramsAreTheirs
