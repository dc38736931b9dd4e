SPECIFICATION Spec
CONSTANTS
    r1 = r1
    r2 = r2
    Request <- MCRequest
    BoltOn <- MCBoltOn
    Malformed = "bad name"
    NoPackage = "none"
    MaxVendorSteps = 4
    Installed <- MCInstalled
    Installable <- MCInstallable
    EditedStep = {"decision", "audit"}
    PinMaxAge = 1
    MaxTime = 1
    MaxEdits = 2
    MaxPins = 2
    MaxFaults = 1
SYMMETRY RequestSymmetry
INVARIANTS
    SettingsKept
    PinsKept
    EditsArePinned
    SlotsAgree
