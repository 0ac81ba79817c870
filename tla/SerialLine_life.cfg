\* Every clock the driver names and one it does not; bauds at each boundary.
CONSTANTS
    ClockRates <- MCClocks
    Bauds <- MCBauds
    Settings <- MCSettings
SPECIFICATION Spec
INVARIANTS TypeOK SettingsKept DivisorIsRight
