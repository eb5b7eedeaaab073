SPECIFICATION SettingsSpec
CONSTANTS
    Keys = {"gate", "maxOpen"}
    Values = {2, 3}
    Env = 1
    Loader = "loader"
    Admins = {"a1", "a2"}
    MaxUpdates = 3
    MaxRestarts = 1
INVARIANT NeverUnderDefaults
CHECK_DEADLOCK FALSE
