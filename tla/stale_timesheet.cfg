SPECIFICATION Spec
CONSTANTS
    c1 = c1
    c2 = c2
    Clients <- TwoClients
    LastMonth = 2
    DaysIn <- TwoAndOneDays
    Settings <- SomeSettings
PROPERTY NightlyUpdates
