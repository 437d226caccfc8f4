SPECIFICATION Spec
CONSTANTS
    Package = {1, 2, 3}
    Cdylib = {1, 2}
    Dir = {"workspace", "first", "second", "archive"}
    Members <- MCMembers
    Builds <- MCBuilds
    FileName <- MCFileName
    Entry <- MCEntry
    MaxEntries = 2
    MaxMessages = 4
    Language = {"Rust", "TypeScript"}
    Name = {"a", "b"}
    Export <- MCExport
    Identity <- MCIdentity
INVARIANTS
    ReadsOnlyWhatIsThere
    TaggedFailsOnlyWhenNewer
    NoLintTwice
    LoadsWhatIsConfigured
    SettingsReachOnePass
