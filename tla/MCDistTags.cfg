CONSTANTS
    c1 = c1
    None = None
    Clients = {c1}
    Tags = {"next"}
    Versions <- MCVersions
    Probes <- MCProbes
    Rules <- MCRules
SPECIFICATION TagsSpec
INVARIANTS RuleMeansWhatItSays  
