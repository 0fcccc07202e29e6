SPECIFICATION Spec
CONSTANTS
    v1 = v1
    v2 = v2
    ghsa = ghsa
    mal = mal
    None = None
    Refresher = Refresher
    Versions = {v1, v2}
    Advisories = {ghsa, mal}
    Malware = {mal}
    Noise = {}
    Fixable = {}
    Answers <- MCAnswers
    FirstAnswers <- MCFirstAnswers
    FirstPolicy <- MCFirstPolicy
    RuleSets <- MCRuleSets
    SettingSets <- MCSettingSets
    Requests = {r1}
    Ecosystems = {"pypi"}
    Audited = {{v1, v2}}
    Budgets <- MCBudgets
INVARIANTS NeverCleanUnsaid 
PROPERTIES VerdictCatchesUp DocsCatchUp
