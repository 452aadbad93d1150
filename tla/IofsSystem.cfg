\* Two applications, two workers, a page of two plugins.
SPECIFICATION FairSpec
CONSTANTS
    Clients = {c1, c2}
    Workers = {w1, w2}
    Pollers = {p1}
    Plugins <- TwoPlugins
    MaxOps = 3
INVARIANTS PluginsAgree
PROPERTIES CounterSpec Answered PageServed
