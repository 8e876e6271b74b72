SPECIFICATION Spec
CONSTANTS
    a = a
    b = b
    c = c
    s = s
    t = t
    e = e
    None = None
    Subjects = {a, b, c}
    Sources = {s, t}
    SourceOf <- TwoSources
    Epochs = {e}
    Capacity = 2
    MaxNumber = 3
SYMMETRY Alike
PROPERTIES
    KeepsContract
