\* All lists over 7 units, all ranges over and past them.
SPECIFICATION Spec
CONSTANTS
    Units = 7
    Lengths = {1, 2, 3}
INVARIANTS
    ListCanonical
PROPERTIES
    ImplementsFreeSpace
    Returns
