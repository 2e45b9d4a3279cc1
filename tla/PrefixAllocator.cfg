\* Sixteen addresses, a parent of eight and children of two.
SPECIFICATION Spec
CONSTANTS
    None = None
    SpaceBits = 4
    ParentBits = 3
    ChildBits = 1
    MaxUsed = 3
INVARIANTS NextFreeIsNextFit FreeIsAgreed
