CONSTANTS
    large = large
    small = small
    v1 = v1
    v2 = v2
    OtherAsset = OtherAsset
    Assets <- MCAssets
    MaxSize <- MCMaxSize
    Apps <- MCApps
    Perms <- MCPerms
    Values = {v1, v2}
    Attributes = {0, 1}
SYMMETRY MCSymmetry
SPECIFICATION Spec
INVARIANTS HeaderMatches ReturnsContent UsableUnlessTorn
PROPERTIES ChangesAsAsked ImplementsAssets
