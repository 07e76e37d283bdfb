SPECIFICATION Spec
CONSTANTS
    Image = {"lib", "app", "one", "two"}
    Class = {"A", "B", "C", "D", "E", "F"}
    Category = {"CK", "DK", "AK", "EK", "WK"}
    clslist <- Classes
    nlclslist <- LoadClasses
    catlist <- Categories
    nlcatlist <- LoadCategories
    superclass <- Super
    cls <- ClassOf
    Bundle = {"one", "two"}
    MaxMaps = 2
    Careful = TRUE
INVARIANTS
    TypeOK
    LoadOrder
    NoneForgotten
CHECK_DEADLOCK FALSE
