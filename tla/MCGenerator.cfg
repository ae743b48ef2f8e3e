CONSTANTS
    MaxNumber = 4
    Packages <- mcPackages
SPECIFICATION Spec
INVARIANTS
    OutputIgnoresOrder
    FieldsAsDeclared
    ImportsAsMeant
    OneSetOfMethods
