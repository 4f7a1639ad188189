CONSTANTS
    TypeId <- MCTypeId
    Registries <- MCRegistries
SPECIFICATION Spec
INVARIANT RenamingInvariant
