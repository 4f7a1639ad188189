CONSTANTS
    TypeId <- MCVisitedTypeId
    Registries <- MCVisitedRegistries
SPECIFICATION Spec
INVARIANT TypeHashInjective
