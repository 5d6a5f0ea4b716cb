CONSTANTS
    Permitted <- Nobody

SPECIFICATION Spec

CONSTRAINT FewChanged

INVARIANTS
    EffectIsChoice

PROPERTIES
    ChoicesSurvive

CHECK_DEADLOCK FALSE
