SPECIFICATION Spec
CONSTANT Texts <- SomeTexts
INVARIANTS ReadAsWritten  LostOnlyByALabel
CHECK_DEADLOCK FALSE
