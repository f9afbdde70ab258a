------------------------- MODULE MCOwnerOperations -------------------------
EXTENDS OwnerScheduling, TLC

CONSTANT o1
MCOperations == {o1}
AllKinds == {"derive", "transcribe", "check", "judge", "preview", "export"}
AllEvents == {"edit", "vague", "loss", "cancel", "disk", "expire"}
=============================================================================
