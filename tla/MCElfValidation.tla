--------------------------- MODULE MCElfValidation ---------------------------
EXTENDS ElfValidation

ASSUME PowersFound
=============================================================================
