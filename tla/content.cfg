SPECIFICATION Spec
INVARIANTS
    TypeOK
    FormulasAreRead
    NamesLeadToNodes
    TextGetsThrough
PROPERTIES
    PictureShowsTheWorld
CHECK_DEADLOCK FALSE
