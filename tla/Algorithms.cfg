SPECIFICATION Spec
CHECK_DEADLOCK FALSE
INVARIANTS
    MergeExplained
    MergeSymmetric
    
    DirectoryCoversContents
    
    KeysNameFiles
    VectorsOrdered
    
