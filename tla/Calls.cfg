SPECIFICATION Spec
INVARIANT TypeOK
INVARIANT BlameIsDeserved
INVARIANT SuccessRestsOnAPage
PROPERTY CallsReturn
