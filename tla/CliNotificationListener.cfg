SPECIFICATION Spec
INVARIANT TypeOK
PROPERTY BridgeSpec
