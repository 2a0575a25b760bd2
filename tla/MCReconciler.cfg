CONSTANTS
    mNs = mNs
    mApp = mApp
    mInvalid = mInvalid
    mGarbage = mGarbage
    mBadYaml = mBadYaml
    mOld = mOld
    oNs = oNs
    oApp = oApp
    oSvc = oSvc
    oOld = oOld
    oKots = oKots
    Manifests <- MCManifests
    Objects <- MCObjects
    Internal <- MCInternal
    Content <- MCContent
    Requires <- MCRequires
    BadBase64 = {mGarbage}
    BadYaml = {mBadYaml}
    Invalid = {mInvalid}
    Documents <- MCDocuments
    MaxEntries = 2
    MaxUpdates = 2
    MaxDrift = 1

SPECIFICATION Spec

INVARIANT TypeOK
INVARIANT IterationOrder
PROPERTY GateRespected
PROPERTY ImplementsAbstract


CHECK_DEADLOCK FALSE
