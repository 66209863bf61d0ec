\* The common name a certificate gives the device, for a certificate a CA signed.
SPECIFICATION InterrogationSpec
CONSTANTS
    None = None
    Refused = Refused
    Passes <- mcSignedPasses
    LocalFaults <- mcLocalFaults
INVARIANT
    CertificateNamesDevice
CHECK_DEADLOCK FALSE
