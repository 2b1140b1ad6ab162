SPECIFICATION Spec
CONSTANTS
  Width = 10
  Skew = 2
  MaxEntitlements = 2
  MaxEntitlement = 2
  MaxChain = 4
  MaxOwner = 2
  MaxContentId = 2
  MaxEntries = 3
  MaxVersion = 3
  MaxPayloadSize = 9
  MaxSeq = 9
  MaxCatalog = 15
  MaxPointer = 5
  MaxCredentialId = 5
  MaxAuthenticatorData = 40
  MaxClientData = 5
  MaxSignature = 5
  MaxAttestation = 5
  MaxManifest = 5
  MaxMembers = 3
  MaxDirectoryRead = 20
  MaxZip64 = 2
  MaxOffset = 9
  SessionSkew = 3
  MaxReason = 2
  FirstNow = 20
  MaxTicks = 1
  MaxChanges = 2
  MaxFaults = 1
  CurvePoints <- MCCurvePoints
  Identifiers <- MCIdentifiers
  Hashes <- MCHashes
  Digits = {"0", "77", "78"}
  Uuids <- MCUuids
  Cases <- MCCases
  Keys <- MCKeys
  NextKeys <- MCNextKeys
  Barrable <- MCBarrable
  Credentials <- MCCredentials
  Catalogs <- MCCatalogs
  Documents <- MCDocuments
  Blobs <- MCBlobs
  Endpoints = {"e1", "e2"}
CHECK_DEADLOCK FALSE
INVARIANTS
  AdmittedIsSigned
  HonestAdmitted
  RefusedWhileBarred
  
  
  CatalogOpenable
  ArchiveIsSound
