SPECIFICATION Spec
CONSTANTS
  Prospects = {ann}
  Emails = {mail1, mail2}
  FullName = FullName
  Anonymized = Anonymized
  Sessions = {req1}
  Officers = {officer1}
  EncryptionEnabled = TRUE
  NoProspect = NoProspect
  NoText = NoText
INVARIANT ErasureAnonymises
