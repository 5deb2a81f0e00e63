SPECIFICATION Spec
CONSTANTS
  Releases = {"0.4.2", "0.4.4"}
  Selections <- WithAndSans
  Headers <- SdkHeaders
  CppHeaders <- Nothing
  Configs <- SdkConfigs
  Docs <- Nothing
  DocPages <- SdkDocPages
  Artifacts <- FewArtifacts
  Target <- FewTarget
  Shared <- LibShared
  NULL = NULL
INVARIANTS
  TypeOK
  ManifestCovers
  UninstallComplete
  InstalledWhole
