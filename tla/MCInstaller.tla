---------------------------- MODULE MCInstaller ----------------------------
(* TLC instance of Installer: one or two names in some parts of a release. *)
(* The two releases differ in the file their links lead to, as             *)
(* libdense_sim.so.0.4.2 and libdense_sim.so.0.4.4 do.                     *)
EXTENDS Installer, TLC

SdkHeaders  == <<"dense_sim.h">>
SdkConfigs  == <<"libdense_sim.pc">>
SdkDocPages == <<"INSTALLATION.md">>
Nothing     == <<>>

FewArtifacts ==
  [r \in Releases |-> <<"libdense_sim.so.0", "libdense_sim.so." \o r>>]

FewTarget ==
  [r \in Releases |-> "libdense_sim.so.0" :> "libdense_sim.so." \o r]

WithAndSans == {{}, {"docs"}}
LibShared   == {"lib", "share/doc/dense"}
=============================================================================
