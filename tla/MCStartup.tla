------------------------------ MODULE MCStartup ------------------------------
(* An instance of Startup: three plugins, the last of them without a license. *)
EXTENDS Startup

ThreePlugins == <<"card-store", "health-checker", "enterprise-sso">>
=============================================================================
