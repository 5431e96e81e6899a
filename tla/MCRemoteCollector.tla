-------------------------- MODULE MCRemoteCollector --------------------------
(* The instances of RemoteCollector that TLC checks: two prompts of one     *)
(* provider, and another provider besides.                                  *)
EXTENDS RemoteCollector

OneProvider == {<<"doubao", "p1">>, <<"doubao", "p2">>}
TwoProviders == OneProvider \cup {<<"qwen", "p1">>}
=============================================================================
