------------------------------ MODULE MCBrowser -------------------------------
(***************************************************************************)
(* What stands between the collector and a provider's page: the browser    *)
(* session of a provider, the runtime the browser is started from, and the *)
(* sign-in to the provider.  They share no state that is modelled: `part`  *)
(* picks the component that moves, the others stay where they are, so that *)
(* TLC checks the three in one run.                                        *)
(***************************************************************************)
EXTENDS ProviderSession, RuntimeInstall, ProviderLogin

VARIABLE part

BrowserPart == {"session", "runtime", "login"}

browserVars == <<part, vars, runtimeVars, loginVars>>

\* A component that stays still starts in one of its initial states only.
BrowserInit ==
  /\ part \in BrowserPart
  /\ Init /\ RuntimeInit /\ LoginInit
  /\ part # "runtime" => runtime = "ok"
  /\ part # "login" => ~ persistent

BrowserNext ==
  \/ part = "session" /\ Next /\ UNCHANGED <<part, runtimeVars, loginVars>>
  \/ part = "runtime" /\ RuntimeNext /\ UNCHANGED <<part, vars, loginVars>>
  \/ part = "login" /\ LoginNext /\ UNCHANGED <<part, vars, runtimeVars>>

\* The fairness of the session's users: where another part moves, their
\* actions are disabled for good and it asks nothing.
BrowserSpec == BrowserInit /\ [][BrowserNext]_browserVars /\ Fairness

\* The types of the three components.
BrowserTypeOK ==
  /\ part \in BrowserPart
  /\ SessionTypeOK /\ RuntimeTypeOK /\ LoginTypeOK
=============================================================================
