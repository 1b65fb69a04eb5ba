-------------------------------- MODULE Cli --------------------------------
(***************************************************************************)
(* The command line client and the API tokens it may use instead of a      *)
(* login: CliSession (hosts.yml and the OAuth tokens), CheckWait (waiting  *)
(* for a check in CI), CliUpdate and ApiTokens.  A behaviour exercises one *)
(* of them: they share no state, CI jobs carrying their token in           *)
(* GITGRIT_TOKEN.                                                          *)
(***************************************************************************)
EXTENDS CliSession, CheckWait, CliUpdate, ApiTokens

VARIABLE part

vars == <<part, sessionVars, waitVars, updateVars, tokenVars>>

Init ==
  /\ part \in {"session", "wait", "update", "tokens"}
  /\ SessionInit /\ WaitInit /\ UpdateInit /\ TokensInit
  /\ part # "update" => ~windows

Next ==
  /\ UNCHANGED part
  /\ \/ part = "session" /\ SessionNext /\ UNCHANGED <<waitVars, updateVars, tokenVars>>
     \/ part = "wait" /\ WaitNext /\ UNCHANGED <<sessionVars, updateVars, tokenVars>>
     \/ part = "update" /\ UpdateNext /\ UNCHANGED <<sessionVars, waitVars, tokenVars>>
     \/ part = "tokens" /\ TokensNext /\ UNCHANGED <<sessionVars, waitVars, updateVars>>

Spec == Init /\ [][Next]_vars
=============================================================================
