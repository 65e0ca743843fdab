---------------------------- MODULE ExportService ----------------------------
(***************************************************************************)
(* What the provider promises to those who ask for an export: the kubectl  *)
(* plugin, and the AppClusterBinding controller, whose model takes the     *)
(* answer to a request from here.  A request is answered once; the answer  *)
(* "Succeeded" is only given when an export was found or made for this     *)
(* very request; an export is only made for a request, though the request  *)
(* may be gone by then.                                                    *)
(***************************************************************************)
CONSTANTS
    Requests,  \* names of requests in one namespace
    NoRequest

VARIABLES
    phase,    \* of each request, "none" for a name that is not in use
    granted,  \* the requests for which an export was found or made
    taken,    \* the request that is being served, perhaps deleted by now
    export    \* whether there is an export

vars == <<phase, granted, taken, export>>

Init ==
    /\ phase \in [Requests -> {"none", "Pending"}]
    /\ granted = {}
    /\ taken = NoRequest
    /\ export = FALSE

Submit(r) ==
    /\ phase[r] = "none"
    /\ phase' = [phase EXCEPT ![r] = "Pending"]
    /\ UNCHANGED <<granted, taken, export>>

\* The client withdraws the request, or the provider prunes it.
Remove(r) ==
    /\ phase[r] # "none"
    /\ phase' = [phase EXCEPT ![r] = "none"]
    /\ granted' = granted \ {r}
    /\ UNCHANGED <<taken, export>>

Take(r) ==
    /\ taken = NoRequest
    /\ taken' = r
    /\ granted' \in {granted, granted \cup {r}}
    /\ UNCHANGED <<phase, export>>

\* The export is made; if the request was deleted meanwhile, for a request of the past.
Make ==
    /\ taken # NoRequest
    /\ export' = TRUE
    /\ granted' \in {granted, granted \cup {taken}}
    /\ UNCHANGED <<phase, taken>>

Answer(r, answer) ==
    /\ phase[r] = "Pending"
    /\ answer = "Succeeded" => r \in granted
    /\ phase' = [phase EXCEPT ![r] = answer]
    /\ taken' = NoRequest
    /\ UNCHANGED <<granted, export>>

Leave ==
    /\ taken' = NoRequest
    /\ UNCHANGED <<phase, granted, export>>

\* The provider withdraws the export when the API is gone, and others may delete it.
Withdraw ==
    /\ export' = FALSE
    /\ UNCHANGED <<phase, granted, taken>>

Next ==
    \/ \E r \in Requests :
          \/ Submit(r)
          \/ Remove(r)
          \/ Take(r)
          \/ \E answer \in {"Succeeded", "Failed"} : Answer(r, answer)
    \/ Make
    \/ Leave
    \/ Withdraw

Spec == Init /\ [][Next]_vars
=============================================================================
